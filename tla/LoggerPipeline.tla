--------------------------- MODULE LoggerPipeline ---------------------------
(***************************************************************************)
(* The logging pipeline built by createLogger (src/clients/logger.js) and  *)
(* wired by ApplicationClients (src/unnamed/part_001):                     *)
(*                                                                         *)
(*   larch logger -> level router -> debug: drop backend                   *)
(*                                -> other: reservoir -> logtron levels    *)
(*                                                     -> backends         *)
(*                                                                         *)
(* and the remote-config updater that resizes the reservoir.  The          *)
(* reservoir, the level router and the drop backend live in lib/larch,     *)
(* which is not in src: they are modelled from their use here and from     *)
(* the comment "rest of logs are reservoir sampled then sent to Logtron".  *)
(* A log record is abstracted to its level; a JavaScript object to a       *)
(* function from its property names, and a read of a missing property to  *)
(* Undefined.                                                              *)
(***************************************************************************)
EXTENDS Naturals, Sequences

CONSTANTS
    ConfigSizes,     \* values log.reservoir.size can take in remote config
    DefaultSize,     \* the reservoir's size before any setSize
    MaxPending       \* bound on records logged between two flushes

ASSUME LoggerConstantsAssumption ==
    /\ ConfigSizes \subseteq Nat \ {0}
    /\ DefaultSize \in Nat \ {0}
    /\ MaxPending \in Nat \ {0}

Levels == {"trace", "debug", "info", "access", "warn", "error", "fatal"}
Backends == {"disk", "file", "kafka", "console", "sentry", "access"}
Undefined == "undefined"
Null == "null"

VARIABLES
    logReservoir,    \* ApplicationClients.logReservoir
    reservoirSize,   \* the size the reservoir samples to
    configSize,      \* the last log.reservoir.size read from remote config
    buffer,          \* records held by the reservoir, oldest first
    pending,         \* records offered to the reservoir since the last flush
    delivered        \* delivered[b]: the levels backend b has written

lvars == <<logReservoir, reservoirSize, configSize, buffer, pending, delivered>>

LTypeOK ==
    /\ logReservoir \in {"reservoir", Null, Undefined}
    /\ reservoirSize \in ConfigSizes \cup {DefaultSize}
    /\ configSize \in ConfigSizes \cup {0}
    /\ buffer \in Seq(Levels \ {"debug"})
    /\ pending \in 0..MaxPending
    /\ delivered \in [Backends -> SUBSET Levels]

-----------------------------------------------------------------------------
(* createLogger                                                            *)

\* The `levels` option of the logtron logger: the backends of each level.
LogtronBackends(l) ==
    CASE l = "trace"  -> {}
      [] l = "debug"  -> {"disk", "file", "console"}
      [] l = "access" -> {"access"}
      [] l \in {"error", "fatal"} -> {"disk", "file", "kafka", "console", "sentry"}
      [] OTHER        -> {"disk", "file", "kafka", "console"}

\* Slip: a level router with no route for debug (all to the default).
LevelRouteNoDrop(l) == "reservoir"

\* The level router: debug to the drop backend, the rest to the reservoir.
LevelRoute(l) == IF l = "debug" THEN "drop" ELSE "reservoir"

\* The object createLogger returns.
CreateLoggerParts == [logger |-> "larch", reservoir |-> "reservoir"]

\* A JavaScript property read: undefined when the object has no such key.
JsGet(obj, key) == IF key \in DOMAIN obj THEN obj[key] ELSE Undefined

-----------------------------------------------------------------------------
(* ApplicationClients                                                      *)

\* Either a seeded logger (logReservoir = null) or createLogger's parts,
\* whose reservoir is read back as loggerParts.logReservoir.
LInit ==
    /\ logReservoir \in {Null, JsGet(CreateLoggerParts, "logReservoir")}
    /\ reservoirSize = DefaultSize
    /\ configSize = 0
    /\ buffer = <<>>
    /\ pending = 0
    /\ delivered = [b \in Backends |-> {}]

\* updateReservoir, run by every remote-config update: only when
\* self.logReservoir is set, setFlushInterval and setSize(size).
RemoteConfigUpdate(v) ==
    /\ configSize' = v
    /\ reservoirSize' = IF logReservoir \in {Null, Undefined}
                        THEN reservoirSize ELSE v
    /\ UNCHANGED <<logReservoir, buffer, pending, delivered>>

\* The reservoir still has a free slot for its n+1st record.
HasRoom(n) == n < reservoirSize

\* logger.<l>(...): a debug record is dropped; any other is offered to the
\* reservoir, which keeps it while it has room and otherwise either drops
\* it or lets it replace a held record (reservoir sampling).
Log(l) ==
    /\ pending < MaxPending
    /\ IF LevelRoute(l) = "drop"
       THEN UNCHANGED <<buffer, pending>>
       ELSE /\ pending' = pending + 1
            /\ \/ /\ HasRoom(Len(buffer))
                  /\ buffer' = Append(buffer, l)
               \/ /\ ~HasRoom(Len(buffer))
                  /\ \E i \in 1..Len(buffer) \cup {0} :
                        buffer' = IF i = 0 THEN buffer
                                  ELSE [buffer EXCEPT ![i] = l]
    /\ UNCHANGED <<logReservoir, reservoirSize, configSize, delivered>>

\* The reservoir's flush timer: every held record goes to the logtron
\* logger, which writes it to the backends of its level.
Flush ==
    /\ buffer # <<>>
    /\ delivered' = [b \in Backends |->
                       delivered[b] \cup {buffer[i] : i \in
                          {j \in 1..Len(buffer) : b \in LogtronBackends(buffer[j])}}]
    /\ buffer' = <<>>
    /\ pending' = 0
    /\ UNCHANGED <<logReservoir, reservoirSize, configSize>>

LNext ==
    \/ \E v \in ConfigSizes : RemoteConfigUpdate(v)
    \/ \E l \in Levels : Log(l)
    \/ Flush

LSpec == LInit /\ [][LNext]_lvars /\ WF_lvars(Flush)

-----------------------------------------------------------------------------
(* Properties                                                              *)

\* The reservoir is sized by remote config: once log.reservoir.size has
\* been read, the reservoir samples to that size (the spec lists
\* log.reservoir.{size,flushInterval} among the remote-config keys).
ReservoirFollowsConfig ==
    (logReservoir # Null /\ configSize # 0) => reservoirSize = configSize

=============================================================================
