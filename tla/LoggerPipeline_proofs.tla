----------------------- MODULE LoggerPipeline_proofs ------------------------
(***************************************************************************)
(* Proofs about LoggerPipeline for every reservoir size, every set of      *)
(* remote-config sizes and every bound on records between flushes.  The   *)
(* type invariant is inductive by itself: the level router sends debug to  *)
(* the drop backend before the reservoir sees it, so a reservoir slot only *)
(* ever receives a record of another level.                                *)
(***************************************************************************)
EXTENDS LoggerPipeline, TLAPS

LEMMA InitLTypeOK == LInit => LTypeOK
BY LoggerConstantsAssumption
DEF LInit, LTypeOK, JsGet, CreateLoggerParts

LEMMA NextLTypeOK == LTypeOK /\ [LNext]_lvars => LTypeOK'
<1> SUFFICES ASSUME LTypeOK, [LNext]_lvars PROVE LTypeOK'
    OBVIOUS
<1> USE LoggerConstantsAssumption
<1>1. ASSUME NEW v \in ConfigSizes, RemoteConfigUpdate(v) PROVE LTypeOK'
    BY <1>1 DEF RemoteConfigUpdate, LTypeOK
<1>2. ASSUME NEW l \in Levels, Log(l) PROVE LTypeOK'
    <2>1. CASE l = "debug"
        BY <1>2, <2>1 DEF Log, LevelRoute, LTypeOK
    <2>2. CASE l # "debug"
        <3>a. pending' = pending + 1 /\ pending < MaxPending
            BY <1>2, <2>2 DEF Log, LevelRoute
        <3>b. buffer' \in Seq(Levels \ {"debug"})
            <4>1. CASE buffer' = Append(buffer, l)
                BY <2>2, <4>1 DEF LTypeOK
            <4>2. CASE \E i \in 1..Len(buffer) \cup {0} :
                          buffer' = IF i = 0 THEN buffer
                                    ELSE [buffer EXCEPT ![i] = l]
                <5>1. PICK i \in 1..Len(buffer) \cup {0} :
                          buffer' = IF i = 0 THEN buffer
                                    ELSE [buffer EXCEPT ![i] = l]
                    BY <4>2
                <5>2. QED BY <2>2, <5>1 DEF LTypeOK
            <4>3. QED BY <1>2, <2>2, <4>1, <4>2 DEF Log, LevelRoute
        <3>c. QED BY <1>2, <3>a, <3>b DEF Log, LTypeOK
    <2>3. QED BY <2>1, <2>2
<1>3. CASE Flush
    BY <1>3 DEF Flush, LTypeOK
<1>4. CASE UNCHANGED lvars
    BY <1>4 DEF lvars, LTypeOK
<1>5. QED BY <1>1, <1>2, <1>3, <1>4 DEF LNext

\* Every state the pipeline reaches is well typed: in particular the
\* reservoir never holds a debug record, which createLogger's level router
\* sends to the drop backend, and the reservoir's size is always the
\* default or a size remote config offered.
THEOREM LoggerTypeCorrect == LSpec => []LTypeOK
BY InitLTypeOK, NextLTypeOK, PTL DEF LSpec

=============================================================================
