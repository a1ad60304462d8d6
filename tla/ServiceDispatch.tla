-------------------------- MODULE ServiceDispatch --------------------------
(***************************************************************************)
(* The peer lifecycle of one router's ServiceDispatchHandler               *)
(* (src/unnamed/part_002), with partial affinity disabled: lazy creation  *)
(* of service channels in exit or forward mode, relay-ad / relay-unad      *)
(* (refreshServicePeer / removeServicePeer), the peer-prune and peer-reap  *)
(* interval scans (the reaper switched on and off by remote config), peer *)
(* drains completing asynchronously, and the reconciliation of channel     *)
(* modes when the ring view changes.  The service-purge scan has no        *)
(* action: its test now - lastRefresh > self.servicePurgePeriod compares   *)
(* with a field that is never assigned (undefined), is always false, and  *)
(* the scan changes nothing.                                               *)
(*                                                                         *)
(* Every handler runs to completion on the single event loop, so each one *)
(* is one atomic action.  Timestamps are abstracted into generations: a    *)
(* scan whose interval equals the TTL it enforces removes exactly the     *)
(* entries not refreshed since the previous scan.                          *)
(***************************************************************************)
EXTENDS Naturals, FiniteSets

CONSTANTS
    Services,   \* service names (model values)
    Workers,    \* host:ports of service workers that advertise
    Relays,     \* host:ports of the routers of the ring
    Me,         \* this router's host:port
    K,          \* number of exits per service (kValue)
    ReapConfig  \* whether peerReaper.period > 0, for each value the remote
                \* config may hold (FALSE: absent or 0, the default)

ASSUME ConstantsAssumption ==
    /\ Me \in Relays
    /\ Workers \cap Relays = {}
    /\ K \in 1..Cardinality(Relays)
    /\ ReapConfig \subseteq BOOLEAN /\ ReapConfig # {}

Hosts == Workers \cup Relays

\* The transport peer objects this module observes: the goal of a drain in
\* progress ("pruned": close outbound when drained; "reaped" and "unad":
\* close both directions and delete the peer).
DrainReasons == {"none", "pruned", "reaped", "unad"}

\* serviceChannel.serviceProxyMode, "none" when self.channel.subChannels has
\* no channel for the service.
Modes == {"none", "exit", "forward"}

\* exitServices[serviceName] = lastRefresh: unset, or set by an advertisement
\* (and never deleted, since the purger never purges).
Stamps == {"none", "recent"}

\* What egressNodes.exitsFor may answer: K routers of the ring.
ExitSets == {e \in SUBSET Relays : Cardinality(e) = K}

VARIABLES
    ringExits,         \* egressNodes.exitsFor(s), owned by the ring
    updateScheduled,   \* setImmediate(updateServiceChannels) is queued
    serviceProxyMode,  \* subChannels[s].serviceProxyMode
    servicePeers,      \* subChannels[s].peers.keys()
    relaysFor,         \* self.relaysFor[s] (sorted exit names), {} if unset
    exitServices,      \* self.exitServices[s]
    knownPeers,        \* self.knownPeers[hostPort] = set of service names
    peersToReap,       \* self.peersToReap[hostPort] = set of service names
    peersToPrune,      \* DOMAIN self.peersToPrune
    peers,             \* self.channel.peers.keys() (transport peer table)
    connectedOut,      \* peer.isConnected('out')
    draining,          \* the reason of peer.draining, "none" if not draining
    workerUp,          \* the worker process is running (environment)
    reaperOn           \* the peer reaper's interval is positive

vars == <<ringExits, updateScheduled, serviceProxyMode, servicePeers,
          relaysFor, exitServices, knownPeers, peersToReap, peersToPrune,
          peers, connectedOut, draining, workerUp, reaperOn>>

TypeOK ==
    /\ ringExits \in [Services -> SUBSET Relays]
    /\ updateScheduled \in BOOLEAN
    /\ serviceProxyMode \in [Services -> Modes]
    /\ servicePeers \in [Services -> SUBSET Hosts]
    /\ relaysFor \in [Services -> SUBSET Relays]
    /\ exitServices \in [Services -> Stamps]
    /\ knownPeers \in [Workers -> SUBSET Services]
    /\ peersToReap \in [Workers -> SUBSET Services]
    /\ peersToPrune \in SUBSET Hosts
    /\ peers \in SUBSET Hosts
    /\ connectedOut \in [Hosts -> BOOLEAN]
    /\ draining \in [Hosts -> DrainReasons]
    /\ workerUp \in [Workers -> BOOLEAN]
    /\ reaperOn \in BOOLEAN

Init ==
    /\ ringExits \in [Services -> ExitSets]
    /\ updateScheduled = FALSE
    /\ serviceProxyMode = [s \in Services |-> "none"]
    /\ servicePeers = [s \in Services |-> {}]
    /\ relaysFor = [s \in Services |-> {}]
    /\ exitServices = [s \in Services |-> "none"]
    /\ knownPeers = [w \in Workers |-> {}]
    /\ peersToReap = [w \in Workers |-> {}]
    /\ peersToPrune = {}
    /\ peers = {}
    /\ connectedOut = [h \in Hosts |-> FALSE]
    /\ draining = [h \in Hosts |-> "none"]
    /\ workerUp = [w \in Workers |-> TRUE]
    \* the bootstrap's loadSync and onRemoteConfigUpdate set the reaper
    /\ reaperOn \in ReapConfig

-----------------------------------------------------------------------------
(* Helpers                                                                 *)

\* Slips the code could plausibly make in the helpers below; each one is
\* substituted for its helper in a mutation run of the property it breaks.
\*   addIndexEntry writing value into the outer map under keyb:
AddIndexEntryIntoOuter(index, keya, keyb) ==
    [k \in DOMAIN index \cup {keyb} |-> IF k = keyb THEN {keya} ELSE index[k]]

\* addIndexEntry(index, keya, keyb, value) and deleteIndexEntry(index, keya,
\* keyb) on a two-level map; an empty inner level counts as no entry.
AddIndexEntry(index, keya, keyb) == [index EXCEPT ![keya] = @ \cup {keyb}]

DeleteIndexEntry(index, keya, keyb) == [index EXCEPT ![keya] = @ \ {keyb}]

\* egressNodes.isExitFor(serviceName)
IsExitFor(s) == Me \in ringExits[s]

\* createServiceChannel: the exit names come from the relaysFor cache when it
\* is set, and from the ring only when it is not.
CreatedRelays(s) == IF relaysFor[s] # {} THEN relaysFor[s] ELSE ringExits[s]

\* createServiceChannel: the mode comes from the ring.
CreatedMode(s) == IF IsExitFor(s) THEN "exit" ELSE "forward"

\* The mode of the channel after getOrCreateServiceChannel(s).
ChannelMode(s) ==
    IF serviceProxyMode[s] = "none" THEN CreatedMode(s) ELSE serviceProxyMode[s]

\* createServiceChannel(s): cache the exit names, make the sub channel, and
\* in forward mode add a peer for every exit name (_getServicePeer adds it
\* to the sub channel and to the transport peer table).
CreateServiceChannel(s) ==
    LET names == CreatedRelays(s)
        mode  == CreatedMode(s)
    IN  /\ relaysFor' = [relaysFor EXCEPT ![s] = names]
        /\ serviceProxyMode' = [serviceProxyMode EXCEPT ![s] = mode]
        /\ servicePeers' = [servicePeers EXCEPT ![s] =
                                IF mode = "forward" THEN names ELSE {}]
        /\ peers' = IF mode = "forward" THEN peers \cup names ELSE peers

\* getOrCreateServiceChannel(s)
GetOrCreateServiceChannel(s) ==
    IF serviceProxyMode[s] = "none"
    THEN CreateServiceChannel(s)
    ELSE UNCHANGED <<relaysFor, serviceProxyMode, servicePeers, peers>>

\* ensurePeerConnected(serviceName, peer): cancel the prune; return early if
\* an outbound connection is up; otherwise cancel any drain and connect.
\* connectTo is abstracted to an identified outbound connection.
EnsurePeerConnected(w) ==
    IF connectedOut[w]
    THEN UNCHANGED <<connectedOut, draining>>
    ELSE /\ connectedOut' = [connectedOut EXCEPT ![w] = TRUE]
         /\ draining' = [draining EXCEPT ![w] = "none"]

\* The loop that collects the sub channels still holding the peer in
\* removeServicePeer reads `for (var i = 0; i < subChanKeys; i++)`: the
\* bound is the array of sub channel names, which the comparison turns into
\* NaN (the top channel always has the autobahn, ringpop and hyperbahn sub
\* channels, so the joined names are never numeric).  The body never runs.
SubChanLoopRuns == FALSE

\* The service names collected into `remain` by that loop, after the peer
\* has been deleted from serviceName's channel.
RemainingServices(s, w) ==
    IF SubChanLoopRuns
    THEN {t \in Services \ {s} : w \in servicePeers[t]}
    ELSE {}

\* reapSinglePeer tests self.knownPeers[hostPort], but getPeersToReap has
\* already replaced self.knownPeers by an empty map in the same scan.
KnownPeersDuringReap == [w \in Workers |-> {}]

\* Slip: a prune drain in progress makes the reaper skip the peer too.
ReapsPeerIdleOnly(w) ==
    /\ peersToReap[w] # {}
    /\ KnownPeersDuringReap[w] = {}
    /\ w \in peers
    /\ draining[w] = "none"

\* reapSinglePeer(hostPort, serviceNames, now) decides to reap: the peer was
\* in the collection, is not known in this round, exists, and is either not
\* draining or draining for a prune (which the reap supersedes).  The loop
\* over serviceNames reads `.length` of a map, so it never runs.
ReapsPeer(w) ==
    /\ peersToReap[w] # {}
    /\ KnownPeersDuringReap[w] = {}
    /\ w \in peers
    /\ draining[w] \in {"none", "pruned"}

\* pruneSinglePeer(hostPort, pruneInfo) starts an outbound drain.
PrunesPeer(h) ==
    /\ h \in peersToPrune
    /\ h \in peers
    /\ draining[h] = "none"

-----------------------------------------------------------------------------
(* Operations                                                              *)

\* handleRequest / handleLazily / discover on a service with no channel:
\* the channel is created lazily (admission is modelled elsewhere).
HandleRequest(s) ==
    /\ serviceProxyMode[s] = "none"
    /\ CreateServiceChannel(s)
    /\ UNCHANGED <<reaperOn, ringExits, updateScheduled, exitServices, knownPeers,
                   peersToReap, peersToPrune, connectedOut, draining, workerUp>>

\* relay-ad from an ingress router for (s, w): refreshServicePeer, legacy
\* (non partial-affinity) branch.  The relay may arrive at a router that is
\* not an exit for s: the channel is then created in forward mode and the
\* advertisement dropped.
RefreshServicePeer(s, w) ==
    /\ workerUp[w]
    /\ IF ChannelMode(s) # "exit"
       THEN /\ GetOrCreateServiceChannel(s)
            /\ UNCHANGED <<exitServices, knownPeers, peersToReap,
                           peersToPrune, connectedOut, draining>>
       ELSE /\ relaysFor' = [relaysFor EXCEPT ![s] = CreatedRelays(s)]
            /\ serviceProxyMode' = [serviceProxyMode EXCEPT ![s] = "exit"]
            /\ exitServices' = [exitServices EXCEPT ![s] = "recent"]
            /\ peersToPrune' = peersToPrune \ {w}
            /\ peersToReap' = DeleteIndexEntry(peersToReap, w, s)
            /\ knownPeers' = AddIndexEntry(knownPeers, w, s)
            /\ servicePeers' = [servicePeers EXCEPT ![s] = @ \cup {w}]
            /\ peers' = peers \cup {w}
            /\ EnsurePeerConnected(w)
    /\ UNCHANGED <<reaperOn, ringExits, updateScheduled, workerUp>>

\* relay-unad for (s, w): removeServicePeer.  Returns early when there is
\* no channel or no transport peer; otherwise deletes the peer from the
\* channel and, unless a sub channel still holds it or a reap drain is in
\* progress, replaces any drain by a close-peer drain of both directions.
RemoveServicePeer(s, w) ==
    /\ workerUp[w]
    /\ serviceProxyMode[s] # "none"
    /\ w \in peers
    /\ servicePeers' = [servicePeers EXCEPT ![s] = @ \ {w}]
    /\ IF RemainingServices(s, w) # {} \/ draining[w] = "reaped"
       THEN UNCHANGED draining
       ELSE draining' = [draining EXCEPT ![w] = "unad"]
    /\ UNCHANGED <<reaperOn, ringExits, updateScheduled, serviceProxyMode, relaysFor,
                   exitServices, knownPeers, peersToReap, peersToPrune,
                   peers, connectedOut, workerUp>>

\* A drain finishes (drained or timed out; the error is only logged).
\* Prune: thenResetPeer clears the drain, outbound connections are closed.
\* Reap / unadvertise: thenDeleteIt deletes the peer from the transport,
\* which drops it from every sub channel.
DrainDone(h) ==
    /\ draining[h] # "none"
    /\ draining' = [draining EXCEPT ![h] = "none"]
    /\ connectedOut' = [connectedOut EXCEPT ![h] = FALSE]
    /\ IF draining[h] = "pruned"
       THEN UNCHANGED <<peers, servicePeers>>
       ELSE /\ peers' = peers \ {h}
            /\ servicePeers' = [s \in Services |-> servicePeers[s] \ {h}]
    /\ UNCHANGED <<reaperOn, ringExits, updateScheduled, serviceProxyMode, relaysFor,
                   exitServices, knownPeers, peersToReap, peersToPrune,
                   workerUp>>

\* peer-prune scan: getPeersToPrune swaps the collection for an empty one,
\* then pruneSinglePeer runs for every entry.
PruneTick ==
    /\ peersToPrune' = {}
    /\ draining' = [h \in Hosts |-> IF PrunesPeer(h) THEN "pruned"
                                                     ELSE draining[h]]
    /\ UNCHANGED <<reaperOn, ringExits, updateScheduled, serviceProxyMode,
                   servicePeers, relaysFor, exitServices, knownPeers,
                   peersToReap, peers, connectedOut, workerUp>>

\* peer-reap scan: getPeersToReap rolls knownPeers into peersToReap and
\* empties knownPeers, then reapSinglePeer runs for every entry of the old
\* peersToReap.
ReapTick ==
    /\ reaperOn
    /\ peersToReap' = knownPeers
    /\ knownPeers' = [w \in Workers |-> {}]
    /\ draining' = [h \in Hosts |-> IF h \in Workers /\ ReapsPeer(h)
                                    THEN "reaped" ELSE draining[h]]
    /\ UNCHANGED <<reaperOn, ringExits, updateScheduled, serviceProxyMode,
                   servicePeers, relaysFor, exitServices, peersToPrune,
                   peers, connectedOut, workerUp>>

\* service-purge scan over exitServices: a service not refreshed since the
\* previous scan is deleted and its channel closed and deleted (its rate
\* limiter counters are dropped too); relaysFor is left as it is.
\* updateReapPeersPeriod, run by every remote-config update: the reaper's
\* interval becomes peerReaper.period, and 0 (the default) stops it.
RemoteReapConfig(on) ==
    /\ reaperOn' = on
    /\ UNCHANGED <<ringExits, updateScheduled, serviceProxyMode, servicePeers,
                   relaysFor, exitServices, knownPeers, peersToReap,
                   peersToPrune, peers, connectedOut, draining, workerUp>>

MembershipChange ==
    /\ \E e \in [Services -> ExitSets] :
          /\ e # ringExits
          /\ ringExits' = e
    /\ updateScheduled' = TRUE
    /\ UNCHANGED <<reaperOn, serviceProxyMode, servicePeers, relaysFor, exitServices,
                   knownPeers, peersToReap, peersToPrune, peers,
                   connectedOut, draining, workerUp>>

\* Slips in updateServiceChannel: an exit channel is never switched to
\* forward (changeToForward not called), and changeToExit keeps the peers.
UpdatedModeKeepExit(s) ==
    IF serviceProxyMode[s] = "exit" THEN "exit" ELSE CreatedMode(s)

UpdatedPeersKeepOnExit(s) ==
    IF IsExitFor(s) THEN servicePeers[s] ELSE ringExits[s]

\* updateServiceChannel(serviceChannel): the mode the channel ends in.
UpdatedMode(s) == CreatedMode(s)

\* Slip: reconciliation rebuilds every exit channel from scratch, as if an
\* exit that stays an exit were changed to exit again.
UpdatedPeersReset(s) ==
    IF IsExitFor(s) THEN {} ELSE ringExits[s]

\* updateServiceChannel(serviceChannel): the peers the channel ends with.
\* changeToExit clears them; an exit channel that stays exit keeps them
\* (updateServiceNodes does nothing without partial affinity);
\* changeToForward and updateExitNodes leave exactly the exits.
UpdatedPeers(s) ==
    IF IsExitFor(s)
    THEN IF serviceProxyMode[s] = "forward" THEN {} ELSE servicePeers[s]
    ELSE ringExits[s]

\* updateServiceChannels: updateServiceChannel for every channel, which
\* refreshes relaysFor and then changes the mode and the peers.  In
\* changeToForward, ensurePeerDisconnected schedules a prune of every
\* worker peer, since connectedPeerServices is empty without partial
\* affinity; the exits are added to the transport peer table.
UpdateServiceChannels ==
    LET live  == {s \in Services : serviceProxyMode[s] # "none"}
        toFwd == {s \in live : ~IsExitFor(s) /\ serviceProxyMode[s] = "exit"}
        fwd   == {s \in live : ~IsExitFor(s)}
    IN
    /\ updateScheduled
    /\ updateScheduled' = FALSE
    /\ relaysFor' = [s \in Services |->
                       IF s \in live THEN ringExits[s] ELSE relaysFor[s]]
    /\ serviceProxyMode' = [s \in Services |->
                       IF s \in live THEN UpdatedMode(s) ELSE "none"]
    /\ servicePeers' = [s \in Services |->
                       IF s \in live THEN UpdatedPeers(s) ELSE servicePeers[s]]
    /\ peersToPrune' = peersToPrune \cup UNION {servicePeers[s] : s \in toFwd}
    /\ peers' = peers \cup UNION {ringExits[s] : s \in fwd}
    /\ UNCHANGED <<reaperOn, ringExits, exitServices, knownPeers, peersToReap,
                   connectedOut, draining, workerUp>>

\* Environment: a worker process stops (its connections close) or starts
\* again, and an outbound connection is lost.
WorkerCrash(w) ==
    /\ workerUp[w]
    /\ workerUp' = [workerUp EXCEPT ![w] = FALSE]
    /\ connectedOut' = [connectedOut EXCEPT ![w] = FALSE]
    /\ UNCHANGED <<reaperOn, ringExits, updateScheduled, serviceProxyMode, servicePeers,
                   relaysFor, exitServices, knownPeers, peersToReap,
                   peersToPrune, peers, draining>>

WorkerRestart(w) ==
    /\ ~workerUp[w]
    /\ workerUp' = [workerUp EXCEPT ![w] = TRUE]
    /\ UNCHANGED <<reaperOn, ringExits, updateScheduled, serviceProxyMode, servicePeers,
                   relaysFor, exitServices, knownPeers, peersToReap,
                   peersToPrune, peers, connectedOut, draining>>

ConnectionLost(w) ==
    /\ connectedOut[w]
    /\ connectedOut' = [connectedOut EXCEPT ![w] = FALSE]
    /\ UNCHANGED <<reaperOn, ringExits, updateScheduled, serviceProxyMode, servicePeers,
                   relaysFor, exitServices, knownPeers, peersToReap,
                   peersToPrune, peers, draining, workerUp>>

-----------------------------------------------------------------------------
Next ==
    \/ \E s \in Services : HandleRequest(s)
    \/ \E s \in Services, w \in Workers : RefreshServicePeer(s, w)
    \/ \E s \in Services, w \in Workers : RemoveServicePeer(s, w)
    \/ \E h \in Hosts : DrainDone(h)
    \/ PruneTick
    \/ ReapTick
    \/ \E on \in ReapConfig : RemoteReapConfig(on)
    \/ MembershipChange
    \/ UpdateServiceChannels
    \/ \E w \in Workers : WorkerCrash(w) \/ WorkerRestart(w) \/ ConnectionLost(w)

\* The pruner's timer fires for ever (setPrunePeersPeriod is never called);
\* the reaper's fires while its interval is positive, which is what the
\* guard reaperOn of ReapTick gives weak fairness; a drain always ends (it
\* carries drainTimeout); the setImmediate callback runs.  The workers, the
\* ring, the network and remote config get no fairness.
Fairness ==
    /\ WF_vars(PruneTick)
    /\ WF_vars(ReapTick)
    /\ WF_vars(UpdateServiceChannels)
    /\ \A h \in Hosts : WF_vars(DrainDone(h))

Spec == Init /\ [][Next]_vars /\ Fairness

-----------------------------------------------------------------------------
(* Properties                                                              *)

\* Spec 8.3: once the scheduled updateServiceChannels has run, every
\* service channel is in exit mode exactly when the ring makes this router
\* an exit for it (createServiceChannel, changeToExit, changeToForward).
ModeMatchesRing ==
    ~updateScheduled =>
        \A s \in Services :
            serviceProxyMode[s] # "none" => serviceProxyMode[s] = CreatedMode(s)

\* An exit channel routes only to workers and a forward channel only to
\* routers: changeToExit must drop the exit routers a forward channel held,
\* and changeToForward the workers an exit channel held.
ChannelPeersMatchMode ==
    \A s \in Services :
        /\ serviceProxyMode[s] = "exit" => servicePeers[s] \subseteq Workers
        /\ serviceProxyMode[s] = "forward" => servicePeers[s] \subseteq Relays
        /\ serviceProxyMode[s] = "none" => servicePeers[s] = {}

\* Spec 5: "a peer is closed only after all service channels have released
\* it": removeServicePeer starts a close-peer drain only for a peer that no
\* service channel holds any more.
UnadvertiseDrainOnlyReleased ==
    [][\A w \in Workers :
         (draining'[w] = "unad" /\ draining[w] # "unad")
            => \A s \in Services : w \notin servicePeers'[s]]_vars

\* Spec 3: a peer is dead when it was not re-added to knownPeers before the
\* next reap tick: the reaper never drains a peer that advertised a service
\* in the round that is ending.
ReapOnlySilentPeers ==
    [][\A w \in Workers :
         (draining'[w] = "reaped" /\ draining[w] # "reaped")
            => knownPeers[w] = {}]_vars

\* Spec 4.2: refreshServicePeer in exit mode ensures an out-connection "and
\* cancels any in-flight drain": after a relay-ad is applied, the peer is
\* not left draining towards closure.
AdvertiseCancelsDrain ==
    [][\A s \in Services, w \in Workers :
         (RefreshServicePeer(s, w) /\ ChannelMode(s) = "exit")
            => draining'[w] = "none"]_vars

\* Spec 7 ("the reaper ... guarantee[s] that a permanently silent worker
\* disappears within two reap periods"; spec 5 gives the reap period a
\* 5 min default): a
\* worker that stopped is eventually removed from the transport by the
\* reaper (or by a drain in progress), unless it comes back.
DeadPeerEventuallyRemoved ==
    \A w \in Workers : ~workerUp[w] ~> (w \notin peers \/ workerUp[w])

\* The same for a router whose remote config keeps peerReaper.period
\* positive from some time on: the reaper's two-round test
\* (getPeersToReap, reapSinglePeer) then removes every silent worker.
DeadPeerRemovedWhileReaping ==
    (<>[]reaperOn) => DeadPeerEventuallyRemoved

\* Spec 7: a service this router no longer owns disappears from
\* exitServices within one purge period: once the ring settles with this
\* router not an exit for s, the purger (servicePurger, part_002:196-217)
\* eventually forgets s for good.
ServiceOwnershipExpires ==
    \A s \in Services :
        (<>[](~IsExitFor(s))) => <>[](exitServices[s] = "none")


-----------------------------------------------------------------------------
(* Refinement                                                              *)

\* The routing table of ServiceRoutes is the channels' modes and peers.
SR == INSTANCE ServiceRoutes WITH RouteServices <- Services,
        RouteWorkers <- Workers, RouteRelays <- Relays,
        mode <- serviceProxyMode, routes <- servicePeers

\* The dispatcher implements ServiceRoutes: a channel opens empty or to
\* routers, a worker joins a channel only by advertising while it is (or
\* becomes) an exit, peers leave by unadvertise or deletion, and a
\* membership change keeps the workers of an exit that stays an exit.
ImplementsServiceRoutes == SR!RSpec

=============================================================================
