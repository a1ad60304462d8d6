----------------------- MODULE ServiceDispatch_proofs -----------------------
(***************************************************************************)
(* Proofs about ServiceDispatch for every value of the constants:          *)
(*   - TypeCorrect: every reachable state is well typed;                   *)
(*   - ChannelsCorrect: exit channels hold only workers, forward channels  *)
(*     only routers, and once reconciliation has run every channel's mode *)
(*     agrees with the ring.                                               *)
(***************************************************************************)
EXTENDS ServiceDispatch, TLAPS

\* The modes and stamps are distinct strings.
LEMMA ModesDistinct ==
    /\ "none" # "exit" /\ "none" # "forward" /\ "exit" # "forward"
OBVIOUS

\* A helper that builds a channel's state keeps the type.
LEMMA CreatedTypes ==
    ASSUME TypeOK, NEW s \in Services
    PROVE  /\ CreatedRelays(s) \subseteq Relays
           /\ CreatedMode(s) \in {"exit", "forward"}
           /\ ChannelMode(s) \in Modes
BY DEF TypeOK, CreatedRelays, CreatedMode, ChannelMode, Modes

-----------------------------------------------------------------------------
LEMMA InitTypeOK == Init => TypeOK
<1> SUFFICES ASSUME Init PROVE TypeOK
    OBVIOUS
<1>1. ringExits \in [Services -> SUBSET Relays]
    <2>1. ExitSets \subseteq SUBSET Relays
        BY DEF ExitSets
    <2>2. QED BY <2>1 DEF Init
<1>2. QED BY <1>1, ConstantsAssumption
    DEF Init, TypeOK, Hosts, Modes, Stamps, DrainReasons

LEMMA NextTypeOK == TypeOK /\ [Next]_vars => TypeOK'
<1> SUFFICES ASSUME TypeOK, [Next]_vars PROVE TypeOK'
    OBVIOUS
<1> USE ConstantsAssumption
<1>1. ASSUME NEW s \in Services, HandleRequest(s) PROVE TypeOK'
    BY <1>1, CreatedTypes DEF HandleRequest, CreateServiceChannel, TypeOK,
       Hosts, Modes
<1>2. ASSUME NEW s \in Services, NEW w \in Workers, RefreshServicePeer(s, w)
      PROVE TypeOK'
    <2>1. CASE ChannelMode(s) # "exit"
        BY <1>2, <2>1, CreatedTypes
        DEF RefreshServicePeer, GetOrCreateServiceChannel,
            CreateServiceChannel, TypeOK, Hosts, Modes
    <2>2. CASE ChannelMode(s) = "exit"
        <3> USE <1>2, <2>2 DEF RefreshServicePeer
        <3>1. relaysFor' \in [Services -> SUBSET Relays]
            BY CreatedTypes DEF TypeOK
        <3>2. /\ serviceProxyMode' \in [Services -> Modes]
              /\ exitServices' \in [Services -> Stamps]
              /\ servicePeers' \in [Services -> SUBSET Hosts]
              /\ peers' \in SUBSET Hosts
              /\ peersToPrune' \in SUBSET Hosts
            BY DEF TypeOK, Modes, Stamps, Hosts
        <3>3. /\ knownPeers' \in [Workers -> SUBSET Services]
              /\ peersToReap' \in [Workers -> SUBSET Services]
            BY DEF TypeOK, AddIndexEntry, DeleteIndexEntry
        <3>4. /\ connectedOut' \in [Hosts -> BOOLEAN]
              /\ draining' \in [Hosts -> DrainReasons]
            BY DEF TypeOK, EnsurePeerConnected, Hosts, DrainReasons
        <3>5. QED BY <3>1, <3>2, <3>3, <3>4 DEF TypeOK
    <2>3. QED BY <2>1, <2>2
<1>3. ASSUME NEW s \in Services, NEW w \in Workers, RemoveServicePeer(s, w)
      PROVE TypeOK'
    BY <1>3 DEF RemoveServicePeer, TypeOK, Hosts, DrainReasons
<1>4. ASSUME NEW h \in Hosts, DrainDone(h) PROVE TypeOK'
    BY <1>4 DEF DrainDone, TypeOK, DrainReasons
<1>5. CASE PruneTick
    BY <1>5 DEF PruneTick, TypeOK, DrainReasons
<1>6. CASE ReapTick
    BY <1>6 DEF ReapTick, TypeOK, DrainReasons, Hosts
<1>7. ASSUME NEW on \in ReapConfig, RemoteReapConfig(on) PROVE TypeOK'
    BY <1>7 DEF RemoteReapConfig, TypeOK
<1>8. CASE MembershipChange
    BY <1>8 DEF MembershipChange, TypeOK, ExitSets
<1>9. CASE UpdateServiceChannels
    <2> USE <1>9 DEF UpdateServiceChannels
    <2>1. serviceProxyMode' \in [Services -> Modes]
        BY DEF UpdatedMode, CreatedMode, Modes
    <2>2. servicePeers' \in [Services -> SUBSET Hosts]
        BY DEF UpdatedPeers, TypeOK, Hosts
    <2>3. /\ peersToPrune' \in SUBSET Hosts
          /\ peers' \in SUBSET Hosts
          /\ relaysFor' \in [Services -> SUBSET Relays]
        BY DEF TypeOK, Hosts
    <2>4. QED BY <2>1, <2>2, <2>3 DEF TypeOK
<1>10. ASSUME NEW w \in Workers,
              WorkerCrash(w) \/ WorkerRestart(w) \/ ConnectionLost(w)
       PROVE TypeOK'
    BY <1>10 DEF WorkerCrash, WorkerRestart, ConnectionLost, TypeOK, Hosts
<1>11. CASE UNCHANGED vars
    BY <1>11 DEF vars, TypeOK
<1>12. QED
    BY <1>1, <1>2, <1>3, <1>4, <1>5, <1>6, <1>7, <1>8, <1>9, <1>10, <1>11
    DEF Next

\* Every reachable state is well typed.
THEOREM TypeCorrect == Spec => []TypeOK
BY InitTypeOK, NextTypeOK, PTL DEF Spec

-----------------------------------------------------------------------------
(* Channel correctness.  Both invariants are inductive once the type       *)
(* invariant is added: every action either rebuilds a channel's mode and   *)
(* peers together (createServiceChannel, updateServiceChannel),           *)
(* only shrinks the peers (unadvertise, drains), or adds a worker to an    *)
(* exit channel (advertise).                                               *)

IInv == TypeOK /\ ChannelPeersMatchMode /\ ModeMatchesRing

LEMMA InitIInv == Init => IInv
<1> SUFFICES ASSUME Init PROVE IInv
    OBVIOUS
<1>1. TypeOK
    BY InitTypeOK
<1>2. ChannelPeersMatchMode
    BY DEF Init, ChannelPeersMatchMode
<1>3. ModeMatchesRing
    BY DEF Init, ModeMatchesRing
<1>4. QED BY <1>1, <1>2, <1>3 DEF IInv

\* A step that leaves every channel's mode alone and only removes peers from
\* channels (removeServicePeer, a drain deleting its peer) keeps the peers
\* of each channel of the kind its mode routes to.
LEMMA ShrinkKeepsPeers ==
    ASSUME ChannelPeersMatchMode,
           serviceProxyMode' = serviceProxyMode,
           \A s \in Services : servicePeers'[s] \subseteq servicePeers[s]
    PROVE  ChannelPeersMatchMode'
BY DEF ChannelPeersMatchMode

LEMMA NextIInv == IInv /\ [Next]_vars => IInv'
<1> SUFFICES ASSUME IInv, [Next]_vars PROVE IInv'
    OBVIOUS
<1> USE ConstantsAssumption
<1>0. TypeOK /\ TypeOK'
    BY NextTypeOK DEF IInv
<1> USE <1>0
<1>1. ASSUME NEW s \in Services, HandleRequest(s) PROVE IInv'
    <2>1. CreatedRelays(s) \subseteq Relays
        BY CreatedTypes
    <2>2. ChannelPeersMatchMode'
        BY <1>1, <2>1 DEF IInv, TypeOK, HandleRequest, CreateServiceChannel,
           ChannelPeersMatchMode, CreatedMode
    <2>3. ModeMatchesRing'
        BY <1>1 DEF IInv, HandleRequest, CreateServiceChannel,
           ModeMatchesRing, CreatedMode, IsExitFor
    <2>4. QED BY <2>2, <2>3 DEF IInv
<1>2. ASSUME NEW s \in Services, NEW w \in Workers, RefreshServicePeer(s, w)
      PROVE IInv'
    <2>1. CASE ChannelMode(s) # "exit" /\ serviceProxyMode[s] = "none"
        <3>1. CreatedRelays(s) \subseteq Relays
            BY CreatedTypes
        <3>2. ChannelPeersMatchMode'
            BY <1>2, <2>1, <3>1 DEF IInv, TypeOK, RefreshServicePeer,
               GetOrCreateServiceChannel, CreateServiceChannel,
               ChannelPeersMatchMode, CreatedMode
        <3>3. ModeMatchesRing'
            BY <1>2, <2>1 DEF IInv, TypeOK, RefreshServicePeer,
               GetOrCreateServiceChannel, CreateServiceChannel,
               ModeMatchesRing, CreatedMode, IsExitFor
        <3>4. QED BY <3>2, <3>3 DEF IInv
    <2>2. CASE ChannelMode(s) # "exit" /\ serviceProxyMode[s] # "none"
        BY <1>2, <2>2 DEF IInv, RefreshServicePeer, ChannelMode,
           GetOrCreateServiceChannel, ChannelPeersMatchMode, ModeMatchesRing,
           CreatedMode, IsExitFor
    <2>3. CASE ChannelMode(s) = "exit"
        <3>1. serviceProxyMode[s] \in {"none", "exit"}
            BY <2>3 DEF ChannelMode, CreatedMode
        <3>2. servicePeers[s] \subseteq Workers
            BY <3>1 DEF IInv, ChannelPeersMatchMode
        <3>3. ChannelPeersMatchMode'
            BY <1>2, <2>3, <3>2 DEF IInv, TypeOK, RefreshServicePeer,
               ChannelPeersMatchMode
        <3>4. ~updateScheduled => "exit" = CreatedMode(s)
            BY <2>3, <3>1 DEF IInv, ModeMatchesRing, ChannelMode
        <3>5. ModeMatchesRing'
            BY <1>2, <2>3, <3>4 DEF IInv, TypeOK, RefreshServicePeer,
               ModeMatchesRing, CreatedMode, IsExitFor
        <3>6. QED BY <3>3, <3>5 DEF IInv
    <2>4. QED BY <2>1, <2>2, <2>3
<1>3. ASSUME NEW s \in Services, NEW w \in Workers, RemoveServicePeer(s, w)
      PROVE IInv'
    <2>1. ChannelPeersMatchMode'
        BY <1>3, ShrinkKeepsPeers DEF IInv, RemoveServicePeer, TypeOK
    <2>2. ModeMatchesRing'
        BY <1>3 DEF IInv, RemoveServicePeer, ModeMatchesRing, CreatedMode,
           IsExitFor
    <2>3. QED BY <2>1, <2>2 DEF IInv
<1>4. ASSUME NEW h \in Hosts, DrainDone(h) PROVE IInv'
    <2>1. \A s \in Services : servicePeers'[s] \subseteq servicePeers[s]
        BY <1>4 DEF DrainDone
    <2>2. ChannelPeersMatchMode'
        BY <1>4, <2>1, ShrinkKeepsPeers DEF IInv, DrainDone, TypeOK
    <2>3. ModeMatchesRing'
        BY <1>4 DEF IInv, DrainDone, ModeMatchesRing, CreatedMode, IsExitFor
    <2>4. QED BY <2>2, <2>3 DEF IInv
<1>5. CASE PruneTick \/ ReapTick
    BY <1>5 DEF IInv, PruneTick, ReapTick, ChannelPeersMatchMode,
       ModeMatchesRing, CreatedMode, IsExitFor
<1>6. ASSUME NEW on \in ReapConfig, RemoteReapConfig(on) PROVE IInv'
    BY <1>6 DEF IInv, RemoteReapConfig, ChannelPeersMatchMode, ModeMatchesRing,
       CreatedMode, IsExitFor
<1>7. CASE MembershipChange
    BY <1>7 DEF IInv, MembershipChange, ChannelPeersMatchMode, ModeMatchesRing
<1>8. CASE UpdateServiceChannels
    <2> USE <1>8 DEF UpdateServiceChannels
    <2>1. ChannelPeersMatchMode'
        <3> SUFFICES ASSUME NEW s \in Services PROVE
              /\ serviceProxyMode'[s] = "exit" => servicePeers'[s] \subseteq Workers
              /\ serviceProxyMode'[s] = "forward" => servicePeers'[s] \subseteq Relays
              /\ serviceProxyMode'[s] = "none" => servicePeers'[s] = {}
            BY DEF ChannelPeersMatchMode
        <3>1. CASE serviceProxyMode[s] = "none"
            BY <3>1 DEF IInv, ChannelPeersMatchMode
        <3>2. CASE serviceProxyMode[s] # "none" /\ IsExitFor(s)
            <4>1. serviceProxyMode'[s] = "exit"
                BY <3>2 DEF UpdatedMode, CreatedMode
            <4>2. servicePeers'[s] \subseteq Workers
                BY <3>2 DEF IInv, TypeOK, ChannelPeersMatchMode, UpdatedPeers,
                   Modes
            <4>3. QED BY <4>1, <4>2
        <3>3. CASE serviceProxyMode[s] # "none" /\ ~IsExitFor(s)
            <4>1. serviceProxyMode'[s] = "forward"
                BY <3>3 DEF UpdatedMode, CreatedMode
            <4>2. servicePeers'[s] \subseteq Relays
                BY <3>3 DEF IInv, TypeOK, UpdatedPeers
            <4>3. QED BY <4>1, <4>2
        <3>4. QED BY <3>1, <3>2, <3>3
    <2>2. ModeMatchesRing'
        BY DEF ModeMatchesRing, UpdatedMode, CreatedMode, IsExitFor
    <2>3. QED BY <2>1, <2>2 DEF IInv
<1>9. ASSUME NEW w \in Workers,
             WorkerCrash(w) \/ WorkerRestart(w) \/ ConnectionLost(w)
      PROVE IInv'
    BY <1>9 DEF IInv, WorkerCrash, WorkerRestart, ConnectionLost,
       ChannelPeersMatchMode, ModeMatchesRing, CreatedMode, IsExitFor
<1>10. CASE UNCHANGED vars
    BY <1>10 DEF IInv, vars, ChannelPeersMatchMode, ModeMatchesRing,
       CreatedMode, IsExitFor
<1>11. QED
    BY <1>1, <1>2, <1>3, <1>4, <1>5, <1>6, <1>7, <1>8, <1>9, <1>10 DEF Next

\* Spec 8.3 and the routing of sub channels: in every reachable state an
\* exit channel holds only workers and a forward channel only routers, and,
\* once the setImmediate(updateServiceChannels) queued by a ring change has
\* run, every channel's mode agrees with the ring.
THEOREM ChannelsCorrect == Spec => [](ChannelPeersMatchMode /\ ModeMatchesRing)
<1>1. IInv => ChannelPeersMatchMode /\ ModeMatchesRing
    BY DEF IInv
<1>2. QED BY InitIInv, NextIInv, <1>1, PTL DEF Spec

\* Once updateServiceChannels has run after the last ring change, every
\* service channel is in the mode the ring gives this router, for any sets
\* of services, workers and routers and any K.
THEOREM ModesFollowRing == Spec => []ModeMatchesRing
BY ChannelsCorrect, PTL


-----------------------------------------------------------------------------
(* Refinement of ServiceRoutes.  The mapping is the identity on the       *)
(* channels' modes and peers; everything else of the dispatcher is hidden. *)
(* Each step maps to one abstract step or to a stutter: a request or an   *)
(* advertisement for a non-exit service opens a channel, an advertisement *)
(* for an exit admits the worker, unadvertise releases it, a drain that   *)
(* deletes its peer evicts it, and updateServiceChannels reconciles      *)
(* every open channel; the rest stutters.  IInv is needed: an absent      *)
(* channel has no peers (so opening one as an exit empties it),           *)
(* and an open channel's mode is exit or forward.                         *)

LEMMA DispatchStepRefines ==
    IInv /\ IInv' /\ [Next]_vars => [SR!RNext]_SR!rvars
<1> SUFFICES ASSUME IInv, IInv', [Next]_vars PROVE [SR!RNext]_SR!rvars
    OBVIOUS
<1> USE ConstantsAssumption
<1> DEFINE Stutter == UNCHANGED <<serviceProxyMode, servicePeers>>
<1>0. Stutter => [SR!RNext]_SR!rvars
    BY DEF SR!rvars
<1>1. ASSUME NEW s \in Services, HandleRequest(s) PROVE [SR!RNext]_SR!rvars
    <2>1. SR!Open(s)
        <3>1. CreatedRelays(s) \subseteq Relays
            BY CreatedTypes DEF IInv
        <3>2. CASE CreatedMode(s) = "exit"
            BY <1>1, <3>2 DEF HandleRequest, CreateServiceChannel, SR!Open
        <3>3. CASE CreatedMode(s) = "forward"
            BY <1>1, <3>1, <3>3 DEF HandleRequest, CreateServiceChannel, SR!Open
        <3>4. QED BY <3>2, <3>3 DEF CreatedMode
    <2>2. QED BY <2>1 DEF SR!RNext
<1>2. ASSUME NEW s \in Services, NEW w \in Workers, RefreshServicePeer(s, w)
      PROVE [SR!RNext]_SR!rvars
    <2>1. CASE ChannelMode(s) # "exit" /\ serviceProxyMode[s] = "none"
        <3>1. CreatedRelays(s) \subseteq Relays /\ CreatedMode(s) = "forward"
            BY <2>1, CreatedTypes DEF IInv, ChannelMode, CreatedMode
        <3>2. SR!Open(s)
            BY <1>2, <2>1, <3>1 DEF RefreshServicePeer,
               GetOrCreateServiceChannel, CreateServiceChannel, SR!Open
        <3>3. QED BY <3>2 DEF SR!RNext
    <2>2. CASE ChannelMode(s) # "exit" /\ serviceProxyMode[s] # "none"
        <3>1. Stutter
            BY <1>2, <2>2 DEF RefreshServicePeer, GetOrCreateServiceChannel
        <3>2. QED BY <3>1, <1>0
    <2>3. CASE ChannelMode(s) = "exit"
        <3>1. serviceProxyMode[s] \in {"none", "exit"}
            BY <2>3 DEF ChannelMode, CreatedMode
        <3>2. SR!Admit(s, w)
            BY <1>2, <2>3, <3>1 DEF RefreshServicePeer, SR!Admit
        <3>3. QED BY <3>2 DEF SR!RNext
    <2>4. QED BY <2>1, <2>2, <2>3
<1>3. ASSUME NEW s \in Services, NEW w \in Workers, RemoveServicePeer(s, w)
      PROVE [SR!RNext]_SR!rvars
    <2>1. SR!Release(s, w)
        BY <1>3 DEF RemoveServicePeer, SR!Release
    <2>2. w \in SR!RouteHosts
        BY DEF SR!RouteHosts
    <2>3. QED BY <2>1, <2>2 DEF SR!RNext
<1>4. ASSUME NEW h \in Hosts, DrainDone(h) PROVE [SR!RNext]_SR!rvars
    <2>1. CASE draining[h] = "pruned"
        BY <1>4, <2>1, <1>0 DEF DrainDone
    <2>2. CASE draining[h] # "pruned"
        <3>1. SR!Evict(h)
            BY <1>4, <2>2 DEF DrainDone, SR!Evict
        <3>2. QED BY <3>1 DEF SR!RNext, SR!RouteHosts, Hosts
    <2>3. QED BY <2>1, <2>2
<1>5. ASSUME NEW on \in ReapConfig, RemoteReapConfig(on)
      PROVE [SR!RNext]_SR!rvars
    BY <1>5, <1>0 DEF RemoteReapConfig
<1>6. CASE UpdateServiceChannels
    <2> USE <1>6 DEF UpdateServiceChannels
    <2>1. ASSUME NEW s \in Services
          PROVE IF serviceProxyMode[s] = "none"
                THEN serviceProxyMode'[s] = "none"
                     /\ servicePeers'[s] = servicePeers[s]
                ELSE SR!Reconciled(s)
        <3>1. CASE serviceProxyMode[s] = "none"
            BY <3>1
        <3>2. CASE serviceProxyMode[s] # "none" /\ IsExitFor(s)
            <4>1. serviceProxyMode[s] \in {"exit", "forward"}
                BY <3>2 DEF IInv, TypeOK, Modes
            <4>2. serviceProxyMode'[s] = "exit"
                BY <3>2 DEF UpdatedMode, CreatedMode
            <4>3. servicePeers'[s] = IF serviceProxyMode[s] = "exit"
                                     THEN servicePeers[s] ELSE {}
                BY <3>2, <4>1 DEF UpdatedPeers
            <4>4. QED BY <3>2, <4>2, <4>3 DEF SR!Reconciled
        <3>3. CASE serviceProxyMode[s] # "none" /\ ~IsExitFor(s)
            <4>1. serviceProxyMode'[s] = "forward"
                BY <3>3 DEF UpdatedMode, CreatedMode
            <4>2. servicePeers'[s] \subseteq Relays
                BY <3>3 DEF IInv, TypeOK, UpdatedPeers
            <4>3. QED BY <3>3, <4>1, <4>2 DEF SR!Reconciled
        <3>4. QED BY <3>1, <3>2, <3>3
    <2>2. /\ serviceProxyMode' \in [Services -> SR!RModes]
          /\ servicePeers' \in [Services -> SUBSET SR!RouteHosts]
        BY DEF IInv, TypeOK, Modes, Hosts, SR!RModes, SR!RouteHosts
    <2>3. SR!Reconcile
        BY <2>1, <2>2 DEF SR!Reconcile
    <2>4. QED BY <2>3 DEF SR!RNext
<1>7. CASE \/ PruneTick \/ ReapTick \/ MembershipChange
           \/ \E w \in Workers : WorkerCrash(w) \/ WorkerRestart(w)
                                 \/ ConnectionLost(w)
           \/ UNCHANGED vars
    <2>1. Stutter
        BY <1>7 DEF PruneTick, ReapTick, MembershipChange, WorkerCrash,
           WorkerRestart, ConnectionLost, vars
    <2>2. QED BY <2>1, <1>0
<1>8. QED
    BY <1>1, <1>2, <1>3, <1>4, <1>5, <1>6, <1>7 DEF Next

\* The dispatcher implements ServiceRoutes for any sets of services,
\* workers and routers and any K: whatever the interleaving of requests,
\* advertisements, unadvertisements, drains, scans and ring changes, a
\* worker becomes a route of a service only by advertising it while this
\* router is its exit, and an exit channel that stays an exit through a
\* ring change keeps its workers.
THEOREM DispatchRefinement == Spec => ImplementsServiceRoutes
<1>1. Init => SR!RInit
    BY DEF Init, SR!RInit
<1>2. QED
    BY <1>1, InitIInv, NextIInv, DispatchStepRefines, PTL
    DEF Spec, ImplementsServiceRoutes, SR!RSpec

=============================================================================
