-------------------------- MODULE CircuitRegistry --------------------------
(***************************************************************************)
(* The circuit breakers of one router: the Circuits registry               *)
(* (src/circuits.js), a three-level map service -> caller -> endpoint of   *)
(* Circuit objects created on first use, and the way ServiceDispatchHandler *)
(* (src/unnamed/part_002) wires it in: a service channel's relay handler   *)
(* gets the registry when the channel is created in exit mode with         *)
(* circuits enabled, enableCircuits / disableCircuits attach and detach it *)
(* on exit channels, and updateServiceChannels ends with                   *)
(* circuits.updateServices().                                              *)
(*                                                                         *)
(* The per-circuit state machine (states.js, not in this repository) is    *)
(* taken from the spec, section 4.3: Healthy counts requests and errors    *)
(* over a period and trips when at least minRequests were seen and the     *)
(* error rate exceeds maxErrorRate; Unhealthy declines requests but for a  *)
(* probe stream, and recovers after `probation` consecutive successes.     *)
(*                                                                         *)
(* Channels are reduced to their mode and to whether their relay handler   *)
(* holds the registry; ServiceDispatch models their peers.                 *)
(***************************************************************************)
EXTENDS Naturals

CONSTANTS
    Services,      \* service names
    Callers,       \* caller names (cn header values)
    Endpoints,     \* endpoint names (arg1)
    NoCaller,      \* a request without a cn header
    NoCn,          \* the sentinel caller name 'no-cn'
    MinRequests,   \* stateOptions.minRequests
    ErrNum,        \* maxErrorRate = ErrNum / ErrDen
    ErrDen,
    Probation,     \* stateOptions.probation
    MaxRequests    \* bound on the requests counted in one period

ASSUME CircuitConstantsAssumption ==
    /\ NoCn \in Callers
    /\ NoCaller \notin Callers
    /\ MinRequests \in Nat
    /\ ErrDen \in Nat \ {0}
    /\ ErrNum \in 0..ErrDen
    /\ Probation \in Nat \ {0}
    /\ MaxRequests \in Nat \ {0}

\* A circuit is keyed by '$' + serviceName, '$' + callerName, '$' + endpointName
\* (the caller part of a key could be a missing cn if nothing defaulted it).
Keys == Services \X (Callers \cup {NoCaller}) \X Endpoints

Modes == {"none", "exit", "forward"}

\* A Circuit's state: its health and the counters of its state object.
CircuitRecords ==
    [health : {"healthy", "unhealthy"}, requests : 0..MaxRequests,
     errors : 0..MaxRequests, streak : 0..(Probation - 1)]

VARIABLES
    owned,            \* egressNodes.isExitFor(serviceName)
    ownedKey,         \* egressNodes.isExitFor('$' + serviceName)
    updateScheduled,  \* setImmediate(updateServiceChannels) is queued
    mode,             \* subChannels[s].serviceProxyMode, "none" if absent
    handlerCircuits,  \* subChannels[s].handler.circuits is the registry
    circuitsEnabled,  \* self.circuitsEnabled
    circuitsInit,     \* self.circuits is not null
    registry,         \* the keys present in circuitsByServiceName...
    circ              \* the Circuit object under each key

cvars == <<owned, ownedKey, updateScheduled, mode, handlerCircuits,
           circuitsEnabled, circuitsInit, registry, circ>>

CTypeOK ==
    /\ owned \in [Services -> BOOLEAN]
    /\ ownedKey \in [Services -> BOOLEAN]
    /\ updateScheduled \in BOOLEAN
    /\ mode \in [Services -> Modes]
    /\ handlerCircuits \in [Services -> BOOLEAN]
    /\ circuitsEnabled \in BOOLEAN
    /\ circuitsInit \in BOOLEAN
    /\ registry \subseteq Keys
    /\ circ \in [Keys -> CircuitRecords]

-----------------------------------------------------------------------------
(* Helpers                                                                 *)

\* new Circuit(...) followed by circuit.setState(states.HealthyState).
NewCircuit ==
    [health |-> "healthy", requests |-> 0, errors |-> 0, streak |-> 0]

\* The ServiceDispatchHandler constructor (with circuitsConfig.enabled it
\* calls enableCircuits, which calls initCircuits: new Circuits(...)).
CInit ==
    /\ owned \in [Services -> BOOLEAN]
    /\ ownedKey \in [Services -> BOOLEAN]
    /\ updateScheduled = FALSE
    /\ mode = [s \in Services |-> "none"]
    /\ handlerCircuits = [s \in Services |-> FALSE]
    /\ circuitsEnabled \in BOOLEAN
    /\ circuitsInit = circuitsEnabled
    /\ registry = {}
    /\ circ = [k \in Keys |-> NewCircuit]

\* Slip: the caller name used as it is, without the 'no-cn' default.
CallerKeyNoDefault(cn) == cn

\* getCircuitForRequest: `req.headers.cn || 'no-cn'`.
CallerKey(cn) == IF cn = NoCaller THEN NoCn ELSE cn

\* Circuit(callerName, ...): `self.callerName = callerName || 'no-cn'`.
CircuitCallerName(c) == IF c = NoCaller THEN NoCn ELSE c

\* collectCircuitTuples lists [circuit.callerName, serviceName, endpointName].
CircuitTuple(k) == <<CircuitCallerName(k[2]), k[1], k[3]>>

\* Slip: the circuit stored under '$' + name but looked up under the bare
\* name, so every lookup misses and creates a fresh Healthy circuit.
LookupCircuitAlwaysNew(k) == NewCircuit

\* Slip: a dropped subtree's circuit reused by the next lookup instead of
\* a fresh one.
LookupCircuitStale(k) == circ[k]

\* The three getCircuit levels: the circuit under the key, or a new one.
LookupCircuit(k) == IF k \in registry THEN circ[k] ELSE NewCircuit

\* Healthy.shouldRequest consults nextHandler, AlwaysShouldRequestHandler.
ShouldRequest(c) == c.health = "healthy"

\* Healthy state at the end of a period: at least minRequests requests and
\* an error rate above maxErrorRate.
Tripped(c) ==
    /\ c.requests >= MinRequests
    /\ c.errors * ErrDen > ErrNum * c.requests

\* The circuit c with its run of successful probes set to n.
WithStreak(c, n) ==
    [health |-> c.health, requests |-> c.requests, errors |-> c.errors,
     streak |-> n]

\* Slip: the probation count compared with > instead of >=.
ProbeSucceededLate(c) ==
    IF c.streak + 1 > Probation THEN NewCircuit
    ELSE WithStreak(c, c.streak + 1)

\* Unhealthy: a successful probe; after `probation` in a row, Healthy.
ProbeSucceeded(c) ==
    IF c.streak + 1 >= Probation THEN NewCircuit
    ELSE WithStreak(c, c.streak + 1)

-----------------------------------------------------------------------------
(* Operations                                                              *)

\* createServiceChannel(s): the relay handler gets the registry when
\* `mode === 'exit' && self.circuitsEnabled && self.circuits`.
CreateChannel(s) ==
    /\ mode[s] = "none"
    /\ mode' = [mode EXCEPT ![s] = IF owned[s] THEN "exit" ELSE "forward"]
    /\ handlerCircuits' = [handlerCircuits EXCEPT ![s] =
                              owned[s] /\ circuitsEnabled /\ circuitsInit]
    /\ UNCHANGED <<owned, ownedKey, updateScheduled, circuitsEnabled,
                   circuitsInit, registry, circ>>

\* A request on channel s whose relay handler holds the registry:
\* getCircuitForRequest finds or creates the circuit of (cn, s, arg1); a
\* healthy circuit forwards the request and counts its outcome; an
\* unhealthy one declines it (not counted) or admits it as a probe.
Request(s, cn, e, ok) ==
    LET k == <<s, CallerKey(cn), e>>
        c == LookupCircuit(k)
    IN
    /\ mode[s] # "none"
    /\ handlerCircuits[s]
    /\ registry' = registry \cup {k}
    /\ \/ /\ ShouldRequest(c)
          /\ c.requests < MaxRequests
          /\ circ' = [circ EXCEPT ![k] =
                        [health |-> c.health, requests |-> c.requests + 1,
                         errors |-> IF ok THEN c.errors ELSE c.errors + 1,
                         streak |-> c.streak]]
       \/ /\ ~ShouldRequest(c)
          /\ circ' = [circ EXCEPT ![k] =
                        IF ok THEN ProbeSucceeded(c)
                        ELSE WithStreak(c, 0)]
       \/ /\ ~ShouldRequest(c)
          /\ UNCHANGED circ
    /\ UNCHANGED <<owned, ownedKey, updateScheduled, mode, handlerCircuits,
                   circuitsEnabled, circuitsInit>>

\* The period timer of a healthy circuit: trip or start a new period.
PeriodTick(k) ==
    /\ k \in registry
    /\ ShouldRequest(circ[k])
    /\ circ[k].requests > 0
    /\ circ' = [circ EXCEPT ![k] =
                  IF Tripped(circ[k])
                  THEN [health |-> "unhealthy", requests |-> 0,
                        errors |-> 0, streak |-> 0]
                  ELSE [health |-> circ[k].health, requests |-> 0,
                        errors |-> 0, streak |-> circ[k].streak]]
    /\ UNCHANGED <<owned, ownedKey, updateScheduled, mode, handlerCircuits,
                   circuitsEnabled, circuitsInit, registry>>

\* The ring view changes and schedules updateServiceChannels.  The ring
\* hashes '$' + name independently of name.
RingChange ==
    /\ \E o \in [Services -> BOOLEAN], ok \in [Services -> BOOLEAN] :
          /\ <<o, ok>> # <<owned, ownedKey>>
          /\ owned' = o
          /\ ownedKey' = ok
    /\ updateScheduled' = TRUE
    /\ UNCHANGED <<mode, handlerCircuits, circuitsEnabled, circuitsInit,
                   registry, circ>>

\* Circuits.updateServices: drop the subtree of every key of
\* circuitsByServiceName for which egressNodes.isExitFor(key) is false;
\* the keys carry the '$' prefix.
UpdateServices(r) == {k \in r : ownedKey[k[1]]}

\* updateServiceChannels: every channel takes the mode the ring gives it
\* (changeToExit and changeToForward leave handler.circuits alone), then,
\* if self.circuits is set, circuits.updateServices().
UpdateServiceChannels ==
    /\ updateScheduled
    /\ updateScheduled' = FALSE
    /\ mode' = [s \in Services |->
                  IF mode[s] = "none" THEN "none"
                  ELSE IF owned[s] THEN "exit" ELSE "forward"]
    /\ registry' = IF circuitsInit THEN UpdateServices(registry) ELSE registry
    /\ UNCHANGED <<owned, ownedKey, handlerCircuits, circuitsEnabled,
                   circuitsInit, circ>>

\* Remote config circuits.enabled = true: enableCircuits (initCircuits on
\* first use) attaches the registry to the relay handler of every exit
\* channel.
EnableCircuits ==
    /\ ~circuitsEnabled
    /\ circuitsEnabled' = TRUE
    /\ circuitsInit' = TRUE
    /\ handlerCircuits' = [s \in Services |->
                             IF mode[s] = "exit" THEN TRUE
                             ELSE handlerCircuits[s]]
    /\ UNCHANGED <<owned, ownedKey, updateScheduled, mode, registry, circ>>

\* Remote config circuits.enabled = false: disableCircuits detaches the
\* registry from the relay handler of every exit channel.
DisableCircuits ==
    /\ circuitsEnabled
    /\ circuitsEnabled' = FALSE
    /\ handlerCircuits' = [s \in Services |->
                             IF mode[s] = "exit" THEN FALSE
                             ELSE handlerCircuits[s]]
    /\ UNCHANGED <<owned, ownedKey, updateScheduled, mode, circuitsInit,
                   registry, circ>>

CNext ==
    \/ \E s \in Services : CreateChannel(s)
    \/ \E s \in Services, cn \in Callers \cup {NoCaller}, e \in Endpoints,
          ok \in BOOLEAN : Request(s, cn, e, ok)
    \/ \E k \in Keys : PeriodTick(k)
    \/ RingChange
    \/ UpdateServiceChannels
    \/ EnableCircuits
    \/ DisableCircuits

\* The period timers and the setImmediate callback run.
CFairness ==
    /\ \A k \in Keys : WF_cvars(PeriodTick(k))
    /\ WF_cvars(UpdateServiceChannels)

CSpec == CInit /\ [][CNext]_cvars /\ CFairness

-----------------------------------------------------------------------------
(* Properties                                                              *)

\* getCircuitTuples (the control endpoint's circuit listing) names every
\* circuit by a distinct (caller, service, endpoint): requests without a cn
\* share the circuit of caller 'no-cn' instead of getting a second circuit
\* listed under the same name.
TuplesUnique ==
    \A k1, k2 \in registry : k1 # k2 => CircuitTuple(k1) # CircuitTuple(k2)

\* An unhealthy circuit that stays in the registry is healthy again only
\* through `probation` successful probes in a row: no lookup replaces a
\* circuit by a fresh Healthy one.
RecoveryOnlyByProbation ==
    [][\A k \in registry \cap registry' :
         (circ[k].health = "unhealthy" /\ circ'[k].health = "healthy")
            => circ[k].streak + 1 >= Probation]_cvars

\* Spec 4.2: a channel's relay handler applies circuits only when the
\* channel is in exit mode and circuits are enabled: after remote config
\* disables circuits, no channel declines requests for an unhealthy circuit.
CircuitsOffWhenDisabled ==
    ~circuitsEnabled => \A s \in Services : ~handlerCircuits[s]

\* Spec 4.2: once reconciliation has run with circuits enabled, every exit
\* channel is protected by the registry, including one that became exit
\* through changeToExit.
ExitChannelsGuarded ==
    (circuitsEnabled /\ ~updateScheduled) =>
        \A s \in Services : mode[s] = "exit" => handlerCircuits[s]

\* Spec 4.2: updateServices "drops circuit subtrees for services this
\* router no longer owns": a circuit leaves the registry only when the
\* router is no longer an exit for its service.
DropOnlyDisowned ==
    [][\A k \in registry \ registry' : ~owned'[k[1]]]_cvars

-----------------------------------------------------------------------------
(* Refinement of CircuitHealth.  A registered circuit shows its health; a  *)
(* key that is not registered shows Healthy, the state a lookup would      *)
(* create it in.                                                           *)

HealthView ==
    [k \in Keys |-> IF k \in registry THEN circ[k].health ELSE "healthy"]

CH == INSTANCE CircuitHealth
        WITH CircuitKeys <- Keys, registered <- registry, health <- HealthView

\* The registry implements CircuitHealth: a request never makes a circuit
\* unhealthy (declined requests are not counted), only a period end trips
\* one, and a circuit dropped by updateServices comes back healthy on its
\* next getCircuitForRequest.
ImplementsCircuitHealth == CH!HSpec

=============================================================================
