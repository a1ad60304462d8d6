---------------------- MODULE CircuitRegistry_proofs -----------------------
(***************************************************************************)
(* Proofs about CircuitRegistry for every value of the constants:          *)
(*   - CircuitTypeCorrect: every reachable state is well typed;            *)
(*   - CircuitTuplesUnique: the circuit listing never names two circuits  *)
(*     by the same (caller, service, endpoint);                            *)
(*   - CircuitRecovery: an unhealthy circuit recovers only by probation.   *)
(*   - CircuitRefinement: the registry implements CircuitHealth under the  *)
(*     mapping HealthView.                                                 *)
(* All of them rest on one inductive invariant, CInv.                      *)
(***************************************************************************)
EXTENDS CircuitRegistry, TLAPS

\* CTypeOK alone is not inductive: a forwarded request adds one to errors,
\* which stays within the bound only because errors never exceed requests;
\* and the tuples are unique because every key was built by CallerKey.
CInv ==
    /\ CTypeOK
    /\ \A k \in Keys : circ[k].errors <= circ[k].requests
    /\ \A k \in registry : k[2] \in Callers

LEMMA CallerKeyType ==
    ASSUME NEW cn \in Callers \cup {NoCaller}
    PROVE  CallerKey(cn) \in Callers
BY CircuitConstantsAssumption DEF CallerKey

LEMMA NewCircuitType == NewCircuit \in CircuitRecords
BY CircuitConstantsAssumption DEF NewCircuit, CircuitRecords

\* A forwarded request counted on a healthy circuit below the bound.
LEMMA CountedType ==
    ASSUME NEW c \in CircuitRecords, c.requests < MaxRequests,
           c.errors <= c.requests, NEW ok \in BOOLEAN
    PROVE  LET r == [health |-> c.health, requests |-> c.requests + 1,
                     errors |-> IF ok THEN c.errors ELSE c.errors + 1,
                     streak |-> c.streak]
           IN  r \in CircuitRecords /\ r.errors <= r.requests
BY CircuitConstantsAssumption DEF CircuitRecords

\* Both outcomes of a probe leave a well-formed circuit.
LEMMA ProbeType ==
    ASSUME NEW c \in CircuitRecords, c.errors <= c.requests
    PROVE  /\ ProbeSucceeded(c) \in CircuitRecords
           /\ ProbeSucceeded(c).errors <= ProbeSucceeded(c).requests
           /\ WithStreak(c, 0) \in CircuitRecords
           /\ WithStreak(c, 0).errors <= WithStreak(c, 0).requests
<1>1. CASE c.streak + 1 >= Probation
    BY <1>1, NewCircuitType, CircuitConstantsAssumption
    DEF ProbeSucceeded, WithStreak, NewCircuit, CircuitRecords
<1>2. CASE c.streak + 1 < Probation
    BY <1>2, CircuitConstantsAssumption
    DEF ProbeSucceeded, WithStreak, CircuitRecords
<1>3. QED BY <1>1, <1>2, CircuitConstantsAssumption DEF CircuitRecords

LEMMA InitCInv == CInit => CInv
<1> SUFFICES ASSUME CInit PROVE CInv
    OBVIOUS
<1>1. circ \in [Keys -> CircuitRecords]
    BY NewCircuitType DEF CInit
<1>2. \A k \in Keys : circ[k].errors <= circ[k].requests
    BY DEF CInit, NewCircuit
<1>3. QED BY <1>1, <1>2 DEF CInit, CInv, CTypeOK, Modes

-----------------------------------------------------------------------------
(* One step per action.                                                    *)

LEMMA RequestCInv ==
    ASSUME CInv, NEW s \in Services, NEW cn \in Callers \cup {NoCaller},
           NEW e \in Endpoints, NEW ok \in BOOLEAN, Request(s, cn, e, ok)
    PROVE  CInv'
<1> USE CircuitConstantsAssumption
<1> DEFINE k == <<s, CallerKey(cn), e>>
           c == LookupCircuit(k)
<1>1. k \in Keys /\ k[2] \in Callers
    BY CallerKeyType DEF Keys
<1>2. c \in CircuitRecords /\ c.errors <= c.requests
    BY <1>1, NewCircuitType DEF CInv, CTypeOK, LookupCircuit, NewCircuit
<1>3. registry' \subseteq Keys /\ \A x \in registry' : x[2] \in Callers
    BY <1>1 DEF CInv, CTypeOK, Request
<1>4. /\ circ' \in [Keys -> CircuitRecords]
      /\ \A x \in Keys : circ'[x].errors <= circ'[x].requests
    <2>1. CASE ShouldRequest(c) /\ c.requests < MaxRequests
               /\ circ' = [circ EXCEPT ![k] =
                             [health |-> c.health, requests |-> c.requests + 1,
                              errors |-> IF ok THEN c.errors ELSE c.errors + 1,
                              streak |-> c.streak]]
        <3>1. LET r == [health |-> c.health, requests |-> c.requests + 1,
                        errors |-> IF ok THEN c.errors ELSE c.errors + 1,
                        streak |-> c.streak]
              IN  r \in CircuitRecords /\ r.errors <= r.requests
            BY <1>2, <2>1, CountedType
        <3>2. QED BY <1>1, <2>1, <3>1 DEF CInv, CTypeOK
    <2>2. CASE ~ShouldRequest(c)
               /\ circ' = [circ EXCEPT ![k] =
                             IF ok THEN ProbeSucceeded(c)
                             ELSE WithStreak(c, 0)]
        <3>1. LET r == IF ok THEN ProbeSucceeded(c) ELSE WithStreak(c, 0)
              IN  r \in CircuitRecords /\ r.errors <= r.requests
            BY <1>2, ProbeType
        <3>2. QED BY <1>1, <2>2, <3>1 DEF CInv, CTypeOK
    <2>3. CASE UNCHANGED circ
        BY <2>3 DEF CInv, CTypeOK
    <2>4. QED BY <2>1, <2>2, <2>3 DEF Request
<1>5. QED BY <1>3, <1>4 DEF CInv, CTypeOK, Request

LEMMA PeriodTickCInv ==
    ASSUME CInv, NEW k \in Keys, PeriodTick(k) PROVE CInv'
<1> USE CircuitConstantsAssumption
<1>1. circ[k] \in CircuitRecords
    BY DEF CInv, CTypeOK
<1>2. LET r == IF Tripped(circ[k])
               THEN [health |-> "unhealthy", requests |-> 0,
                     errors |-> 0, streak |-> 0]
               ELSE [health |-> circ[k].health, requests |-> 0,
                     errors |-> 0, streak |-> circ[k].streak]
      IN  r \in CircuitRecords /\ r.errors <= r.requests
    BY <1>1 DEF CircuitRecords
<1>3. QED BY <1>2 DEF CInv, CTypeOK, PeriodTick

LEMMA NextCInv == CInv /\ [CNext]_cvars => CInv'
<1> SUFFICES ASSUME CInv, [CNext]_cvars PROVE CInv'
    OBVIOUS
<1>1. ASSUME NEW s \in Services, CreateChannel(s)
      PROVE CInv'
    BY <1>1 DEF CInv, CTypeOK, CreateChannel, Modes
<1>2. ASSUME NEW s \in Services, NEW cn \in Callers \cup {NoCaller},
             NEW e \in Endpoints, NEW ok \in BOOLEAN, Request(s, cn, e, ok)
      PROVE CInv'
    BY <1>2, RequestCInv
<1>3. ASSUME NEW k \in Keys, PeriodTick(k) PROVE CInv'
    BY <1>3, PeriodTickCInv
<1>4. CASE RingChange
    BY <1>4 DEF CInv, CTypeOK, RingChange
<1>5. CASE UpdateServiceChannels
    BY <1>5 DEF CInv, CTypeOK, UpdateServiceChannels, UpdateServices, Modes
<1>6. CASE EnableCircuits \/ DisableCircuits
    BY <1>6 DEF CInv, CTypeOK, EnableCircuits, DisableCircuits
<1>7. CASE UNCHANGED cvars
    BY <1>7 DEF CInv, CTypeOK, cvars
<1>8. QED BY <1>1, <1>2, <1>3, <1>4, <1>5, <1>6, <1>7 DEF CNext

\* CInv holds in every state the circuit registry reaches.
THEOREM CircuitInvariant == CSpec => []CInv
BY InitCInv, NextCInv, PTL DEF CSpec

-----------------------------------------------------------------------------

\* Every reachable state of the circuit registry is well typed.
THEOREM CircuitTypeCorrect == CSpec => []CTypeOK
BY CircuitInvariant, PTL DEF CInv

\* getCircuitTuples never lists two circuits under the same (caller,
\* service, endpoint): the 'no-cn' default of getCircuitForRequest and of
\* the Circuit constructor agree, for any sets of names.
THEOREM CircuitTuplesUnique == CSpec => []TuplesUnique
<1>1. CInv => TuplesUnique
    <2> SUFFICES ASSUME CInv, NEW k1 \in registry, NEW k2 \in registry,
                        k1 # k2
                 PROVE  CircuitTuple(k1) # CircuitTuple(k2)
        BY DEF TuplesUnique
    <2>1. k1 \in Keys /\ k2 \in Keys /\ k1[2] \in Callers /\ k2[2] \in Callers
        BY DEF CInv, CTypeOK
    <2>2. CircuitTuple(k1) = <<k1[2], k1[1], k1[3]>>
          /\ CircuitTuple(k2) = <<k2[2], k2[1], k2[3]>>
        BY <2>1, CircuitConstantsAssumption DEF CircuitTuple, CircuitCallerName
    <2>3. k1 = <<k1[1], k1[2], k1[3]>> /\ k2 = <<k2[1], k2[2], k2[3]>>
        BY <2>1 DEF Keys
    <2>4. QED BY <2>2, <2>3
<1>2. QED BY <1>1, CircuitInvariant, PTL

\* A circuit that is unhealthy and stays in the registry becomes healthy
\* only on the probe that completes `probation` successes in a row: the
\* getCircuit lookup never replaces it by a fresh circuit.
THEOREM CircuitRecovery == CSpec => RecoveryOnlyByProbation
<1>1. CInv /\ [CNext]_cvars =>
        [\A k \in registry \cap registry' :
           (circ[k].health = "unhealthy" /\ circ'[k].health = "healthy")
              => circ[k].streak + 1 >= Probation]_cvars
    <2> SUFFICES ASSUME CInv, [CNext]_cvars, NEW x \in registry \cap registry',
                        circ[x].health = "unhealthy",
                        circ'[x].health = "healthy"
                 PROVE  circ[x].streak + 1 >= Probation
        BY DEF cvars
    <2>1. ASSUME NEW s \in Services, NEW cn \in Callers \cup {NoCaller},
                 NEW e \in Endpoints, NEW ok \in BOOLEAN, Request(s, cn, e, ok)
          PROVE  circ[x].streak + 1 >= Probation
        <3> DEFINE k == <<s, CallerKey(cn), e>>
        <3>1. CASE x # k
            BY <2>1, <3>1 DEF Request, CInv, CTypeOK
        <3>2. CASE x = k
            <4>1. LookupCircuit(k) = circ[k]
                BY <3>2 DEF LookupCircuit
            <4>2. ~ShouldRequest(LookupCircuit(k))
                BY <4>1, <3>2 DEF ShouldRequest
            <4>3. circ[k] \in CircuitRecords
                BY <3>2 DEF CInv, CTypeOK
            <4>4. k \in DOMAIN circ
                BY CallerKeyType DEF CInv, CTypeOK, Keys
            <4>5. \/ circ' = [circ EXCEPT ![k] =
                                IF ok THEN ProbeSucceeded(LookupCircuit(k))
                                ELSE WithStreak(LookupCircuit(k), 0)]
                  \/ circ' = circ
                BY <2>1, <4>2 DEF Request
            <4>6. CASE ok
                <5>1. circ'[k] = ProbeSucceeded(circ[k]) \/ circ'[k] = circ[k]
                    BY <4>1, <4>4, <4>5, <4>6
                <5>2. QED BY <3>2, <4>3, <5>1 DEF ProbeSucceeded, WithStreak
            <4>7. CASE ~ok
                <5>1. circ'[k] = WithStreak(circ[k], 0) \/ circ'[k] = circ[k]
                    BY <4>1, <4>4, <4>5, <4>7
                <5>2. QED BY <3>2, <5>1 DEF WithStreak
            <4>8. QED BY <4>6, <4>7
        <3>3. QED BY <3>1, <3>2
    <2>2. ASSUME NEW k \in Keys, PeriodTick(k)
          PROVE  circ[x].streak + 1 >= Probation
        BY <2>2 DEF PeriodTick, ShouldRequest, CInv, CTypeOK
    <2>3. QED BY <2>1, <2>2 DEF CNext, cvars, CreateChannel,
              RingChange, UpdateServiceChannels, EnableCircuits,
              DisableCircuits
<1>2. QED BY <1>1, CircuitInvariant, PTL DEF CSpec, RecoveryOnlyByProbation

-----------------------------------------------------------------------------
(* Refinement of CircuitHealth.                                            *)

\* The health view is a function from keys to health states.
LEMMA HealthViewType ==
    ASSUME CInv PROVE HealthView \in [Keys -> CH!HealthStates]
BY DEF CInv, CTypeOK, CircuitRecords, HealthView, CH!HealthStates

\* A view that changes at most at k, and there only from unhealthy to
\* healthy, is the old view or the old view with k restored.
LEMMA RestoreOrKeep ==
    ASSUME NEW S, NEW f \in [Keys -> S], NEW g \in [Keys -> S], NEW k \in Keys,
           \A j \in Keys \ {k} : g[j] = f[j],
           \/ g[k] = f[k]
           \/ f[k] = "unhealthy" /\ g[k] = "healthy"
    PROVE  \/ g = f
           \/ f[k] = "unhealthy" /\ g = [f EXCEPT ![k] = "healthy"]
<1>1. CASE g[k] = f[k]
    <2>1. \A j \in Keys : g[j] = f[j]
        BY <1>1
    <2>2. QED BY <2>1
<1>2. CASE f[k] = "unhealthy" /\ g[k] = "healthy"
    <2>1. \A j \in Keys : g[j] = [f EXCEPT ![k] = "healthy"][j]
        BY <1>2
    <2>2. QED BY <1>2, <2>1
<1>3. QED BY <1>1, <1>2

\* A view that changes only at k, to unhealthy, is the old one updated at k.
LEMMA TripAt ==
    ASSUME NEW S, NEW f \in [Keys -> S], NEW g \in [Keys -> S], NEW k \in Keys,
           \A j \in Keys \ {k} : g[j] = f[j], g[k] = "unhealthy"
    PROVE  g = [f EXCEPT ![k] = "unhealthy"]
<1>1. \A j \in Keys : g[j] = [f EXCEPT ![k] = "unhealthy"][j]
    OBVIOUS
<1>2. QED BY <1>1

\* Steps that leave the registry and the circuits alone leave the view.
LEMMA ViewUnchanged ==
    ASSUME UNCHANGED <<registry, circ>> PROVE UNCHANGED CH!hvars
BY DEF CH!hvars, HealthView

\* A request changes the view only at its own key, and there only by a
\* probe that restores an unhealthy circuit.
LEMMA RequestView ==
    ASSUME CInv, NEW s \in Services, NEW cn \in Callers \cup {NoCaller},
           NEW e \in Endpoints, NEW ok \in BOOLEAN, Request(s, cn, e, ok)
    PROVE  LET k == <<s, CallerKey(cn), e>> IN
           /\ k \in Keys
           /\ registry' = registry \cup {k}
           /\ \A j \in Keys \ {k} : HealthView'[j] = HealthView[j]
           /\ \/ HealthView'[k] = HealthView[k]
              \/ HealthView[k] = "unhealthy" /\ HealthView'[k] = "healthy"
<1> DEFINE k == <<s, CallerKey(cn), e>>
           c == LookupCircuit(k)
<1>1. k \in Keys
    BY CallerKeyType DEF Keys
<1>2. registry' = registry \cup {k}
    BY DEF Request
<1>3. c \in CircuitRecords
    BY <1>1, NewCircuitType DEF CInv, CTypeOK, LookupCircuit
<1>4. \/ /\ ShouldRequest(c)
         /\ circ' = [circ EXCEPT ![k] =
                       [health |-> c.health, requests |-> c.requests + 1,
                        errors |-> IF ok THEN c.errors ELSE c.errors + 1,
                        streak |-> c.streak]]
      \/ /\ ~ShouldRequest(c)
         /\ circ' = [circ EXCEPT ![k] =
                       IF ok THEN ProbeSucceeded(c) ELSE WithStreak(c, 0)]
      \/ /\ ~ShouldRequest(c)
         /\ UNCHANGED circ
    BY DEF Request
<1>5. \A j \in Keys \ {k} : HealthView'[j] = HealthView[j]
    BY <1>1, <1>2, <1>4 DEF HealthView, CInv, CTypeOK
<1>6. HealthView'[k] = circ'[k].health /\ k \in registry'
    BY <1>1, <1>2 DEF HealthView
<1>7. HealthView[k] = c.health
    BY <1>1 DEF HealthView, LookupCircuit, NewCircuit
<1>8. \/ HealthView'[k] = HealthView[k]
      \/ HealthView[k] = "unhealthy" /\ HealthView'[k] = "healthy"
  <2>0. CASE ShouldRequest(c)
    <3>1. circ'[k].health = c.health
        BY <1>1, <1>4, <2>0 DEF CInv, CTypeOK
    <3>2. QED BY <1>6, <1>7, <3>1
  <2>9. CASE ~ShouldRequest(c)
    <3>1. c.health = "unhealthy"
        BY <1>3, <2>9 DEF ShouldRequest, CircuitRecords
    <3>2. \/ circ'[k] = IF ok THEN ProbeSucceeded(c) ELSE WithStreak(c, 0)
          \/ circ'[k] = circ[k]
        BY <1>1, <1>4, <2>9 DEF CInv, CTypeOK
    <3>3. circ'[k].health \in {"healthy", "unhealthy"}
        BY <3>1, <3>2, <1>3, <1>1
        DEF ProbeSucceeded, WithStreak, NewCircuit, CInv, CTypeOK, CircuitRecords
    <3>4. QED BY <1>6, <1>7, <3>1, <3>3
  <2>10. QED BY <2>0, <2>9
<1>10. QED BY <1>1, <1>2, <1>5, <1>8

\* Every step of the registry is a step of CircuitHealth or leaves the
\* registered set and the health view alone.
LEMMA StepRefines == CInv /\ [CNext]_cvars => [CH!HNext]_CH!hvars
<1> SUFFICES ASSUME CInv, [CNext]_cvars PROVE [CH!HNext]_CH!hvars
    OBVIOUS
<1>0. HealthView \in [Keys -> CH!HealthStates]
      /\ HealthView' \in [Keys -> CH!HealthStates]
    <2>1. CInv' BY NextCInv
    <2>2. QED BY <2>1, HealthViewType
          DEF CInv, CTypeOK, CircuitRecords, HealthView, CH!HealthStates
<1>1. ASSUME NEW s \in Services, CreateChannel(s)
      PROVE  [CH!HNext]_CH!hvars
    BY <1>1, ViewUnchanged DEF CreateChannel
<1>2. CASE RingChange \/ EnableCircuits \/ DisableCircuits
    BY <1>2, ViewUnchanged DEF RingChange, EnableCircuits, DisableCircuits
<1>3. CASE UNCHANGED cvars
    BY <1>3, ViewUnchanged DEF cvars
<1>4. ASSUME NEW s \in Services, NEW cn \in Callers \cup {NoCaller},
             NEW e \in Endpoints, NEW ok \in BOOLEAN, Request(s, cn, e, ok)
      PROVE  [CH!HNext]_CH!hvars
    <2> DEFINE k == <<s, CallerKey(cn), e>>
    <2>1. /\ k \in Keys
          /\ registry' = registry \cup {k}
          /\ \A j \in Keys \ {k} : HealthView'[j] = HealthView[j]
          /\ \/ HealthView'[k] = HealthView[k]
             \/ HealthView[k] = "unhealthy" /\ HealthView'[k] = "healthy"
        BY <1>4, RequestView
    <2>2. \/ HealthView' = HealthView
          \/ /\ HealthView[k] = "unhealthy"
             /\ HealthView' = [HealthView EXCEPT ![k] = "healthy"]
        BY <1>0, <2>1, RestoreOrKeep
    <2>3. CH!Use(k)
        BY <2>1, <2>2 DEF CH!Use
    <2>4. QED BY <2>1, <2>3 DEF CH!HNext
<1>5. ASSUME NEW k \in Keys, PeriodTick(k) PROVE [CH!HNext]_CH!hvars
    <2>1. k \in registry /\ registry' = registry /\ circ[k].health = "healthy"
        BY <1>5 DEF PeriodTick, ShouldRequest
    <2>2. \A j \in Keys \ {k} : HealthView'[j] = HealthView[j]
        BY <1>5, <2>1 DEF PeriodTick, HealthView, CInv, CTypeOK
    <2>3. CASE Tripped(circ[k])
        <3>1. HealthView'[k] = "unhealthy"
            BY <1>5, <2>1, <2>3 DEF PeriodTick, HealthView, CInv, CTypeOK
        <3>2. HealthView' = [HealthView EXCEPT ![k] = "unhealthy"]
            BY <1>0, <2>2, <3>1, TripAt
        <3>3. CH!Trip(k)
            BY <2>1, <3>2 DEF CH!Trip, HealthView
        <3>4. QED BY <3>3 DEF CH!HNext
    <2>4. CASE ~Tripped(circ[k])
        <3>1. HealthView'[k] = HealthView[k]
            BY <1>5, <2>1, <2>4 DEF PeriodTick, HealthView, CInv, CTypeOK
        <3>2. HealthView' = HealthView
            BY <1>0, <2>2, <3>1
        <3>3. QED BY <2>1, <3>2 DEF CH!hvars
    <2>5. QED BY <2>3, <2>4
<1>6. CASE UpdateServiceChannels
    <2> DEFINE S == registry \ registry'
    <2>1. registry' \subseteq registry /\ UNCHANGED circ
        BY <1>6 DEF UpdateServiceChannels, UpdateServices
    <2>2. S \in SUBSET registry /\ registry' = registry \ S
        BY <2>1
    <2>3. HealthView' = [j \in Keys |-> IF j \in S THEN "healthy"
                                         ELSE HealthView[j]]
        BY <2>1 DEF HealthView
    <2>4. CH!Forget(S)
        BY <2>2, <2>3 DEF CH!Forget
    <2>5. QED BY <2>2, <2>4 DEF CH!HNext
<1>7. QED BY <1>1, <1>2, <1>3, <1>4, <1>5, <1>6 DEF CNext

\* The circuit registry implements CircuitHealth: a registered circuit is
\* made unhealthy only by the end of a period (PeriodTick), a request
\* (getCircuitForRequest) never makes one unhealthy and only a probe makes
\* one healthy, and a circuit dropped by updateServices is seen healthy.
THEOREM CircuitRefinement == CSpec => ImplementsCircuitHealth
<1>1. CInit => CH!HInit
    BY DEF CInit, CH!HInit, HealthView
<1>2. QED BY <1>1, StepRefines, CircuitInvariant, PTL
      DEF CSpec, ImplementsCircuitHealth, CH!HSpec

=============================================================================
