---------------------------- MODULE CircuitHealth ----------------------------
(***************************************************************************)
(* What the circuit registry promises, without counters, periods or       *)
(* probes: a set of registered circuits, each healthy or unhealthy.        *)
(*   - A request registers its circuit; it never makes a circuit           *)
(*     unhealthy, and may make an unhealthy one healthy again.             *)
(*   - Only a trip makes a registered healthy circuit unhealthy.           *)
(*   - Forgotten circuits leave the registry, and a later request starts   *)
(*     them healthy.                                                       *)
(* CircuitRegistry implements this specification (CircuitRegistry_proofs).*)
(***************************************************************************)
CONSTANT CircuitKeys

VARIABLES registered, health

hvars == <<registered, health>>

HealthStates == {"healthy", "unhealthy"}

HTypeOK ==
    /\ registered \subseteq CircuitKeys
    /\ health \in [CircuitKeys -> HealthStates]

HInit ==
    /\ registered = {}
    /\ health = [k \in CircuitKeys |-> "healthy"]

\* A request reaches circuit k: it is registered, and its health is left
\* alone or, for an unhealthy circuit, restored.
Use(k) ==
    /\ registered' = registered \cup {k}
    /\ \/ health' = health
       \/ /\ health[k] = "unhealthy"
          /\ health' = [health EXCEPT ![k] = "healthy"]

\* A registered healthy circuit trips.
Trip(k) ==
    /\ k \in registered
    /\ health[k] = "healthy"
    /\ health' = [health EXCEPT ![k] = "unhealthy"]
    /\ UNCHANGED registered

\* The circuits of S are dropped; what they knew of their health is lost.
Forget(S) ==
    /\ S \subseteq registered
    /\ registered' = registered \ S
    /\ health' = [k \in CircuitKeys |-> IF k \in S THEN "healthy" ELSE health[k]]

HNext ==
    \/ \E k \in CircuitKeys : Use(k) \/ Trip(k)
    \/ \E S \in SUBSET registered : Forget(S)

HSpec == HInit /\ [][HNext]_hvars

=============================================================================
