---------------------------- MODULE ServiceRoutes ----------------------------
(***************************************************************************)
(* What the service dispatcher promises about its routing table, without  *)
(* the ring, the indexes, the drains or the connections: each service has *)
(* a channel not yet created ("none"), an exit channel whose routes are  *)
(* the workers that serve the service here, or a forward channel whose     *)
(* routes are routers.                                                     *)
(*   - A channel opens empty as an exit, or as a forward to routers.       *)
(*   - A worker becomes a route only by advertising into an exit channel.  *)
(*   - A route leaves on unadvertise or on the deletion of its peer; an   *)
(*     open channel never closes again.                                    *)
(*   - A reconciliation keeps an exit channel's workers while it stays an  *)
(*     exit, empties a channel that becomes an exit, and gives a forward   *)
(*     channel routers only.                                               *)
(* ServiceDispatch implements this specification (ServiceDispatch_proofs).*)
(***************************************************************************)
CONSTANTS RouteServices, RouteWorkers, RouteRelays

VARIABLES mode, routes

rvars == <<mode, routes>>

RModes == {"none", "exit", "forward"}
RouteHosts == RouteWorkers \cup RouteRelays

RTypeOK ==
    /\ mode \in [RouteServices -> RModes]
    /\ routes \in [RouteServices -> SUBSET RouteHosts]

RInit ==
    /\ mode = [s \in RouteServices |-> "none"]
    /\ routes = [s \in RouteServices |-> {}]

\* A channel not yet created opens: an exit with no routes, or a forward
\* to routers.
Open(s) ==
    /\ mode[s] = "none"
    /\ \/ /\ mode' = [mode EXCEPT ![s] = "exit"]
          /\ routes' = [routes EXCEPT ![s] = {}]
       \/ /\ mode' = [mode EXCEPT ![s] = "forward"]
          /\ \E R \in SUBSET RouteRelays : routes' = [routes EXCEPT ![s] = R]

\* Worker w advertises service s: the channel is (or opens as) an exit and
\* w is one of its routes.
Admit(s, w) ==
    /\ w \in RouteWorkers
    /\ mode[s] \in {"none", "exit"}
    /\ mode' = [mode EXCEPT ![s] = "exit"]
    /\ routes' = [routes EXCEPT ![s] = routes[s] \cup {w}]

\* Host h stops serving the open channel of s.
Release(s, h) ==
    /\ mode[s] # "none"
    /\ routes' = [routes EXCEPT ![s] = routes[s] \ {h}]
    /\ UNCHANGED mode

\* Host h is deleted: it leaves every channel.
Evict(h) ==
    /\ routes' = [s \in RouteServices |-> routes[s] \ {h}]
    /\ UNCHANGED mode

\* The mode and routes one reconciliation may give the open channel of s.
Reconciled(s) ==
    \/ /\ mode'[s] = "exit"
       /\ routes'[s] = IF mode[s] = "exit" THEN routes[s] ELSE {}
    \/ /\ mode'[s] = "forward"
       /\ routes'[s] \subseteq RouteRelays

\* Every open channel is reconciled at once; the others stay absent.
Reconcile ==
    /\ mode' \in [RouteServices -> RModes]
    /\ routes' \in [RouteServices -> SUBSET RouteHosts]
    /\ \A s \in RouteServices :
          IF mode[s] = "none"
          THEN mode'[s] = "none" /\ routes'[s] = routes[s]
          ELSE Reconciled(s)

RNext ==
    \/ \E s \in RouteServices : Open(s)
    \/ \E s \in RouteServices, w \in RouteWorkers : Admit(s, w)
    \/ \E s \in RouteServices, h \in RouteHosts : Release(s, h)
    \/ \E h \in RouteHosts : Evict(h)
    \/ Reconcile

RSpec == RInit /\ [][RNext]_rvars

-----------------------------------------------------------------------------

\* The table's shape: an absent channel has no routes, an exit channel only
\* workers, a forward channel only routers.
RoutesWellFormed ==
    \A s \in RouteServices :
        /\ mode[s] = "none" => routes[s] = {}
        /\ mode[s] = "exit" => routes[s] \subseteq RouteWorkers
        /\ mode[s] = "forward" => routes[s] \subseteq RouteRelays

=============================================================================
