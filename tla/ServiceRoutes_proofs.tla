------------------------ MODULE ServiceRoutes_proofs ------------------------
(***************************************************************************)
(* The abstract routing table keeps its shape: every step of RSpec keeps  *)
(* absent channels empty, exit channels on workers and forward channels   *)
(* on routers.  With DispatchRefinement (ServiceDispatch_proofs) this is  *)
(* what the dispatcher's channels inherit.                                *)
(***************************************************************************)
EXTENDS ServiceRoutes, TLAPS

RInv == RTypeOK /\ RoutesWellFormed

LEMMA InitRInv == RInit => RInv
BY DEF RInit, RInv, RTypeOK, RoutesWellFormed, RModes

LEMMA NextRInv == RInv /\ [RNext]_rvars => RInv'
<1> SUFFICES ASSUME RInv, [RNext]_rvars PROVE RInv'
    OBVIOUS
<1>1. ASSUME NEW s \in RouteServices, Open(s) PROVE RInv'
    BY <1>1 DEF Open, RInv, RTypeOK, RoutesWellFormed, RModes, RouteHosts
<1>2. ASSUME NEW s \in RouteServices, NEW w \in RouteWorkers, Admit(s, w)
      PROVE RInv'
    BY <1>2 DEF Admit, RInv, RTypeOK, RoutesWellFormed, RModes, RouteHosts
<1>3. ASSUME NEW s \in RouteServices, NEW h \in RouteHosts, Release(s, h)
      PROVE RInv'
    BY <1>3 DEF Release, RInv, RTypeOK, RoutesWellFormed
<1>4. ASSUME NEW h \in RouteHosts, Evict(h) PROVE RInv'
    BY <1>4 DEF Evict, RInv, RTypeOK, RoutesWellFormed
<1>6. CASE Reconcile
    <2>1. ASSUME NEW s \in RouteServices, mode[s] # "none", Reconciled(s)
          PROVE  /\ mode'[s] = "exit" => routes'[s] \subseteq RouteWorkers
                 /\ mode'[s] = "forward" => routes'[s] \subseteq RouteRelays
                 /\ mode'[s] # "none"
        BY <2>1 DEF Reconciled, RInv, RoutesWellFormed
    <2>2. QED BY <1>6, <2>1 DEF Reconcile, RInv, RTypeOK, RoutesWellFormed
<1>7. CASE UNCHANGED rvars
    BY <1>7 DEF rvars, RInv, RTypeOK, RoutesWellFormed
<1>8. QED BY <1>1, <1>2, <1>3, <1>4, <1>6, <1>7 DEF RNext

\* Whatever the order of opens, advertisements, releases, evictions and
\* reconciliations, an absent channel has no routes, an exit
\* channel routes only to workers and a forward channel only to routers.
THEOREM RoutesShape == RSpec => []RoutesWellFormed
BY InitRInv, NextRInv, PTL DEF RSpec, RInv
====
