------------------------ MODULE MC_ServiceDispatch -------------------------
(* Small instance of ServiceDispatch: two services, one worker, and a     *)
(* ring of two routers with one exit per service, so that every service   *)
(* can move between this router and the other one.                        *)
EXTENDS ServiceDispatch, TLC

CONSTANTS s1, s2, w1, me, r2

MCServices == {s1, s2}

\* One worker serving both services: enough for a peer shared by two
\* service channels, which is what the prune, reap and unadvertise paths
\* disagree about.
MCOneWorker == {w1}
MCRelays == {me, r2}

\* Remote config may hold a positive peerReaper.period or none (0).
MCReapConfigs == {FALSE, TRUE}

\* The services are interchangeable; the routers are not (one is Me).
MCServiceSymmetry == Permutations(MCServices)

=============================================================================
