------------------------ MODULE MC_CircuitRegistry -------------------------
(* Small instance of CircuitRegistry: one service, a named caller and the *)
(* caller literally named 'no-cn', requests with and without a cn header, *)
(* one endpoint.  Two requests per period, minRequests 1, maxErrorRate    *)
(* 1/2 and probation 2, so that a period can trip on one error out of one *)
(* request and recovery takes two probes.                                 *)
EXTENDS CircuitRegistry

CONSTANTS sv1, c1, noCn, noCaller, e1

MCServices == {sv1}
MCCallers == {c1, noCn}
MCEndpoints == {e1}
=============================================================================
