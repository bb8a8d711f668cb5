---------------------------- MODULE MC_BfdNotify ----------------------------
(* Two requests for one neighbor address: they share a session, the notify *)
(* hook walks both, and either may release itself from its hook.          *)
EXTENDS BfdNotify, TLC

CONSTANTS x, r1, r2

MC_Addr == {x}
MC_Req == {r1, r2}
MC_ReqAddr == (r1 :> x) @@ (r2 :> x)

\* The safety and liveness run: one request, which its hook may release
\* (the deferred removal under notify_running).  The two-request model is
\* the one of the violation runs.
MC_Req1 == {r1}
MC_ReqAddr1 == r1 :> x

=============================================================================
