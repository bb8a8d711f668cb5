---------------------------- MODULE MC_BfdProto ----------------------------
(* Two protocol instances; p1 accepts every request, p2 only r1 and r2    *)
(* (say, single-hop only).  r1 and r2 ask for the same address x, r3 for  *)
(* y on the same interface binding, so sessions share a reference count.  *)
EXTENDS BfdProto

CONSTANTS p1, p2, r1, r2, r3, x, y, i1, o1, o2, c1, c2

MC_Proto == {p1, p2}
MC_Req == {r1, r2, r3}
MC_Addr == {x, y}
MC_ReqAddr == [r \in MC_Req |-> IF r = r3 THEN y ELSE x]
MC_Accepts == [p \in MC_Proto |-> IF p = p1 THEN MC_Req ELSE {r1, r2}]
MC_IfaceOf == [a \in MC_Addr |-> i1]
MC_Opts == {o1, o2}
MC_Cfg == {c1, c2}

\* The safety and liveness run: r1 for x, r3 for y (p2 takes only r1).
\* The two sessions of p1 still share the binding of i1, and r3 parks
\* while only p2 runs; the requests sharing one session are left to the
\* options run, whose question needs them.
MC_Req2 == {r1, r3}
MC_ReqAddr2 == [r \in MC_Req2 |-> IF r = r3 THEN y ELSE x]
MC_Accepts2 == [p \in MC_Proto |-> IF p = p1 THEN MC_Req2 ELSE {r1}]
=============================================================================
