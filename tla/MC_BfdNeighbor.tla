--------------------------- MODULE MC_BfdNeighbor ---------------------------
(* Keys k1 and k2 are single-hop, k3 single-hop with an address         *)
(* neigh_find rejects, m multihop.  Configurations A = <<a1 k1, a2 m>>,   *)
(* B = <<b1 k1, b2 k2>>, C = <<c1 k2, c2 m>> and E = <<e1 k3, e2 k2>> keep, *)
(* drop and add neighbours in every combination; D = <<d1 k1, d2 k1>>     *)
(* lists k1 twice.                                                         *)
EXTENDS BfdNeighbor

CONSTANTS k1, k2, k3, m, a1, a2, b1, b2, c1, c2, d1, d2, e1, e2, q1, q2, q3, q4

MC_Key == {k1, k2, k3, m}
MC_Obj == {a1, a2, b1, b2, c1, c2, d1, d2, e1, e2}
MC_ObjKey == (a1 :> k1) @@ (a2 :> m) @@ (b1 :> k1) @@ (b2 :> k2)
             @@ (c1 :> k2) @@ (c2 :> m) @@ (d1 :> k1) @@ (d2 :> k1)
             @@ (e1 :> k3) @@ (e2 :> k2)
MC_Configs == {<<a1, a2>>, <<b1, b2>>, <<c1, c2>>, <<e1, e2>>}
MC_ConfigsDup == MC_Configs \cup {<<d1, d2>>}
MC_ReqId == {q1, q2, q3, q4}
MC_InitCfg == <<a1, a2>>
=============================================================================
