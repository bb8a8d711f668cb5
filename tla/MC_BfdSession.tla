--------------------------- MODULE MC_BfdSession ---------------------------
(* Model-checking instance of BfdSession: two instances a and b, intervals *)
(* 2 < 3, idle TX interval 3.  a starts active with min_rx_int 3, b starts *)
(* passive with min_rx_int 2; the configuration of a may change.          *)
EXTENDS BfdSession, TLC

CONSTANTS a, b

MC_Node == {a, b}

MC_InitCf ==
  (a :> [min_tx_int |-> 2, idle_tx_int |-> 3, min_rx_int |-> 3, passive |-> FALSE])
  @@ (b :> [min_tx_int |-> 2, idle_tx_int |-> 3, min_rx_int |-> 2, passive |-> TRUE])

\* From its initial configuration a may raise min_tx_int or lower
\* min_rx_int (and move between these): the changes that postpone an
\* interval behind a poll sequence.
MC_Configs ==
  LET c0 == MC_InitCf[a]
  IN {c0, [c0 EXCEPT !.min_tx_int = 3], [c0 EXCEPT !.min_rx_int = 2]}
=============================================================================
