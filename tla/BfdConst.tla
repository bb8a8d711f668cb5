------------------------------- MODULE BfdConst -------------------------------
(***************************************************************************)
(* Values shared by the BFD modules: the BFD_STATE_* and BFD_DIAG_* codes  *)
(* of proto/bfd/bfd.h used by bfd.c, and the state switch of               *)
(* bfd_session_process_ctl().                                              *)
(***************************************************************************)

EXTENDS Naturals

BFD_STATE_ADMIN_DOWN == 0
BFD_STATE_DOWN == 1
BFD_STATE_INIT == 2
BFD_STATE_UP == 3
State == {BFD_STATE_ADMIN_DOWN, BFD_STATE_DOWN, BFD_STATE_INIT, BFD_STATE_UP}

BFD_DIAG_NOTHING == 0
BFD_DIAG_TIMEOUT == 1
BFD_DIAG_NEIGHBOR_DOWN == 3
Diag == {BFD_DIAG_NOTHING, BFD_DIAG_TIMEOUT, BFD_DIAG_NEIGHBOR_DOWN}

\* Seeded fault: an Init session treats a peer in Down like one in
\* AdminDown.
mutant_next_state_init_on_down(loc, rem) ==
  CASE loc = BFD_STATE_DOWN /\ rem = BFD_STATE_DOWN
         -> <<BFD_STATE_INIT, BFD_DIAG_NOTHING>>
    [] loc = BFD_STATE_DOWN /\ rem = BFD_STATE_INIT
         -> <<BFD_STATE_UP, BFD_DIAG_NOTHING>>
    [] loc = BFD_STATE_INIT /\ rem <= BFD_STATE_DOWN
         -> <<BFD_STATE_DOWN, BFD_DIAG_NEIGHBOR_DOWN>>
    [] loc = BFD_STATE_INIT /\ rem >= BFD_STATE_INIT
         -> <<BFD_STATE_UP, BFD_DIAG_NOTHING>>
    [] loc = BFD_STATE_UP /\ rem <= BFD_STATE_DOWN
         -> <<BFD_STATE_DOWN, BFD_DIAG_NEIGHBOR_DOWN>>
    [] OTHER -> <<0, BFD_DIAG_NOTHING>>

\* The switch of bfd_session_process_ctl: the next local state and diag for
\* local state loc and remote state rem, or <<0, _>> for no change.
NextState(loc, rem) ==
  CASE loc = BFD_STATE_DOWN /\ rem = BFD_STATE_DOWN
         -> <<BFD_STATE_INIT, BFD_DIAG_NOTHING>>
    [] loc = BFD_STATE_DOWN /\ rem = BFD_STATE_INIT
         -> <<BFD_STATE_UP, BFD_DIAG_NOTHING>>
    [] loc = BFD_STATE_INIT /\ rem = BFD_STATE_ADMIN_DOWN
         -> <<BFD_STATE_DOWN, BFD_DIAG_NEIGHBOR_DOWN>>
    [] loc = BFD_STATE_INIT /\ rem >= BFD_STATE_INIT
         -> <<BFD_STATE_UP, BFD_DIAG_NOTHING>>
    [] loc = BFD_STATE_UP /\ rem <= BFD_STATE_DOWN
         -> <<BFD_STATE_DOWN, BFD_DIAG_NEIGHBOR_DOWN>>
    [] OTHER -> <<0, BFD_DIAG_NOTHING>>
=============================================================================
