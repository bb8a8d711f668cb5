---------------------------- MODULE BfdSessionRFC ----------------------------
(***************************************************************************)
(* What a pair of BFD sessions promises, after RFC 5880 6.2 and 6.8.6: the *)
(* three-way handshake state machine of each end, driven only by the      *)
(* states the peer has advertised and by detection timeouts.  Intervals,  *)
(* the poll sequence, discriminators and timers are not visible here.     *)
(*                                                                         *)
(* adv[n] holds the states advertised towards n that can still reach it; *)
(* the network may drop any of them, and deliver one more than once.      *)
(***************************************************************************)
EXTENDS BfdConst

CONSTANTS Node

VARIABLES
  state,  \* state[n]: bfd.SessionState of end n
  diag,   \* diag[n]: bfd.LocalDiag of end n
  adv     \* adv[n]: the states in flight towards n

vars == <<state, diag, adv>>

Peer(n) == CHOOSE p \in Node : p # n

\* The reception rules of RFC 5880 6.8.6 as a relation: a session in
\* state from that receives a packet with state rcv moves to <<to, dg>>.
\* Pairs not listed leave the session as it is.
Handshake ==
  { <<BFD_STATE_DOWN, BFD_STATE_DOWN, BFD_STATE_INIT, BFD_DIAG_NOTHING>>,
    <<BFD_STATE_DOWN, BFD_STATE_INIT, BFD_STATE_UP, BFD_DIAG_NOTHING>>,
    <<BFD_STATE_INIT, BFD_STATE_INIT, BFD_STATE_UP, BFD_DIAG_NOTHING>>,
    <<BFD_STATE_INIT, BFD_STATE_UP, BFD_STATE_UP, BFD_DIAG_NOTHING>>,
    <<BFD_STATE_UP, BFD_STATE_DOWN, BFD_STATE_DOWN, BFD_DIAG_NEIGHBOR_DOWN>> }
  \cup
  \* A peer in AdminDown takes down every session that is not Down.
  { <<from, BFD_STATE_ADMIN_DOWN, BFD_STATE_DOWN, BFD_DIAG_NEIGHBOR_DOWN>> :
      from \in {BFD_STATE_INIT, BFD_STATE_UP} }

\* The same relation as a function of <<from, rcv>>.
Move == [p \in {<<h[1], h[2]>> : h \in Handshake} |->
           LET h == CHOOSE h \in Handshake : <<h[1], h[2]>> = p IN <<h[3], h[4]>>]

\* The state and diagnostic of an end in st/dg after receiving rcv.
Received(st, dg, rcv) ==
  IF <<st, rcv>> \in DOMAIN Move THEN Move[<<st, rcv>>] ELSE <<st, dg>>

Init ==
  /\ state = [n \in Node |-> BFD_STATE_DOWN]
  /\ diag = [n \in Node |-> BFD_DIAG_NOTHING]
  /\ adv = [n \in Node |-> {}]

\* End n advertises its state to the peer (or the packet is lost at once).
Advertise(n) ==
  /\ adv' = [adv EXCEPT ![Peer(n)] = @ \cup {state[n]}]
  /\ UNCHANGED <<state, diag>>

\* End n receives an advertised state and follows 6.8.6; the packet may
\* stay in flight (a duplicate), and the end may answer at once with its
\* new state (the Final of a Poll).
Receive(n, rcv) ==
  LET nx == Received(state[n], diag[n], rcv) IN
  /\ rcv \in adv[n]
  /\ state' = [state EXCEPT ![n] = nx[1]]
  /\ diag' = [diag EXCEPT ![n] = nx[2]]
  /\ \E left \in {adv[n], adv[n] \ {rcv}}, ans \in {{}, {nx[1]}} :
       adv' = [adv EXCEPT ![n] = left, ![Peer(n)] = @ \cup ans]

\* A packet towards n is lost or discarded.
Drop(n, rcv) ==
  /\ rcv \in adv[n]
  /\ adv' = [adv EXCEPT ![n] = @ \ {rcv}]
  /\ UNCHANGED <<state, diag>>

\* The detection time of n passes (6.8.4): a session that is not Down goes
\* Down with diagnostic 1.
DetectionTimeout(n) ==
  /\ state[n] # BFD_STATE_DOWN
  /\ state' = [state EXCEPT ![n] = BFD_STATE_DOWN]
  /\ diag' = [diag EXCEPT ![n] = BFD_DIAG_TIMEOUT]
  /\ UNCHANGED adv

Next ==
  \E n \in Node :
    \/ Advertise(n)
    \/ \E rcv \in adv[n] : Receive(n, rcv) \/ Drop(n, rcv)
    \/ DetectionTimeout(n)

Spec == Init /\ [][Next]_vars

=============================================================================
