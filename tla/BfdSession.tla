----------------------------- MODULE BfdSession -----------------------------
(***************************************************************************)
(* The BFD session engine of proto/bfd/bfd.c: the per-session state        *)
(* machine, its TX and hold (detection) timers and the poll sequence, for  *)
(* two BIRD instances that each hold one session towards the other and    *)
(* exchange control packets over UDP.                                     *)
(*                                                                         *)
(* Every action is one handler of the BFD thread (a timer hook or the     *)
(* packet RX hook) or one main-thread call made under birdloop_enter()   *)
(* (bfd_reconfigure_session); both run to completion without interleaving *)
(* with another handler of the same session, so each is one atomic step.  *)
(*                                                                         *)
(* Time is abstracted: a timer that is armed may fire at any moment.  An  *)
(* armed hold timer firing early stands for the packets that could have   *)
(* been lost or delayed.  Interval values only matter through the         *)
(* comparisons bfd_session_set_min_tx/rx make, so they come from a small  *)
(* ordered set.                                                            *)
(*                                                                         *)
(* The packet codec (packets.c: bfd_rx_hook, bfd_send_ctl) is not in this *)
(* repository; the operators for it are modelled from spec.md 4.2.        *)
(***************************************************************************)
EXTENDS Naturals, FiniteSets, BfdConst

CONSTANTS
  Node,        \* the BIRD instances; each has one session to the other
  NoId,        \* the discriminator value 0 ("unknown")
  Interval,    \* interval values (microseconds), a small ordered set
  Configs,     \* the merged session configurations a session may be given
  InitCf,      \* InitCf[n]: the configuration instance n starts with
  Reconfigurable, \* instances whose configuration the operator may change
  MaxInFlight, \* bound on packets in flight towards one instance
  Duplicates   \* whether the network may deliver a packet twice

ASSUME Cardinality(Node) = 2 /\ NoId \notin Node
ASSUME Interval \subseteq Nat \ {0, 1} /\ Interval # {}
\* struct bfd_session_config, as far as the session logic reads it.
SessionConfig == [min_tx_int: Interval, idle_tx_int: Interval,
                  min_rx_int: Interval, passive: BOOLEAN]

ASSUME Configs \subseteq SessionConfig /\ InitCf \in [Node -> SessionConfig]
ASSUME Reconfigurable \subseteq Node /\ MaxInFlight \in Nat \ {0}
ASSUME Duplicates \in BOOLEAN

\* The two bits of poll_active / poll_scheduled.
POLL_TX == "tx"
POLL_RX == "rx"

Peer(n) == CHOOSE p \in Node : p # n

\* A control packet as far as the receiving session logic looks at it:
\* the sender's state, its your-discriminator, the Poll/Final flags and
\* the advertised desired TX and required RX intervals.
Packet == [state: State, rcv_id: Node \cup {NoId}, poll: BOOLEAN, final: BOOLEAN,
           tx: Interval, rx: Interval]

Session == [loc_state: State, loc_diag: Diag, rem_state: State,
            rem_id: Node \cup {NoId},
            rem_min_tx_int: Interval \cup {0}, rem_min_rx_int: Interval \cup {1},
            des_min_tx_int: Interval, des_min_tx_new: Interval,
            req_min_rx_int: Interval, req_min_rx_new: Interval,
            poll_active: SUBSET {POLL_TX, POLL_RX},
            poll_scheduled: SUBSET {POLL_TX, POLL_RX},
            passive: BOOLEAN, cf: SessionConfig,
            tx_active: BOOLEAN, last_tx: BOOLEAN,
            hold_active: BOOLEAN, last_rx: BOOLEAN]

VARIABLES
  sess,   \* sess[n]: the bfd_session of instance n (last_tx/last_rx: nonzero)
  msgs    \* msgs[n]: control packets in flight towards instance n

vars == <<sess, msgs>>

-----------------------------------------------------------------------------
(* Helpers of bfd.c, as functions from a session to the updated session.   *)

\* tm_set() on the TX timer, done only when it has fired before.
bfd_session_update_tx_interval(s) ==
  IF s.last_tx THEN [s EXCEPT !.tx_active = TRUE] ELSE s

bfd_session_update_detection_time(s, kick) ==
  LET s1 == IF kick THEN [s EXCEPT !.last_rx = TRUE] ELSE s
  IN  IF s1.last_rx THEN [s1 EXCEPT !.hold_active = TRUE] ELSE s1

\* Demand mode is never requested by a BIRD peer and BIRD peers never
\* advertise a zero RequiredMinRxInterval, so only the passive test stops
\* the timer here.
bfd_session_control_tx_timer(s, reset) ==
  IF s.passive /\ s.rem_id = NoId
    THEN [s EXCEPT !.tx_active = FALSE, !.last_tx = FALSE]
  ELSE IF reset \/ ~s.tx_active
    THEN [s EXCEPT !.tx_active = TRUE, !.last_tx = FALSE]
  ELSE s

bfd_session_request_poll(s, request) ==
  IF s.rem_id = NoId THEN s
  ELSE LET sched == s.poll_scheduled \cup {request}
       IN IF s.poll_active # {}
            THEN [s EXCEPT !.poll_scheduled = sched]
            ELSE bfd_session_control_tx_timer(
                   [s EXCEPT !.poll_active = sched, !.poll_scheduled = {}], TRUE)

bfd_session_terminate_poll(s) ==
  LET poll_done == s.poll_active \ s.poll_scheduled
  IN [s EXCEPT
        !.des_min_tx_int = IF POLL_TX \in poll_done THEN s.des_min_tx_new ELSE @,
        !.req_min_rx_int = IF POLL_RX \in poll_done THEN s.req_min_rx_new ELSE @,
        !.poll_active = s.poll_scheduled,
        !.poll_scheduled = {}]

\* Seeded fault: a lower transmit interval is postponed like a higher one.
mutant_set_min_tx_postpones_any(s, val) ==
  IF val = s.des_min_tx_new THEN s
  ELSE LET s1 == [s EXCEPT !.des_min_tx_new = val]
           s2 == IF s.loc_state # BFD_STATE_UP
                   THEN [s1 EXCEPT !.des_min_tx_int = val] ELSE s1
       IN bfd_session_request_poll(s2, POLL_TX)

bfd_session_set_min_tx(s, val) ==
  IF val = s.des_min_tx_new THEN s
  ELSE LET s1 == [s EXCEPT !.des_min_tx_new = val]
           s2 == IF s.loc_state # BFD_STATE_UP \/ val < s.des_min_tx_int
                   THEN bfd_session_update_tx_interval(
                          [s1 EXCEPT !.des_min_tx_int = val])
                   ELSE s1
       IN bfd_session_request_poll(s2, POLL_TX)

\* Seeded fault: any change of the required RX interval is applied at once.
mutant_set_min_rx_applies_any(s, val) ==
  IF val = s.req_min_rx_new THEN s
  ELSE LET s1 == [s EXCEPT !.req_min_rx_new = val, !.req_min_rx_int = val]
       IN bfd_session_request_poll(bfd_session_update_detection_time(s1, FALSE), POLL_RX)

bfd_session_set_min_rx(s, val) ==
  IF val = s.req_min_rx_new THEN s
  ELSE LET s1 == [s EXCEPT !.req_min_rx_new = val]
           s2 == IF s.loc_state # BFD_STATE_UP \/ val > s.req_min_rx_int
                   THEN bfd_session_update_detection_time(
                          [s1 EXCEPT !.req_min_rx_int = val], FALSE)
                   ELSE s1
       IN bfd_session_request_poll(s2, POLL_RX)

\* The state fields are published to the main thread here (notify list);
\* that half is modelled in BfdNotify.
bfd_session_update_state(s, state, diag) ==
  IF state = s.loc_state THEN s
  ELSE LET s1 == [s EXCEPT !.loc_state = state, !.loc_diag = diag]
           s2 == IF state = BFD_STATE_UP
                   THEN bfd_session_set_min_tx(s1, s1.cf.min_tx_int) ELSE s1
       IN IF s.loc_state = BFD_STATE_UP
            THEN bfd_session_set_min_tx(s2, s2.cf.idle_tx_int) ELSE s2

\* bfd_session_process_ctl up to, not including, the Final reply; old_tx_int
\* and old_rx_int are des_min_tx_int and rem_min_rx_int before the packet.
bfd_session_process_ctl(s, flags, old_tx_int, old_rx_int) ==
  LET s1 == IF s.poll_active # {} /\ flags.final
              THEN bfd_session_terminate_poll(s) ELSE s
      s1a == IF s1.des_min_tx_int # old_tx_int \/ s1.rem_min_rx_int # old_rx_int
               THEN bfd_session_update_tx_interval(s1) ELSE s1
      s2 == bfd_session_update_detection_time(s1a, TRUE)
      nx == NextState(s2.loc_state, s2.rem_state)
      s3 == IF nx[1] # 0 THEN bfd_session_update_state(s2, nx[1], nx[2]) ELSE s2
  IN IF s.loc_state = BFD_STATE_ADMIN_DOWN THEN s2
     ELSE bfd_session_control_tx_timer(s3, FALSE)

\* Seeded fault: the timeout forgets to re-evaluate the TX timer.
mutant_timeout_keeps_tx_timer(s) ==
  bfd_session_update_state(
    [s EXCEPT !.rem_state = BFD_STATE_DOWN, !.rem_id = NoId,
              !.rem_min_tx_int = 0, !.rem_min_rx_int = 1,
              !.poll_active = {}, !.poll_scheduled = {}],
    BFD_STATE_DOWN, BFD_DIAG_TIMEOUT)

\* Seeded fault: the timeout clears poll_active but not poll_scheduled.
mutant_timeout_keeps_poll_scheduled(s) ==
  LET s1 == [s EXCEPT !.rem_state = BFD_STATE_DOWN, !.rem_id = NoId,
                      !.rem_min_tx_int = 0, !.rem_min_rx_int = 1,
                      !.poll_active = {}]
  IN bfd_session_control_tx_timer(
       bfd_session_update_state(s1, BFD_STATE_DOWN, BFD_DIAG_TIMEOUT), TRUE)

bfd_session_timeout(s) ==
  LET s1 == [s EXCEPT !.rem_state = BFD_STATE_DOWN, !.rem_id = NoId,
                      !.rem_min_tx_int = 0, !.rem_min_rx_int = 1,
                      !.poll_active = {}, !.poll_scheduled = {}]
  IN bfd_session_control_tx_timer(
       bfd_session_update_state(s1, BFD_STATE_DOWN, BFD_DIAG_TIMEOUT), TRUE)

\* bfd_send_ctl (spec 4.2): the packet a session sends now.  It advertises
\* the intervals being negotiated (des_min_tx_new, req_min_rx_new), which a
\* poll sequence carries to the peer (RFC 5880 6.8.3).
bfd_send_ctl(s, final) ==
  [state |-> s.loc_state, rcv_id |-> s.rem_id,
   poll |-> ~final /\ s.poll_active # {}, final |-> final,
   tx |-> s.des_min_tx_new, rx |-> s.req_min_rx_new]

\* Validation of bfd_rx_hook (spec 4.2, 7): a packet with a zero
\* your-discriminator is accepted only in BFD_STATE_DOWN/BFD_STATE_ADMIN_DOWN; a nonzero one must
\* name the receiving session.
Accepted(n, s, pkt) ==
  IF pkt.rcv_id = NoId THEN s.loc_state \in {BFD_STATE_DOWN, BFD_STATE_ADMIN_DOWN}
  ELSE pkt.rcv_id = n

\* The network: a packet sent to a full path is lost.
Send(n, pkt) ==
  IF Cardinality(msgs[n]) < MaxInFlight THEN msgs[n] \cup {pkt} ELSE msgs[n]

-----------------------------------------------------------------------------
(* Initial state: bfd_add_session() on both instances.                     *)

bfd_add_session(c) ==
  bfd_session_control_tx_timer(
    [loc_state |-> BFD_STATE_DOWN, loc_diag |-> BFD_DIAG_NOTHING, rem_state |-> BFD_STATE_DOWN,
     rem_id |-> NoId, rem_min_tx_int |-> 0, rem_min_rx_int |-> 1,
     des_min_tx_int |-> c.idle_tx_int, des_min_tx_new |-> c.idle_tx_int,
     req_min_rx_int |-> c.min_rx_int, req_min_rx_new |-> c.min_rx_int,
     poll_active |-> {}, poll_scheduled |-> {}, passive |-> c.passive, cf |-> c,
     tx_active |-> FALSE, last_tx |-> FALSE,
     hold_active |-> FALSE, last_rx |-> FALSE], TRUE)

Init ==
  /\ sess = [n \in Node |-> bfd_add_session(InitCf[n])]
  /\ msgs = [n \in Node |-> {}]

-----------------------------------------------------------------------------
(* Actions.                                                                *)

\* bfd_tx_timer_hook: the TX timer of n fires and a packet goes to the peer.
bfd_tx_timer_hook(n) ==
  LET s == sess[n] IN
  /\ s.tx_active
  /\ sess' = [sess EXCEPT ![n].last_tx = TRUE]
  /\ msgs' = [msgs EXCEPT ![Peer(n)] = Send(Peer(n), bfd_send_ctl(s, FALSE))]

\* bfd_hold_timer_hook: the detection time of n expires.
bfd_hold_timer_hook(n) ==
  /\ sess[n].hold_active
  /\ sess' = [sess EXCEPT ![n] = bfd_session_timeout([@ EXCEPT !.hold_active = FALSE])]
  /\ UNCHANGED msgs

\* bfd_rx_hook (spec 4.2) followed by bfd_session_process_ctl: instance n
\* takes packet pkt off the network (or, with Duplicates, a copy of it).
bfd_rx_hook(n, pkt, keep) ==
  LET s  == sess[n]
      s1 == [s EXCEPT !.rem_id = Peer(n), !.rem_state = pkt.state,
                      !.rem_min_tx_int = pkt.tx, !.rem_min_rx_int = pkt.rx]
      s2 == bfd_session_process_ctl(s1, pkt, s.des_min_tx_int, s.rem_min_rx_int)
      left == IF keep THEN msgs[n] ELSE msgs[n] \ {pkt}
  IN
  /\ pkt \in msgs[n]
  /\ keep => Duplicates
  /\ IF ~Accepted(n, s, pkt)
       THEN sess' = sess /\ msgs' = [msgs EXCEPT ![n] = left]
       ELSE /\ sess' = [sess EXCEPT ![n] = s2]
            /\ msgs' = IF pkt.poll /\ s1.loc_state # BFD_STATE_ADMIN_DOWN
                         THEN [msgs EXCEPT ![n] = left,
                                           ![Peer(n)] = Send(Peer(n), bfd_send_ctl(s2, TRUE))]
                         ELSE [msgs EXCEPT ![n] = left]

\* bfd_reconfigure_session, entered from bfd_reconfigure() or
\* bfd_update_request() under birdloop_enter() when the merged options
\* of n change to c.
bfd_reconfigure_session(n, c) ==
  LET s  == [sess[n] EXCEPT !.cf = c]
      tx == IF s.loc_state = BFD_STATE_UP THEN c.min_tx_int ELSE c.idle_tx_int
      s1 == bfd_session_set_min_rx(bfd_session_set_min_tx(s, tx), c.min_rx_int)
  IN
  /\ n \in Reconfigurable
  /\ c # sess[n].cf
  /\ sess' = [sess EXCEPT ![n] =
                bfd_session_control_tx_timer([s1 EXCEPT !.passive = c.passive], FALSE)]
  /\ UNCHANGED msgs

\* The network loses a packet in flight.
LosePacket(n, pkt) ==
  /\ pkt \in msgs[n]
  /\ msgs' = [msgs EXCEPT ![n] = @ \ {pkt}]
  /\ UNCHANGED sess

Next ==
  \E n \in Node :
    \/ bfd_tx_timer_hook(n)
    \/ bfd_hold_timer_hook(n)
    \/ \E pkt \in msgs[n], keep \in BOOLEAN : bfd_rx_hook(n, pkt, keep)
    \/ \E c \in Configs : bfd_reconfigure_session(n, c)
    \/ \E pkt \in msgs[n] : LosePacket(n, pkt)

Spec == Init /\ [][Next]_vars

\* The refinement mapping to the RFC 5880 state machine: the local state
\* and diagnostic of each session, and the states carried by the packets
\* in flight towards it.
RFC == INSTANCE BfdSessionRFC WITH
         state <- [n \in Node |-> sess[n].loc_state],
         diag <- [n \in Node |-> sess[n].loc_diag],
         adv <- [n \in Node |-> {pkt.state : pkt \in msgs[n]}]

-----------------------------------------------------------------------------
(* Properties.                                                             *)

\* Types, and the shape of the poll bits that bfd_session_request_poll,
\* bfd_session_terminate_poll and bfd_session_timeout keep between them: a
\* poll is scheduled only behind an active one, and none is pending
\* towards a peer whose discriminator is unknown.
TypeOK ==
  /\ sess \in [Node -> Session]
  /\ msgs \in [Node -> SUBSET Packet]
  /\ \A n \in Node :
       /\ sess[n].poll_scheduled # {} => sess[n].poll_active # {}
       /\ sess[n].rem_id = NoId => sess[n].poll_active = {}

\* The ordering bfd_session_set_min_tx/rx document ("des_min_tx_int <=
\* des_min_tx_new", "req_min_rx_int >= req_min_rx_new", spec 3.1): the value
\* in use is never less conservative than the one being negotiated, across
\* any mix of reconfigurations, state changes, poll completions and
\* timeouts.
IntervalOrder ==
  \A n \in Node :
    /\ sess[n].des_min_tx_int <= sess[n].des_min_tx_new
    /\ sess[n].req_min_rx_int >= sess[n].req_min_rx_new

\* Spec 3.1 invariant 4: a passive session sends nothing before it has
\* heard its peer; bfd_session_control_tx_timer must stop the TX timer after
\* every step that can leave rem_id zero (creation and timeout; the
\* configurations of MC_BfdSession never turn passive on).
PassiveSilent ==
  \A n \in Node : sess[n].passive /\ sess[n].rem_id = NoId => ~sess[n].tx_active

\* RFC 5880 6.8.3, implemented by bfd_session_set_min_tx/rx: while a session
\* stays Up, a slower transmit interval or a faster required receive
\* interval is put in use only by a received packet with the Final bit,
\* i.e. after the peer has answered the poll carrying the change.
PostponedUntilFinal ==
  [][\A n \in Node :
       ( /\ sess[n].loc_state = BFD_STATE_UP /\ sess'[n].loc_state = BFD_STATE_UP
         /\ \/ sess'[n].des_min_tx_int > sess[n].des_min_tx_int
            \/ sess'[n].req_min_rx_int < sess[n].req_min_rx_int )
       => \E pkt \in msgs[n], keep \in BOOLEAN :
            pkt.final /\ bfd_rx_hook(n, pkt, keep)]_vars

\* The sessions implement the RFC 5880 handshake: every step of a timer
\* hook, bfd_rx_hook with bfd_session_process_ctl (discriminator check,
\* state switch, Final reply) or a reconfiguration is a step of
\* BfdSessionRFC or leaves its state alone; no packet carries a state the
\* sender was never in, and no transition happens that the peer's
\* advertised states do not justify.
ImplementsRFC == RFC!Spec

\* RFC 5880 6.8.3, the reason bfd_session_set_min_tx/rx postpone a change
\* behind a poll sequence: when a session that stays Up puts a slower TX
\* interval or a faster required RX interval in use, the peer has already
\* learnt it (its rem_min_tx_int / rem_min_rx_int hold the new value), or
\* has forgotten the session by a timeout.  bfd_session_process_ctl ends the
\* poll on any packet with Final, also on one that answered a Poll of an
\* earlier sequence.
ChangeSeenByPeer ==
  [][\A n \in Node :
       LET p == Peer(n) IN
       sess[n].loc_state = BFD_STATE_UP /\ sess'[n].loc_state = BFD_STATE_UP =>
         /\ sess'[n].des_min_tx_int > sess[n].des_min_tx_int
              => sess[p].rem_min_tx_int \in {0, sess'[n].des_min_tx_int}
         /\ sess'[n].req_min_rx_int < sess[n].req_min_rx_int
              => sess[p].rem_min_rx_int \in {1, sess'[n].req_min_rx_int}]_vars

\* Spec 4.1: an interval stashed in des_min_tx_new / req_min_rx_new is
\* carried by a poll sequence (active or scheduled) until it is committed,
\* so the next Final puts it in use.
PendingChangeIsPolled ==
  \A n \in Node :
    /\ sess[n].des_min_tx_int # sess[n].des_min_tx_new
         => POLL_TX \in sess[n].poll_active \cup sess[n].poll_scheduled
    /\ sess[n].req_min_rx_int # sess[n].req_min_rx_new
         => POLL_RX \in sess[n].poll_active \cup sess[n].poll_scheduled

=============================================================================
