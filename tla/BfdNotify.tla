------------------------------ MODULE BfdNotify ------------------------------
(***************************************************************************)
(* Publication of BFD session state changes from the BFD thread to the     *)
(* main thread, and the BFD requests that receive them (proto/bfd/bfd.c).  *)
(*                                                                         *)
(* BFD thread: a packet or a timeout first writes rem_state (outside the   *)
(* spinlock), then bfd_session_update_state() writes loc_state/loc_diag    *)
(* and links the session on notify_list under the spinlock, then kicks   *)
(* the notify pipe.  Each of the three is a step; the main thread may run  *)
(* between them.                                                           *)
(*                                                                         *)
(* Main thread: bfd_notify_hook() drains the pipe, splices notify_list     *)
(* into a local list, and for each session reads the published state     *)
(* under the spinlock and calls bfd_request_notify() on every attached     *)
(* request, one step each; a request's hook may release that request.      *)
(* Clients create (bfd_request_session) and release (bfd_request_free)     *)
(* requests when the main thread is idle.  Calls that enter the BFD loop  *)
(* (bfd_add_session, bfd_remove_session) wait until the BFD thread is      *)
(* between handlers.                                                       *)
(***************************************************************************)
EXTENDS Naturals, FiniteSets, BfdConst

CONSTANTS
  Addr,      \* neighbor addresses (with interface): one session per address
  Req,       \* request handles of client protocols
  ReqAddr,   \* ReqAddr[r]: the address request r asks for
  None       \* "no session" / "no current session"

ASSUME ReqAddr \in [Req -> Addr] /\ None \notin Addr

VARIABLES
  ses,          \* ses[a]: published fields of the session for a, if it exists
  sessions,     \* addresses that have a session (both hash tables)
  notify_list,  \* sessions linked on p->notify_list
  tmp_list,     \* sessions spliced into bfd_notify_hook's local list
  pipe,         \* the notify pipe holds a byte
  req,          \* req[r]: the bfd_request r
  bfd_pc,       \* BFD thread: "idle", "ctl" (rem_state written), "kick"
  bfd_cur,      \* session the BFD thread handles, and its pending event
  main_pc,      \* main thread in bfd_notify_hook: "idle", "drained",
                \* "walk", "notify"
  main_cur,     \* session bfd_notify_hook is delivering, with its snapshot
  todo,         \* requests of main_cur not yet notified
  trans_rem     \* history: rem_state at each session's last transition

vars == <<ses, sessions, notify_list, tmp_list, pipe, req, bfd_pc, bfd_cur,
          main_pc, main_cur, todo, trans_rem>>

Request == [alloc: BOOLEAN, session: Addr \cup {None}, hook: BOOLEAN,
            state: State, diag: Diag, down: BOOLEAN]

\* The requests attached to the session of a (s->request_list).
request_list(a) == {r \in Req : req[r].alloc /\ req[r].session = a}

\* NODE_VALID(&s->n): the session is on notify_list or on the hook's list.
NodeValid(a) == a \in notify_list \cup tmp_list

-----------------------------------------------------------------------------
(* Main-thread helpers.                                                    *)

\* bfd_request_notify: deliver (state, diag) if the state differs; the
\* caller's hook runs when one is set.  old_state only informs the hook
\* and is left out.
bfd_request_notify(q, state, remote, diag) ==
  IF state = q.state THEN q
  ELSE [q EXCEPT !.state = state, !.diag = diag,
                 !.down = q.state = BFD_STATE_UP /\ state = BFD_STATE_DOWN
                            /\ remote # BFD_STATE_ADMIN_DOWN]

\* A new bfd_session as bfd_add_session() initialises it.
NewSession == [loc_state |-> BFD_STATE_DOWN, rem_state |-> BFD_STATE_DOWN,
               loc_diag |-> BFD_DIAG_NOTHING, notify_running |-> FALSE]

Init ==
  /\ ses = [a \in Addr |-> NewSession]
  /\ sessions = {}
  /\ notify_list = {}
  /\ tmp_list = {}
  /\ pipe = FALSE
  /\ req = [r \in Req |-> [alloc |-> FALSE, session |-> None, hook |-> FALSE,
                           state |-> BFD_STATE_ADMIN_DOWN, diag |-> BFD_DIAG_NOTHING,
                           down |-> FALSE]]
  /\ bfd_pc = "idle"
  /\ bfd_cur = [addr |-> None, timeout |-> FALSE]
  /\ main_pc = "idle"
  /\ main_cur = [addr |-> None, snap |-> NewSession]
  /\ todo = {}
  /\ trans_rem = [a \in Addr |-> BFD_STATE_DOWN]

-----------------------------------------------------------------------------
(* BFD thread.                                                             *)

\* bfd_rx_hook (packets.c, spec 4.2) stores the received remote state, or
\* bfd_session_timeout stores rem_state = Down: unlocked writes that come
\* before the state update of the same handler.
SessionEvent(a) ==
  /\ bfd_pc = "idle"
  /\ a \in sessions
  /\ \E timeout \in BOOLEAN, rem \in State :
       /\ timeout => rem = BFD_STATE_DOWN
       /\ ses' = [ses EXCEPT ![a].rem_state = rem]
       /\ bfd_cur' = [addr |-> a, timeout |-> timeout]
  /\ bfd_pc' = "ctl"
  /\ UNCHANGED <<sessions, notify_list, tmp_list, pipe, req, main_pc, main_cur,
                 todo, trans_rem>>

\* Mutant: the state is published and linked, but the pipe is never kicked.
mutant_update_state_no_kick ==
  LET a  == bfd_cur.addr
      s  == ses[a]
      nx == IF bfd_cur.timeout THEN <<BFD_STATE_DOWN, BFD_DIAG_TIMEOUT>>
            ELSE NextState(s.loc_state, s.rem_state)
      notify == ~NodeValid(a)
  IN
  /\ bfd_pc = "ctl"
  /\ IF nx[1] = 0 \/ nx[1] = s.loc_state
       THEN /\ bfd_pc' = "idle"
            /\ UNCHANGED <<ses, notify_list, trans_rem>>
       ELSE /\ ses' = [ses EXCEPT ![a].loc_state = nx[1], ![a].loc_diag = nx[2]]
            /\ trans_rem' = [trans_rem EXCEPT ![a] = s.rem_state]
            /\ notify_list' = IF notify THEN notify_list \cup {a} ELSE notify_list
            /\ bfd_pc' = "idle"
  /\ UNCHANGED <<sessions, tmp_list, pipe, req, bfd_cur, main_pc, main_cur, todo>>

\* Mutant: the "already linked" test looks at notify_list only, missing a
\* session that bfd_notify_hook has spliced but not yet taken.
mutant_update_state_tests_notify_list ==
  LET a  == bfd_cur.addr
      s  == ses[a]
      nx == IF bfd_cur.timeout THEN <<BFD_STATE_DOWN, BFD_DIAG_TIMEOUT>>
            ELSE NextState(s.loc_state, s.rem_state)
      notify == a \notin notify_list
  IN
  /\ bfd_pc = "ctl"
  /\ IF nx[1] = 0 \/ nx[1] = s.loc_state
       THEN /\ bfd_pc' = "idle"
            /\ UNCHANGED <<ses, notify_list, trans_rem>>
       ELSE /\ ses' = [ses EXCEPT ![a].loc_state = nx[1], ![a].loc_diag = nx[2]]
            /\ trans_rem' = [trans_rem EXCEPT ![a] = s.rem_state]
            /\ notify_list' = IF notify THEN notify_list \cup {a} ELSE notify_list
            /\ bfd_pc' = IF notify THEN "kick" ELSE "idle"
  /\ UNCHANGED <<sessions, tmp_list, pipe, req, bfd_cur, main_pc, main_cur, todo>>

\* The state switch of bfd_session_process_ctl (or the update of
\* bfd_session_timeout) and the locked half of bfd_session_update_state:
\* publish the new state and link the session unless it is already linked.
bfd_session_update_state ==
  LET a  == bfd_cur.addr
      s  == ses[a]
      nx == IF bfd_cur.timeout THEN <<BFD_STATE_DOWN, BFD_DIAG_TIMEOUT>>
            ELSE NextState(s.loc_state, s.rem_state)
      notify == ~NodeValid(a)
  IN
  /\ bfd_pc = "ctl"
  /\ IF nx[1] = 0 \/ nx[1] = s.loc_state
       THEN /\ bfd_pc' = "idle"
            /\ UNCHANGED <<ses, notify_list, trans_rem>>
       ELSE /\ ses' = [ses EXCEPT ![a].loc_state = nx[1], ![a].loc_diag = nx[2]]
            /\ trans_rem' = [trans_rem EXCEPT ![a] = s.rem_state]
            /\ notify_list' = IF notify THEN notify_list \cup {a} ELSE notify_list
            /\ bfd_pc' = IF notify THEN "kick" ELSE "idle"
  /\ UNCHANGED <<sessions, tmp_list, pipe, req, bfd_cur, main_pc, main_cur, todo>>

\* bfd_notify_kick: write a byte to the notify pipe.
bfd_notify_kick ==
  /\ bfd_pc = "kick"
  /\ pipe' = TRUE
  /\ bfd_pc' = "idle"
  /\ UNCHANGED <<ses, sessions, notify_list, tmp_list, req, bfd_cur, main_pc,
                 main_cur, todo, trans_rem>>

-----------------------------------------------------------------------------
(* Main thread: clients.                                                   *)

\* Mutant: the request is attached without the initial delivery.
mutant_add_request_no_notify(r) ==
  LET a == ReqAddr[r]
      s == IF a \in sessions THEN ses[a] ELSE NewSession
  IN
  /\ main_pc = "idle"
  /\ ~req[r].alloc
  /\ a \notin sessions => bfd_pc = "idle"
  /\ sessions' = sessions \cup {a}
  /\ ses' = [ses EXCEPT ![a] = s]
  /\ req' = [req EXCEPT ![r] = [alloc |-> TRUE, session |-> a, hook |-> TRUE,
                                state |-> BFD_STATE_ADMIN_DOWN, diag |-> BFD_DIAG_NOTHING,
                                down |-> FALSE]]
  /\ UNCHANGED <<notify_list, tmp_list, pipe, bfd_pc, bfd_cur, main_pc, main_cur,
                 todo, trans_rem>>

\* bfd_add_request: find or create (bfd_add_session, under birdloop_enter)
\* the session of the request's address, attach the request, read the
\* published state under the lock and deliver it.  The protocol accepts
\* every request here (the vrf and address-family filters pass).
bfd_add_request(r) ==
  LET a == ReqAddr[r]
      s == IF a \in sessions THEN ses[a] ELSE NewSession
      fresh == [alloc |-> TRUE, session |-> a, hook |-> FALSE,
                state |-> BFD_STATE_ADMIN_DOWN, diag |-> BFD_DIAG_NOTHING,
                down |-> FALSE]
  IN
  /\ a \notin sessions => bfd_pc = "idle"
  /\ sessions' = sessions \cup {a}
  /\ ses' = [ses EXCEPT ![a] = s]
  /\ req' = [req EXCEPT ![r] = [bfd_request_notify(fresh, s.loc_state, s.rem_state,
                                                    s.loc_diag) EXCEPT !.hook = TRUE]]
  /\ UNCHANGED <<notify_list, tmp_list, pipe, bfd_pc, bfd_cur, main_pc, main_cur,
                 todo, trans_rem>>

\* bfd_request_session -> bfd_submit_request -> bfd_add_request by a client
\* on the main thread; the hook is set only after the submission, so the
\* first delivery calls no hook.
bfd_request_session(r) ==
  /\ main_pc = "idle"
  /\ ~req[r].alloc
  /\ bfd_add_request(r)

\* bfd_remove_session, under birdloop_enter: unlink from whichever list
\* holds the session and drop it from both hash tables.
RemoveSession(a) ==
  /\ sessions' = sessions \ {a}
  /\ notify_list' = notify_list \ {a}
  /\ tmp_list' = tmp_list \ {a}
  /\ ses' = [ses EXCEPT ![a] = NewSession]

\* Mutant: the notify_running test is dropped.
mutant_free_ignores_notify_running(r) ==
  LET a == req[r].session
  IN a # None /\ request_list(a) = {r}

\* The test of bfd_request_free: the released request r was the last one
\* of its session and bfd_notify_hook is not delivering that session.
FreeRemovesSession(r) ==
  LET a == req[r].session
  IN a # None /\ request_list(a) = {r} /\ ~ses[a].notify_running

\* bfd_request_free (rfree of the request by its owner): detach it, and
\* remove its session when FreeRemovesSession.
bfd_request_free(r) ==
  /\ main_pc = "idle"
  /\ req[r].alloc
  /\ req' = [req EXCEPT ![r].alloc = FALSE, ![r].session = None]
  /\ IF FreeRemovesSession(r)
       THEN bfd_pc = "idle" /\ RemoveSession(req[r].session)
       ELSE UNCHANGED <<sessions, notify_list, tmp_list, ses>>
  /\ UNCHANGED <<pipe, bfd_pc, bfd_cur, main_pc, main_cur, todo, trans_rem>>

-----------------------------------------------------------------------------
(* Main thread: bfd_notify_hook, one step per lock region or delivery.    *)

\* pipe_drain: the notify socket is readable.
NotifyDrain ==
  /\ main_pc = "idle" /\ pipe
  /\ pipe' = FALSE
  /\ main_pc' = "drained"
  /\ UNCHANGED <<ses, sessions, notify_list, tmp_list, req, bfd_pc, bfd_cur,
                 main_cur, todo, trans_rem>>

\* Under the spinlock: move notify_list to the local list.
NotifySplice ==
  /\ main_pc = "drained"
  /\ tmp_list' = tmp_list \cup notify_list
  /\ notify_list' = {}
  /\ main_pc' = "walk"
  /\ UNCHANGED <<ses, sessions, pipe, req, bfd_pc, bfd_cur, main_cur, todo,
                 trans_rem>>

\* WALK_LIST_FIRST: under the spinlock unlink the next session and read its
\* published state; then set notify_running.  The hook returns when the
\* local list is empty.
NotifyTake ==
  /\ main_pc = "walk"
  /\ IF tmp_list = {}
       THEN /\ main_pc' = "idle"
            /\ UNCHANGED <<ses, tmp_list, main_cur, todo>>
       ELSE \E a \in tmp_list :
              /\ tmp_list' = tmp_list \ {a}
              /\ main_cur' = [addr |-> a, snap |-> ses[a]]
              /\ ses' = [ses EXCEPT ![a].notify_running = TRUE]
              /\ todo' = request_list(a)
              /\ main_pc' = "notify"
  /\ UNCHANGED <<sessions, notify_list, pipe, req, bfd_pc, bfd_cur, trans_rem>>

\* bfd_request_notify on the next request of the session; when the state
\* changed, the request's hook runs and may release the request itself.
NotifyRequest ==
  LET snap == main_cur.snap IN
  /\ main_pc = "notify"
  /\ \E r \in todo, release \in BOOLEAN :
       LET q == bfd_request_notify(req[r], snap.loc_state, snap.rem_state,
                                   snap.loc_diag)
       IN
       /\ release => q.state # req[r].state /\ q.hook
       /\ req' = [req EXCEPT ![r] = IF release
                                       THEN [q EXCEPT !.alloc = FALSE, !.session = None]
                                       ELSE q]
       /\ IF release /\ FreeRemovesSession(r)
            THEN bfd_pc = "idle" /\ RemoveSession(req[r].session)
            ELSE UNCHANGED <<sessions, notify_list, tmp_list, ses>>
       /\ todo' = todo \ {r}
  /\ UNCHANGED <<pipe, bfd_pc, bfd_cur, main_pc, main_cur, trans_rem>>

\* After the requests: clear notify_running and remove the session if its
\* hooks released every request (bfd_remove_session, birdloop_enter).
NotifyDone ==
  LET a == main_cur.addr IN
  /\ main_pc = "notify" /\ todo = {}
  /\ IF request_list(a) = {}
       THEN bfd_pc = "idle" /\ RemoveSession(a)
       ELSE /\ ses' = [ses EXCEPT ![a].notify_running = FALSE]
            /\ UNCHANGED <<sessions, notify_list, tmp_list>>
  /\ main_pc' = "walk"
  /\ UNCHANGED <<pipe, req, bfd_pc, bfd_cur, main_cur, todo, trans_rem>>

-----------------------------------------------------------------------------

Next ==
  \/ \E a \in Addr : SessionEvent(a)
  \/ bfd_session_update_state
  \/ bfd_notify_kick
  \/ \E r \in Req : bfd_request_session(r) \/ bfd_request_free(r)
  \/ NotifyDrain \/ NotifySplice \/ NotifyTake \/ NotifyRequest \/ NotifyDone

\* The BFD thread finishes the handler it started; the main thread runs the
\* notify hook whenever the pipe is readable.  bfd_remove_session waits for
\* the BFD thread to be between handlers (birdloop_enter), which it is
\* infinitely often, hence strong fairness for NotifyDone.
Fairness ==
  /\ WF_vars(bfd_session_update_state) /\ WF_vars(bfd_notify_kick)
  /\ WF_vars(NotifyDrain) /\ WF_vars(NotifySplice) /\ WF_vars(NotifyTake)
  /\ WF_vars(NotifyRequest) /\ SF_vars(NotifyDone)

Spec == Init /\ [][Next]_vars
FairSpec == Spec /\ Fairness

-----------------------------------------------------------------------------
(* Properties.                                                             *)

TypeOK ==
  /\ ses \in [Addr -> [loc_state: State, rem_state: State, loc_diag: Diag,
                        notify_running: BOOLEAN]]
  /\ sessions \subseteq Addr /\ notify_list \subseteq sessions
  /\ tmp_list \subseteq sessions /\ notify_list \cap tmp_list = {}
  /\ pipe \in BOOLEAN
  /\ req \in [Req -> Request]
  /\ bfd_pc \in {"idle", "ctl", "kick"}
  /\ main_pc \in {"idle", "drained", "walk", "notify"}
  /\ todo \subseteq Req
  /\ trans_rem \in [Addr -> State]

\* A request whose delivery is still pending: its session is linked for
\* notification, or the notify hook has snapshotted it and not yet
\* reached this request.
InFlight(r) ==
  LET a == req[r].session
  IN NodeValid(a) \/ (main_pc = "notify" /\ main_cur.addr = a /\ r \in todo)

\* bfd_notify_hook never delivers for a session that bfd_request_free has
\* already destroyed: while the hook walks a session's requests (and a hook
\* may release the last one), the session still exists (notify_running).
NotifierSessionLive ==
  main_pc = "notify" => main_cur.addr \in sessions

\* Every attached request has been told the session's current state unless
\* a notification for it is in flight: the initial delivery of
\* bfd_add_request, the NODE_VALID test of bfd_session_update_state and the
\* per-session snapshot of bfd_notify_hook together lose no change.
DeliveredWhenQuiet ==
  \A r \in Req :
    (req[r].alloc /\ ~InFlight(r)) => req[r].state = ses[req[r].session].loc_state

\* Spec 8: a subscriber's delivered (state, diag) equals the session's
\* (loc_state, loc_diag) unless a notification is in flight.  The code
\* compares the state only (bfd_request_notify) and coalesces transitions.
DeliveredWithDiag ==
  \A r \in Req :
    (req[r].alloc /\ ~InFlight(r)) =>
      /\ req[r].state = ses[req[r].session].loc_state
      /\ req[r].diag = ses[req[r].session].loc_diag

\* Spec 5: down is set iff the delivered change is Up -> Down and the remote
\* state at the time of that transition was not AdminDown.  The code reads
\* rem_state when the notify hook runs.
DownFlagPerSpec ==
  [][\A r \in Req :
       (req[r].session # None /\ req'[r].state # req[r].state) =>
         (req'[r].down <=> /\ req[r].state = BFD_STATE_UP
                           /\ req'[r].state = BFD_STATE_DOWN
                           /\ trans_rem[req[r].session] # BFD_STATE_ADMIN_DOWN)]_vars

\* Liveness: a state a session keeps is eventually delivered to every
\* request attached to it (the kick, the pipe and the notify hook's walk).
DeliveryEventually ==
  \A r \in Req, x \in State :
    (req[r].alloc /\ ses[ReqAddr[r]].loc_state = x)
      ~> (~req[r].alloc \/ req[r].state = x \/ ses[ReqAddr[r]].loc_state # x)

=============================================================================
