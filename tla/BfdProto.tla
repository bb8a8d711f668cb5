------------------------------ MODULE BfdProto ------------------------------
(***************************************************************************)
(* The request broker of proto/bfd/bfd.c across BFD protocol instances:   *)
(* bfd_proto_list, the process-wide bfd_wait_list, submission of requests *)
(* to the first instance that accepts them, bfd_start draining the wait   *)
(* list, bfd_shutdown handing every request back to submission, the      *)
(* per-interface reference counts of bfd_get_iface / bfd_free_iface, and  *)
(* the option merge of bfd_add_session / bfd_reconfigure_session.         *)
(*                                                                         *)
(* Everything here runs on the main thread.  A request hook called from   *)
(* bfd_take_requests or bfd_drop_requests may release its own request     *)
(* before the walk goes on; that call is the "hook" step.  State changes  *)
(* made by the BFD threads and their delivery are the subject of          *)
(* BfdNotify and are left out here.                                       *)
(***************************************************************************)
EXTENDS Naturals, FiniteSets, Sequences, SequencesExt

CONSTANTS
  Proto,      \* BFD protocol instances (struct bfd_proto)
  Req,        \* request handles a client may allocate
  Addr,       \* peer addresses
  ReqAddr,    \* ReqAddr[r]: the address request r asks for
  Accepts,    \* Accepts[p]: the requests bfd_add_request of p accepts
  IfaceOf,    \* IfaceOf[a]: the (local, iface) binding of address a
  Opts,       \* request options (struct bfd_options)
  Cfg,        \* interface configurations a protocol config may give
  IdBits,     \* width of a local discriminator (u32 in bfd.c)
  None

ASSUME ReqAddr \in [Req -> Addr] /\ Accepts \in [Proto -> SUBSET Req]
ASSUME None \notin Proto

Iface == {IfaceOf[a] : a \in Addr}

\* Local discriminators are unsigned IdBits-bit integers; id++ wraps.
IdMod == 2^IdBits
IdSpace == 0..(IdMod - 1)

\* The id search of bfd_get_free_id ends: an instance never has as many
\* sessions as there are nonzero ids.
ASSUME Cardinality(Addr) < IdMod - 1

VARIABLES
  proto_list, \* bfd_proto_list: running instances in start order
  wait_list,  \* bfd_wait_list: requests no running instance accepted
  pcf,        \* pcf[p]: the interface configuration of p's config
  sessions,   \* sessions[p]: addresses with a session in p
  rlist,      \* rlist[p][a]: request_list of that session
  lid,        \* lid[p][a]: s->loc_id of that session (0: no session)
  scf,        \* scf[p][a]: <<iface config, request options>> merged into s->cf
  uc,         \* uc[p][i]: reference count of p's bfd_iface i (0: none)
  req,        \* req[r]: alloc, owning instance (None: parked) and options
  pc,         \* main thread: "idle", "take", "drop" or "hook"
  cur,        \* the instance being started or shut down
  todo,       \* requests the current walk has still to visit
  hooked,     \* the request whose hook runs in the "hook" step
  ret         \* where the walk resumes after the hook

vars == <<proto_list, wait_list, pcf, sessions, lid, rlist, scf, uc, req, pc, cur,
          todo, hooked, ret>>

Running == ToSet(proto_list)

\* The request walked by bfd_drop_requests: the head of some session's list.
Attached(p) == UNION {ToSet(rlist[p][a]) : a \in sessions[p]}

-----------------------------------------------------------------------------
(* Helpers of bfd.c, as operators on the values they change.              *)

\* Mutant: an existing binding is returned without taking a reference.
mutant_get_iface_no_ref(u, i) == IF u[i] > 0 THEN u ELSE [u EXCEPT ![i] = 1]

\* bfd_get_iface: reuse the binding (uc++) or create one with uc = 1.
bfd_get_iface(u, i) == [u EXCEPT ![i] = @ + 1]

\* bfd_free_iface: drop a reference; the binding and its sockets go at 0.
bfd_free_iface(u, i) == [u EXCEPT ![i] = @ - 1]

\* bfd_reconfigure_iface: the binding is marked changed when the
\* interface configuration differs (every field is compared).
bfd_reconfigure_iface(old, new) == old # new

\* bfd_merge_options: what s->cf is computed from.
bfd_merge_options(c, o) == <<c, o>>

\* The local discriminators in use by the sessions of p.
UsedIds(p) == {lid[p][a] : a \in sessions[p]}

\* Mutant: the search does not wrap around at the top of the id space.
RECURSIVE mutant_get_free_id_no_wrap(_, _)
mutant_get_free_id_no_wrap(id, used) ==
  IF id # 0 /\ id \notin used THEN id ELSE mutant_get_free_id_no_wrap(id + 1, used)

\* Mutant: id 0 is not skipped.
RECURSIVE mutant_get_free_id_zero(_, _)
mutant_get_free_id_zero(id, used) ==
  IF id \notin used THEN id ELSE mutant_get_free_id_zero((id + 1) % IdMod, used)

\* bfd_get_free_id: from a random start, the first id (counting up with
\* wrap-around) that is nonzero and not the loc_id of a session of p.
RECURSIVE bfd_get_free_id(_, _)
bfd_get_free_id(id, used) ==
  IF id # 0 /\ id \notin used THEN id ELSE bfd_get_free_id((id + 1) % IdMod, used)

-----------------------------------------------------------------------------
(* Steps that change the broker's structures, used by several actions.   *)

\* bfd_add_request on instance p (whose filters accept r): find or create
\* the session (bfd_add_session: bfd_get_iface, a free loc_id from a random
\* start, merged options of r) and
\* move r, whose options are o, to the tail of its request list.  rl is rlist after r has been
\* unlinked from wherever it was (rem_node).
bfd_add_request(p, r, o, rl) ==
  LET a == ReqAddr[r]
      new == a \notin sessions[p]
  IN
  /\ sessions' = [sessions EXCEPT ![p] = @ \cup {a}]
  /\ \E start \in IdSpace :
       lid' = IF new THEN [lid EXCEPT ![p][a] = bfd_get_free_id(start, UsedIds(p))]
              ELSE lid
  /\ rlist' = [rl EXCEPT ![p][a] = Append(IF new THEN <<>> ELSE @, r)]
  /\ uc' = IF new THEN [uc EXCEPT ![p] = bfd_get_iface(@, IfaceOf[a])] ELSE uc
  /\ scf' = IF new THEN [scf EXCEPT ![p][a] = bfd_merge_options(pcf[p], o)]
            ELSE scf
  /\ wait_list' = wait_list \ {r}

\* bfd_submit_request: the first instance on bfd_proto_list that accepts r
\* takes it; else r is parked on the wait list (and told AdminDown).
bfd_submit_request(r, opts, rl) ==
  LET acc == SelectSeq(proto_list, LAMBDA p : r \in Accepts[p]) IN
  IF acc = <<>>
    THEN /\ req' = [req EXCEPT ![r] = [alloc |-> TRUE, proto |-> None, opts |-> opts]]
         /\ wait_list' = wait_list \cup {r}
         /\ rlist' = rl
         /\ UNCHANGED <<sessions, lid, scf, uc>>
    ELSE /\ req' = [req EXCEPT ![r] = [alloc |-> TRUE, proto |-> Head(acc), opts |-> opts]]
         /\ bfd_add_request(Head(acc), r, opts, rl)

\* bfd_remove_session: drop the session (and its loc_id) and its iface
\* reference.
bfd_remove_session(p, a) ==
  /\ sessions' = [sessions EXCEPT ![p] = @ \ {a}]
  /\ lid' = [lid EXCEPT ![p][a] = 0]
  /\ uc' = [uc EXCEPT ![p] = bfd_free_iface(@, IfaceOf[a])]

\* Mutant: a parked request is freed without rem_node from the wait list.
mutant_release_keeps_parked(r) ==
  LET p == req[r].proto
      a == ReqAddr[r]
  IN
  /\ req' = [req EXCEPT ![r] = [alloc |-> FALSE, proto |-> None, opts |-> @.opts]]
  /\ UNCHANGED wait_list
  /\ IF p = None
       THEN UNCHANGED <<sessions, lid, rlist, uc>>
       ELSE /\ rlist' = [rlist EXCEPT ![p][a] = Remove(@, r)]
            /\ IF rlist'[p][a] = <<>>
                 THEN bfd_remove_session(p, a)
                 ELSE UNCHANGED <<sessions, lid, uc>>
  /\ UNCHANGED scf

\* Mutant: the empty session is never removed.
mutant_release_keeps_session(r) ==
  LET p == req[r].proto
      a == ReqAddr[r]
  IN
  /\ req' = [req EXCEPT ![r] = [alloc |-> FALSE, proto |-> None, opts |-> @.opts]]
  /\ wait_list' = wait_list \ {r}
  /\ IF p = None
       THEN UNCHANGED rlist
       ELSE rlist' = [rlist EXCEPT ![p][a] = Remove(@, r)]
  /\ UNCHANGED <<sessions, lid, uc, scf>>

\* bfd_request_free: unlink r; remove its session if the list is now empty.
ReleaseRequest(r) ==
  LET p == req[r].proto
      a == ReqAddr[r]
  IN
  /\ req' = [req EXCEPT ![r] = [alloc |-> FALSE, proto |-> None, opts |-> @.opts]]
  /\ wait_list' = wait_list \ {r}
  /\ IF p = None
       THEN UNCHANGED <<sessions, lid, rlist, uc>>
       ELSE /\ rlist' = [rlist EXCEPT ![p][a] = Remove(@, r)]
            /\ IF rlist'[p][a] = <<>>
                 THEN bfd_remove_session(p, a)
                 ELSE UNCHANGED <<sessions, lid, uc>>
  /\ UNCHANGED scf

\* bfd_reconfigure_session of the session (p, a): merge the iface config c
\* with the options of the head request.
ReconfiguredCf(p, a, c, rq) == bfd_merge_options(c, rq[Head(rlist[p][a])].opts)

-----------------------------------------------------------------------------

Init ==
  /\ proto_list = <<>>
  /\ wait_list = {}
  /\ pcf \in [Proto -> Cfg]
  /\ sessions = [p \in Proto |-> {}]
  /\ lid = [p \in Proto |-> [a \in Addr |-> 0]]
  /\ rlist = [p \in Proto |-> [a \in Addr |-> <<>>]]
  /\ scf = [p \in Proto |-> [a \in Addr |-> bfd_merge_options(pcf[p], CHOOSE o \in Opts : TRUE)]]
  /\ uc = [p \in Proto |-> [i \in Iface |-> 0]]
  /\ req = [r \in Req |-> [alloc |-> FALSE, proto |-> None, opts |-> CHOOSE o \in Opts : TRUE]]
  /\ pc = "idle"
  /\ cur = None
  /\ todo = {}
  /\ hooked = None
  /\ ret = "idle"

\* bfd_request_session by a client: allocate r with options o and submit
\* it.  The hook is set after the submission, so no hook runs here.
bfd_request_session(r, o) ==
  /\ pc = "idle" /\ ~req[r].alloc
  /\ bfd_submit_request(r, o, rlist)
  /\ UNCHANGED <<proto_list, pcf, pc, cur, todo, hooked, ret>>

\* rfree of a request by its owner.
bfd_request_free(r) ==
  /\ pc = "idle" /\ req[r].alloc
  /\ ReleaseRequest(r)
  /\ UNCHANGED <<proto_list, pcf, pc, cur, todo, hooked, ret>>

\* bfd_update_request: new options o; if they differ and r has a session,
\* bfd_reconfigure_session re-merges from the head of its request list.
bfd_update_request(r, o) ==
  LET p == req[r].proto
      a == ReqAddr[r]
      rq == [req EXCEPT ![r].opts = o]
  IN
  /\ pc = "idle" /\ req[r].alloc /\ o # req[r].opts
  /\ req' = rq
  /\ scf' = IF p = None THEN scf
            ELSE [scf EXCEPT ![p][a] = ReconfiguredCf(p, a, pcf[p], rq)]
  /\ UNCHANGED <<proto_list, wait_list, pcf, sessions, lid, rlist, uc, pc, cur, todo,
                 hooked, ret>>

\* Mutant: bfd_start does not call bfd_take_requests.
mutant_start_no_take(p, c) ==
  /\ pc = "idle" /\ p \notin Running
  /\ proto_list' = Append(proto_list, p)
  /\ pcf' = [pcf EXCEPT ![p] = c]
  /\ todo' = {}
  /\ cur' = p
  /\ pc' = "take"
  /\ UNCHANGED <<wait_list, sessions, lid, rlist, scf, uc, req, hooked, ret>>

\* Mutant: an instance that is already on bfd_proto_list is started again
\* (add_tail of a linked bfd_node).
mutant_start_twice(p, c) ==
  /\ pc = "idle"
  /\ proto_list' = Append(proto_list, p)
  /\ pcf' = [pcf EXCEPT ![p] = c]
  /\ todo' = wait_list
  /\ cur' = p
  /\ pc' = "take"
  /\ UNCHANGED <<wait_list, sessions, lid, rlist, scf, uc, req, hooked, ret>>

\* bfd_start with interface configuration c: empty structures, append to
\* bfd_proto_list, then bfd_take_requests walks the wait list.
bfd_start(p, c) ==
  /\ pc = "idle" /\ p \notin Running
  /\ proto_list' = Append(proto_list, p)
  /\ pcf' = [pcf EXCEPT ![p] = c]
  /\ todo' = wait_list
  /\ cur' = p
  /\ pc' = "take"
  /\ UNCHANGED <<wait_list, sessions, lid, rlist, scf, uc, req, hooked, ret>>

\* One node of bfd_take_requests (WALK_LIST_DELSAFE over the wait list):
\* bfd_add_request attaches it if p accepts it, and the request's hook runs.
TakeRequest ==
  /\ pc = "take"
  /\ \E r \in todo :
       /\ todo' = todo \ {r}
       /\ IF r \in wait_list /\ r \in Accepts[cur]
            THEN /\ bfd_add_request(cur, r, req[r].opts, rlist)
                 /\ req' = [req EXCEPT ![r].proto = cur]
                 /\ pc' = "hook" /\ hooked' = r /\ ret' = "take"
            ELSE UNCHANGED <<wait_list, sessions, lid, rlist, scf, uc, req, pc, hooked, ret>>
  /\ UNCHANGED <<proto_list, pcf, cur>>

\* The walk is over; bfd_start returns (the BFD thread is started).
TakeDone ==
  /\ pc = "take" /\ todo = {}
  /\ pc' = "idle" /\ cur' = None
  /\ UNCHANGED <<proto_list, wait_list, pcf, sessions, lid, rlist, scf, uc, req, todo,
                 hooked, ret>>

\* Mutant: p stays on bfd_proto_list while its requests are dropped.
mutant_shutdown_keeps_listed(p) ==
  /\ pc = "idle" /\ p \in Running
  /\ UNCHANGED proto_list
  /\ cur' = p
  /\ pc' = "drop"
  /\ UNCHANGED <<wait_list, pcf, sessions, lid, rlist, scf, uc, req, todo, hooked, ret>>

\* bfd_shutdown: unlink p from bfd_proto_list (the neighbours are stopped),
\* then bfd_drop_requests.
bfd_shutdown(p) ==
  /\ pc = "idle" /\ p \in Running
  /\ proto_list' = Remove(proto_list, p)
  /\ cur' = p
  /\ pc' = "drop"
  /\ UNCHANGED <<wait_list, pcf, sessions, lid, rlist, scf, uc, req, todo, hooked, ret>>

\* One step of bfd_drop_requests: the head request of some session of p is
\* resubmitted (another instance or the wait list) and its hook runs.
DropRequest ==
  /\ pc = "drop"
  /\ \E a \in sessions[cur] :
       LET r == Head(rlist[cur][a]) IN
       /\ rlist[cur][a] # <<>>
       /\ bfd_submit_request(r, req[r].opts, [rlist EXCEPT ![cur][a] = Tail(@)])
       /\ pc' = "hook" /\ hooked' = r /\ ret' = "drop"
  /\ UNCHANGED <<proto_list, pcf, cur, todo>>

\* No request is left: rfree(p->tpool) and the protocol pool free the
\* remaining (now empty) sessions and every interface binding.
DropDone ==
  /\ pc = "drop" /\ Attached(cur) = {}
  /\ sessions' = [sessions EXCEPT ![cur] = {}]
  /\ lid' = [lid EXCEPT ![cur] = [a \in Addr |-> 0]]
  /\ rlist' = [rlist EXCEPT ![cur] = [a \in Addr |-> <<>>]]
  /\ uc' = [uc EXCEPT ![cur] = [i \in Iface |-> 0]]
  /\ pc' = "idle" /\ cur' = None
  /\ UNCHANGED <<proto_list, wait_list, pcf, scf, req, todo, hooked, ret>>

\* The hook of the request just attached or parked: it keeps the request
\* or releases it (bfd_request_free from inside the walk).
RequestHook ==
  /\ pc = "hook"
  /\ \/ UNCHANGED <<wait_list, sessions, lid, rlist, scf, uc, req>>
     \/ ReleaseRequest(hooked)
  /\ pc' = ret /\ hooked' = None
  /\ UNCHANGED <<proto_list, pcf, cur, todo, ret>>

\* bfd_reconfigure with a new interface configuration c (the accept
\* options are unchanged, else the protocol restarts): bfd_reconfigure_iface
\* marks every binding changed when c differs, and bfd_reconfigure_session
\* re-merges each session of a changed binding.
bfd_reconfigure(p, c) ==
  /\ pc = "idle" /\ p \in Running
  /\ pcf' = [pcf EXCEPT ![p] = c]
  /\ scf' = IF ~bfd_reconfigure_iface(pcf[p], c) THEN scf
            ELSE [scf EXCEPT ![p] = [a \in Addr |->
                   IF a \in sessions[p] THEN ReconfiguredCf(p, a, c, req) ELSE @[a]]]
  /\ UNCHANGED <<proto_list, wait_list, sessions, lid, rlist, uc, req, pc, cur, todo,
                 hooked, ret>>

Next ==
  \/ \E r \in Req, o \in Opts : bfd_request_session(r, o) \/ bfd_update_request(r, o)
  \/ \E r \in Req : bfd_request_free(r)
  \/ \E p \in Proto, c \in Cfg : bfd_start(p, c) \/ bfd_reconfigure(p, c)
  \/ \E p \in Proto : bfd_shutdown(p)
  \/ TakeRequest \/ TakeDone \/ DropRequest \/ DropDone \/ RequestHook

\* Once started, bfd_start and bfd_shutdown run to completion on the main
\* thread: their walks are weakly fair.  Clients act when they will.
Walks == TakeRequest \/ TakeDone \/ DropRequest \/ DropDone \/ RequestHook

Spec == Init /\ [][Next]_vars
FairSpec == Spec /\ WF_vars(Walks)

-----------------------------------------------------------------------------
(* Properties.                                                             *)

TypeOK ==
  /\ proto_list \in Seq(Proto) /\ Len(proto_list) = Cardinality(Running)
  /\ wait_list \subseteq Req
  /\ pcf \in [Proto -> Cfg]
  /\ sessions \in [Proto -> SUBSET Addr]
  /\ lid \in [Proto -> [Addr -> IdSpace]]
  /\ rlist \in [Proto -> [Addr -> Seq(Req)]]
  /\ uc \in [Proto -> [Iface -> Nat]]
  /\ req \in [Req -> [alloc: BOOLEAN, proto: Proto \cup {None}, opts: Opts]]
  /\ pc \in {"idle", "take", "drop", "hook"}
  /\ cur \in Proto \cup {None} /\ todo \subseteq Req /\ hooked \in Req \cup {None}

\* bfd_get_iface and bfd_free_iface stay balanced: the reference count of
\* every interface binding of an instance is the number of its sessions
\* on that binding, through session creation in submission, take and
\* drop walks, removal by rfree (also from a hook inside a walk), and
\* shutdown.
IfaceRefCount ==
  \A p \in Proto, i \in Iface :
    uc[p][i] = Cardinality({a \in sessions[p] : IfaceOf[a] = i})

\* Every live request is in exactly one place: parked on bfd_wait_list,
\* or on the request list of its address's session in the instance that
\* owns it, which is running or is being shut down; freed requests are
\* nowhere (rem_node in bfd_request_free, bfd_add_request and
\* bfd_submit_request).
RequestPlacement ==
  \A r \in Req :
    /\ r \in wait_list <=> req[r].alloc /\ req[r].proto = None
    /\ \A p \in Proto, a \in Addr :
         r \in ToSet(rlist[p][a]) <=> req[r].alloc /\ req[r].proto = p /\ a = ReqAddr[r]
    /\ req[r].alloc /\ req[r].proto # None =>
         /\ ReqAddr[r] \in sessions[req[r].proto]
         /\ req[r].proto \in Running \cup {cur}

\* Spec 4.4: a request waits on the wait list only while no running
\* instance accepts it: bfd_start drains the list and bfd_shutdown resubmits
\* to the others.
NoAcceptedParked ==
  pc = "idle" => \A r \in wait_list, p \in Running : r \notin Accepts[p]

\* A session of a running instance always has a request: bfd_request_free
\* (also called from a hook inside a walk) removes a session whose last
\* request goes, so none is leaked.
NoEmptySession ==
  pc = "idle" => \A p \in Proto : \A a \in sessions[p] : rlist[p][a] # <<>>

\* Spec 4.4: a session's options are merged from the interface config and
\* the head-of-list request.  bfd_request_free does not re-merge when the
\* head request leaves.
OptionsFromHead ==
  pc = "idle" =>
    \A p \in Proto : \A a \in sessions[p] :
      scf[p][a] = bfd_merge_options(pcf[p], req[Head(rlist[p][a])].opts)

\* The id search of bfd_get_free_id, as the code walks it, returns the
\* nonzero unused id nearest above its random start, counting round the
\* top of the u32 space: checked against that definition for every start
\* and the ids in use by each instance in every reachable state.
FreeIdRef(start, used) ==
  LET free == IdSpace \ (used \cup {0}) IN
  CHOOSE id \in free : \A j \in free : (id - start) % IdMod <= (j - start) % IdMod

GetFreeIdCorrect ==
  \A p \in Proto, start \in IdSpace :
    Cardinality(sessions[p]) < IdMod - 1 =>
      bfd_get_free_id(start, UsedIds(p)) = FreeIdRef(start, UsedIds(p))

\* bfd_find_session_by_id demultiplexes received packets by loc_id: every
\* session of an instance has a nonzero loc_id no other session of it
\* has, through creation in submission and in the take walk, removal by
\* rfree (also from a hook inside a walk) and reuse of freed ids.
LocIdsUnique ==
  \A p \in Proto : \A a \in sessions[p] :
    /\ lid[p][a] # 0
    /\ \A b \in sessions[p] \ {a} : lid[p][a] # lid[p][b]

\* bfd_start and bfd_shutdown finish: the wait-list walk and the drop walk
\* terminate, whatever the hooks called inside them release.
WalksFinish == (pc # "idle") ~> (pc = "idle")

=============================================================================
