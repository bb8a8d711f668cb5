----------------------------- MODULE BfdNeighbor -----------------------------
(***************************************************************************)
(* The neighbour binder of proto/bfd/bfd.c: the static neighbours of a    *)
(* BFD protocol's configuration and the requests they hold.  A multihop   *)
(* neighbour requests a session at once; a single-hop one binds itself to *)
(* a sticky neighbor entry (nb->data) and holds a request while the entry *)
(* is reachable (scope > 0).  bfd_reconfigure_neighbors hands the request *)
(* and the binding of a neighbour kept by the new configuration over to   *)
(* its new structure and stops or starts the others.                      *)
(*                                                                         *)
(* All of it runs on the main thread, and the requests carry no hook, so  *)
(* each function (bfd_start, bfd_shutdown, bfd_reconfigure_neighbors, a   *)
(* neighbor notification) is one atomic step.  The walks are folds of    *)
(* the per-neighbour operators over the configured list.                  *)
(***************************************************************************)
EXTENDS Naturals, FiniteSets, Sequences, SequencesExt

CONSTANTS
  Key,          \* (addr, local, iface, multihop): what bfd_same_neighbor compares
  Multihop,     \* the keys of multihop neighbours
  Invalid,      \* single-hop keys whose address neigh_find rejects (NULL)
  Obj,          \* struct bfd_neighbor instances of the parsed configurations
  ObjKey,       \* ObjKey[o]: the key of neighbour o
  Configs,      \* configurations: each a neigh_list, a sequence of Obj
  InitCfg,      \* the configuration the protocol starts with
  ReqId,        \* request handles (the pool is the bound on live requests)
  NULL

ASSUME Multihop \subseteq Key /\ Invalid \subseteq Key \ Multihop /\ ObjKey \in [Obj -> Key]
ASSUME Configs \subseteq Seq(Obj) /\ InitCfg \in Configs /\ NULL \notin Obj \cup ReqId

VARIABLES
  running,  \* the protocol is up (between bfd_start and bfd_shutdown)
  cfg,      \* cf->neigh_list of the configuration in use
  st        \* neighbour fields req, active, neigh; per key nb->data and
            \* scope (the entry is reachable, scope > 0); the live requests

vars == <<running, cfg, st>>

Listed == ToSet(cfg)

\* The fields of freshly parsed neighbour structures (zeroed).
Fresh(s, objs) ==
  [s EXCEPT !.req = [o \in Obj |-> IF o \in objs THEN NULL ELSE @[o]],
            !.active = [o \in Obj |-> IF o \in objs THEN FALSE ELSE @[o]],
            !.neigh = [o \in Obj |-> IF o \in objs THEN NULL ELSE @[o]]]

-----------------------------------------------------------------------------
(* Per-neighbour operators of bfd.c on the record s.                       *)

\* bfd_request_session for neighbour o: a new request (NULL hook).
NewRequest(s, o) ==
  LET id == CHOOSE i \in ReqId \ s.alloc : TRUE
  IN [s EXCEPT !.alloc = @ \cup {id}, !.req[o] = id]

\* rfree(n->req); n->req = NULL (rfree of NULL does nothing).
FreeRequest(s, o) == [s EXCEPT !.alloc = @ \ {s.req[o]}, !.req[o] = NULL]

\* Mutant: a neighbour that became unreachable keeps its request.
mutant_neigh_notify_no_release(s, k) ==
  LET o == s.nbdata[k] IN
  IF o # NULL /\ s.scope[k] /\ s.req[o] = NULL THEN NewRequest(s, o) ELSE s

\* bfd_neigh_notify: the entry of k changed; request a session when it is
\* reachable and none is held, release the request when it is not.
bfd_neigh_notify(s, k) ==
  LET o == s.nbdata[k] IN
  CASE o = NULL -> s
    [] s.scope[k] /\ s.req[o] = NULL -> NewRequest(s, o)
    [] ~s.scope[k] /\ s.req[o] # NULL -> FreeRequest(s, o)
    [] OTHER -> s

\* bfd_start_neighbor: multihop requests at once; single-hop binds to the
\* entry of its key unless neigh_find finds none ("Invalid remote
\* address") or another neighbour holds it ("Duplicate neighbor"), and
\* requests if the entry is reachable.
bfd_start_neighbor(s, o) ==
  LET s1 == [s EXCEPT !.active[o] = TRUE]
      k  == ObjKey[o]
  IN
  CASE k \in Multihop -> NewRequest(s1, o)
    [] k \in Invalid -> s1
    [] s1.nbdata[k] # NULL -> s1
    [] OTHER -> bfd_neigh_notify([s1 EXCEPT !.neigh[o] = k, !.nbdata[k] = o], k)

\* Mutant: the request is released but n->req is not reset.
mutant_stop_neighbor_keeps_req(s, o) ==
  LET s1 == IF s.neigh[o] # NULL THEN [s EXCEPT !.nbdata[s.neigh[o]] = NULL] ELSE s
  IN [s1 EXCEPT !.neigh[o] = NULL, !.alloc = @ \ {s.req[o]}]

\* Mutant: the neighbor entry keeps pointing at the stopped neighbour.
mutant_stop_neighbor_keeps_data(s, o) == FreeRequest([s EXCEPT !.neigh[o] = NULL], o)

\* bfd_stop_neighbor: unbind from the entry and release the request.
bfd_stop_neighbor(s, o) ==
  LET s1 == IF s.neigh[o] # NULL THEN [s EXCEPT !.nbdata[s.neigh[o]] = NULL] ELSE s
  IN FreeRequest([s1 EXCEPT !.neigh[o] = NULL], o)

\* Mutant: the kept neighbour's binding is not handed over.
mutant_take_over_no_neigh(s, on, new) ==
  LET i == SelectInSeq(new, LAMBDA nn : ObjKey[nn] = ObjKey[on]) IN
  IF i = 0 THEN bfd_stop_neighbor(s, on)
  ELSE LET nn == new[i]
           s1 == [s EXCEPT !.req[nn] = s.req[on], !.active[nn] = TRUE]
       IN IF s.neigh[on] # NULL THEN [s1 EXCEPT !.nbdata[s.neigh[on]] = nn] ELSE s1

\* The inner walk of bfd_reconfigure_neighbors for old neighbour on: the
\* first new neighbour nn with the same key takes over on's binding and
\* request; with none, on is stopped.
TakeOver(s, on, new) ==
  LET i == SelectInSeq(new, LAMBDA nn : ObjKey[nn] = ObjKey[on]) IN
  IF i = 0 THEN bfd_stop_neighbor(s, on)
  ELSE LET nn == new[i]
           s1 == [s EXCEPT !.neigh[nn] = s.neigh[on], !.req[nn] = s.req[on],
                           !.active[nn] = TRUE]
       IN IF s.neigh[on] # NULL THEN [s1 EXCEPT !.nbdata[s.neigh[on]] = nn] ELSE s1

\* Mutant: an old neighbour the new configuration drops is not stopped.
mutant_reconfigure_neighbors_no_stop(s, old, new) ==
  LET keep(t, on) ==
        LET i == SelectInSeq(new, LAMBDA nn : ObjKey[nn] = ObjKey[on]) IN
        IF i = 0 THEN t ELSE TakeOver(t, on, new)
      s1 == FoldLeft(keep, s, old)
  IN FoldLeft(LAMBDA t, nn : IF t.active[nn] THEN t ELSE bfd_start_neighbor(t, nn), s1, new)

\* bfd_reconfigure_neighbors: take over or stop every old neighbour, then
\* start every new one nothing was handed to.
bfd_reconfigure_neighbors(s, old, new) ==
  LET s1 == FoldLeft(LAMBDA t, on : TakeOver(t, on, new), s, old)
  IN FoldLeft(LAMBDA t, nn : IF t.active[nn] THEN t ELSE bfd_start_neighbor(t, nn), s1, new)

-----------------------------------------------------------------------------

Init ==
  /\ running = FALSE
  /\ cfg = InitCfg
  /\ st = [req |-> [o \in Obj |-> NULL], active |-> [o \in Obj |-> FALSE],
           neigh |-> [o \in Obj |-> NULL], nbdata |-> [k \in Key |-> NULL],
           scope |-> [k \in Key |-> FALSE], alloc |-> {}]

\* bfd_start: bfd_start_neighbor for every configured neighbour.
bfd_start ==
  /\ ~running
  /\ Cardinality(ReqId) >= Cardinality(st.alloc) + Len(cfg)   \* the pool bound
  /\ running' = TRUE
  /\ st' = FoldLeft(bfd_start_neighbor, st, cfg)
  /\ UNCHANGED cfg

\* bfd_shutdown: bfd_stop_neighbor for every configured neighbour; the
\* protocol pool then frees every request still allocated from it, and
\* the sticky neighbor entries go with the protocol.
bfd_shutdown ==
  /\ running
  /\ running' = FALSE
  /\ st' = [FoldLeft(bfd_stop_neighbor, st, cfg) EXCEPT !.alloc = {},
                                                   !.nbdata = [k \in Key |-> NULL]]
  /\ UNCHANGED cfg

\* bfd_reconfigure (its neighbour part) to the configuration new.
bfd_reconfigure(new) ==
  /\ running /\ new # cfg
  /\ Cardinality(ReqId) >= Cardinality(st.alloc) + Len(new)   \* the pool bound
  /\ cfg' = new
  /\ st' = bfd_reconfigure_neighbors(Fresh(st, ToSet(new)), cfg, new)
  /\ UNCHANGED running

\* The neighbor cache reports a change of the entry of single-hop key k
\* (an invalid address has no entry);
\* the protocol's neigh_notify hook runs while it is up.  A step that
\* could need a request beyond the ReqId pool is not taken (the bound).
NeighChange(k) ==
  /\ k \notin Multihop \cup Invalid
  /\ Cardinality(ReqId) > Cardinality(st.alloc)
  /\ LET s1 == [st EXCEPT !.scope[k] = ~@]
     IN st' = IF running THEN bfd_neigh_notify(s1, k) ELSE s1
  /\ UNCHANGED <<running, cfg>>

Next ==
  \/ bfd_start \/ bfd_shutdown
  \/ \E c \in Configs : bfd_reconfigure(c)
  \/ \E k \in Key : NeighChange(k)

Spec == Init /\ [][Next]_vars

-----------------------------------------------------------------------------
(* Properties.                                                             *)

\* Types, and no configured neighbour holds a freed request (n->req is
\* reset whenever the request is released).
TypeOK ==
  /\ running \in BOOLEAN /\ cfg \in Configs
  /\ st.req \in [Obj -> ReqId \cup {NULL}] /\ st.active \in [Obj -> BOOLEAN]
  /\ st.neigh \in [Obj -> Key \cup {NULL}] /\ st.nbdata \in [Key -> Obj \cup {NULL}]
  /\ st.scope \in [Key -> BOOLEAN] /\ st.alloc \subseteq ReqId
  /\ \A o \in Listed : st.req[o] # NULL => st.req[o] \in st.alloc

\* Spec 4.7: the live requests are exactly those the configured neighbours
\* hold, one each: reconfiguration hands a kept neighbour's request over
\* and releases the dropped ones', so none is leaked.
RequestsHeld ==
  /\ st.alloc = {st.req[o] : o \in Listed} \ {NULL}
  /\ \A o1, o2 \in Listed : o1 # o2 /\ st.req[o1] # NULL => st.req[o1] # st.req[o2]

\* A neighbor entry points only at a configured neighbour bound to it
\* (nb->data and n->neigh agree), so bfd_neigh_notify never reaches a
\* neighbour structure of a configuration that has been replaced.
NeighLinks ==
  \A k \in Key :
    st.nbdata[k] # NULL => st.nbdata[k] \in Listed /\ st.neigh[st.nbdata[k]] = k

\* Spec 4.7: while the protocol is up, a multihop neighbour holds a request,
\* and a bound single-hop neighbour holds one exactly while its entry is
\* reachable.
RequestFollowsScope ==
  running =>
    \A o \in Listed :
      /\ ObjKey[o] \in Multihop => st.req[o] # NULL
      /\ st.neigh[o] # NULL => (st.req[o] # NULL <=> st.scope[st.neigh[o]])

\* While the protocol is up, every configured single-hop neighbour with a
\* valid address that no other configured neighbour shares a key with is
\* bound to its neighbor entry: bfd_start_neighbor binds it, and
\* bfd_reconfigure_neighbors hands the binding of a kept neighbour over,
\* because a neighbour it marks active is never started again and an
\* unbound one would never hold a request.
NeighBound ==
  running =>
    \A o \in Listed :
      /\ ObjKey[o] \notin Multihop \cup Invalid
      /\ \A o2 \in Listed \ {o} : ObjKey[o2] # ObjKey[o]
      => st.neigh[o] = ObjKey[o]

=============================================================================
