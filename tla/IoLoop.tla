------------------------------- MODULE IoLoop -------------------------------
(***************************************************************************)
(* The socket half of the main event loop, io_loop() in                   *)
(* sysdep/unix/io.c, with sk_free(), sk_insert(), sk_read() and sk_write().*)
(*                                                                         *)
(* Each iteration builds the pollfd array from sock_list (s->index is the *)
(* socket's slot, -1 if it polls for nothing), calls poll(), then walks    *)
(* sock_list twice: first the fast_rx reads and all writes (at most       *)
(* MAX_STEPS calls per socket), then, unless events are pending and fewer *)
(* than SHORT_LOOP_MAX short loops have run, the other reads and errors,  *)
(* at most MAX_RX_STEPS reads, resuming where the previous walk stopped   *)
(* (stored_sock).  Every hook a read, write or error calls may free any   *)
(* socket or open a new one; sk_free() moves current_sock and stored_sock *)
(* past a freed socket.                                                    *)
(*                                                                         *)
(* Sockets are model values drawn from a fixed pool; a freed socket's     *)
(* memory may come back for a new one.  Buffers and byte counts are       *)
(* abstracted to "data waiting" (ready) and "output queued" (tx_pend).    *)
(* Events and timers run at the top of the loop and are represented by   *)
(* their effect on sockets (TopHook) and by the events flag.  The async   *)
(* signal flags (async_config_flag, async_dump_flag, async_shutdown_flag)  *)
(* are set by signal handlers at any time; the loop tests them in order   *)
(* after building pfd, runs the first one set and clears it once the      *)
(* handler returns.                                                        *)
(***************************************************************************)
EXTENDS Integers, Sequences, SequencesExt, FiniteSets

CONSTANTS
  Sock,            \* the pool of socket structures
  Passive,         \* listening sockets (SK_TCP_PASSIVE): a read accepts
  FastRx,          \* sockets with s->fast_rx set
  InitSocks,       \* sock_list when the loop starts
  NULL,
  MAX_STEPS,
  MAX_RX_STEPS,
  SHORT_LOOP_MAX,
  MAX_CHURN,       \* model bound: sockets freed or opened in one behaviour
  AsyncOrder,      \* the async flags in the order io_loop tests them
  MAX_SIGNALS      \* model bound: signals delivered in one behaviour

ASSUME Passive \subseteq Sock /\ FastRx \subseteq Sock /\ NULL \notin Sock
ASSUME InitSocks \in Seq(Sock) /\ Len(InitSocks) = Cardinality(ToSet(InitSocks))
ASSUME {MAX_STEPS, MAX_RX_STEPS, SHORT_LOOP_MAX} \subseteq Nat \ {0}
ASSUME MAX_CHURN \in Nat /\ MAX_SIGNALS \in Nat
ASSUME Len(AsyncOrder) = Cardinality(ToSet(AsyncOrder))

VARIABLES
  sock_list,     \* the sockets in sock_list, in list order
  rx_hook,       \* rx_hook[s]: s->rx_hook is set
  tx_pend,       \* tx_pend[s]: s->tx_hook set and s->ttx != s->tpos
  index,         \* index[s]: s->index
  ready,         \* ready[s]: the kernel holds data (a connection) for s
  hup,           \* hup[s]: the peer closed or the socket failed
  pfd,           \* the pollfd array of the last poll(): slot i+1 is pfd[i]
  current_sock,
  stored_sock,
  pc,            \* "top", "async", "walk1", "rx1", "tx1", "walk2", "err2"
  steps,         \* steps / count of the inner loops
  short_loops,
  events,        \* global_event_list or global_work_list non-empty
  churn,         \* sockets freed or opened so far (bounded by MAX_CHURN)
  async_flag,    \* async_flag[f]: the flag of signal f is set
  handler,       \* the async handler running (pc = "async"), else NULL
  signals        \* signals delivered so far (bounded by MAX_SIGNALS)

vars == <<sock_list, rx_hook, tx_pend, index, ready, hup, pfd, current_sock,
          stored_sock, pc, steps, short_loops, events, churn,
          async_flag, handler, signals>>

Async == ToSet(AsyncOrder)

\* The indices in AsyncOrder of the flags that are set.
AsyncSet == {i \in 1..Len(AsyncOrder) : async_flag[AsyncOrder[i]]}

Revents == SUBSET {"in", "out", "err"}

Listed == ToSet(sock_list)

\* sk_next: the socket after s in sock_list, or NULL.
sk_next(s) ==
  LET i == CHOOSE i \in 1..Len(sock_list) : sock_list[i] = s
  IN IF i = Len(sock_list) THEN NULL ELSE sock_list[i + 1]

Head0 == IF sock_list = <<>> THEN NULL ELSE Head(sock_list)

\* pfd[s->index].revents
Rev(s) == pfd[index[s] + 1].revents

-----------------------------------------------------------------------------
(* What a hook may do to the socket list.  A hook is given the socket it  *)
(* runs for; it may free that socket or another, open a new socket, or    *)
(* leave the list alone.                                                   *)

\* Mutant: sk_free() forgets to move stored_sock.
mutant_sk_free_keeps_stored(o, rx0, tx0, rdy) ==
  /\ current_sock' = IF current_sock = o THEN sk_next(o) ELSE current_sock
  /\ stored_sock' = stored_sock
  /\ sock_list' = Remove(sock_list, o)
  /\ rx_hook' = [rx0 EXCEPT ![o] = FALSE]
  /\ tx_pend' = [tx0 EXCEPT ![o] = FALSE]
  /\ ready' = [rdy EXCEPT ![o] = FALSE]
  /\ hup' = [hup EXCEPT ![o] = FALSE]
  /\ index' = [index EXCEPT ![o] = 0]
  /\ churn < MAX_CHURN /\ churn' = churn + 1

\* sk_free(), from rfree() of the socket o: advance the walk cursors past
\* o and unlink it (the structure is freed: its fields are reset to what
\* ralloc() gives a reuse).  rx0, tx0 and rdy are rx_hook, tx_pend and ready as
\* the hook's caller has left them.
sk_free(o, rx0, tx0, rdy) ==
  /\ current_sock' = IF current_sock = o THEN sk_next(o) ELSE current_sock
  /\ stored_sock' = IF stored_sock = o THEN sk_next(o) ELSE stored_sock
  /\ sock_list' = Remove(sock_list, o)
  /\ rx_hook' = [rx0 EXCEPT ![o] = FALSE]
  /\ tx_pend' = [tx0 EXCEPT ![o] = FALSE]
  /\ ready' = [rdy EXCEPT ![o] = FALSE]
  /\ hup' = [hup EXCEPT ![o] = FALSE]
  /\ index' = [index EXCEPT ![o] = 0]
  /\ churn < MAX_CHURN /\ churn' = churn + 1

\* sk_new() + sk_open() -> sk_insert(): a structure t from the pool, zeroed
\* by ralloc() (so index 0), appended to sock_list.
sk_open(t, t_tx, rx0, tx0, rdy) ==
  /\ sock_list' = Append(sock_list, t)
  /\ index' = [index EXCEPT ![t] = 0]
  /\ rx_hook' = [rx0 EXCEPT ![t] = TRUE]
  /\ tx_pend' = [tx0 EXCEPT ![t] = t_tx]
  /\ ready' = rdy
  /\ churn < MAX_CHURN /\ churn' = churn + 1
  /\ UNCHANGED <<hup, current_sock, stored_sock>>

\* One hook call for socket s that leaves s->rx_hook = r and the queued
\* output of s as tx, with the kernel's data as rdy; the hook may also
\* free one socket (s included) or open one.
Hook(s, r, tx, rdy) ==
  LET rx0 == [rx_hook EXCEPT ![s] = r]
      tx0 == [tx_pend EXCEPT ![s] = tx]
  IN
  \/ /\ rx_hook' = rx0 /\ tx_pend' = tx0 /\ ready' = rdy
     /\ UNCHANGED <<sock_list, index, hup, current_sock, stored_sock, churn>>
  \/ \E o \in Listed : sk_free(o, rx0, tx0, rdy)
  \/ \E t \in Sock \ Listed, t_tx \in BOOLEAN : sk_open(t, t_tx, rx0, tx0, rdy)

\* Back to the top of the loop.  pfd, the indices and the step counter are
\* rebuilt before they are read again, so their stale values are cleared.
ToTop ==
  /\ pc' = "top"
  /\ pfd' = <<>>
  /\ index' = [s \in Sock |-> 0]
  /\ steps' = 0

Quiet == UNCHANGED <<sock_list, rx_hook, tx_pend, index, ready, hup,
                     current_sock, stored_sock, churn>>

-----------------------------------------------------------------------------
(* sk_read / sk_write / sk_err for the socket s, with the revents rev the *)
(* walk hands over; e is the return value.                                 *)

\* sk_passive_connected(): accept() a queued connection, take a socket t
\* from the pool (zeroed by ralloc()), sk_insert() it and call the
\* listener's rx_hook on it; sk_setup() failing frees t before the insert.
\* A connection that finds the pool empty stays queued (the pool bound);
\* what the listener's hook does besides keeping the new socket is left out.
sk_passive_connected(s, e) ==
  LET taken == [ready EXCEPT ![s] = FALSE] IN
  IF ready[s] /\ Sock \ Listed # {}
    THEN /\ e = 1
         /\ \/ \E t \in Sock \ Listed : sk_open(t, FALSE, rx_hook, tx_pend, taken)
            \/ ready' = taken /\ UNCHANGED <<sock_list, rx_hook, tx_pend, index,
                                             hup, current_sock, stored_sock, churn>>
    ELSE e = 0 /\ Quiet

\* sk_read() / sk_read_noflush(): a listening socket accepts; on a stream
\* socket data goes to call_rx_hook(); a read of 0 bytes, or EAGAIN without
\* POLLIN, calls err_hook; EAGAIN with POLLIN does nothing.
sk_read(s, rev, e) ==
  IF s \in Passive
  THEN sk_passive_connected(s, e)
  ELSE IF ready[s]
         THEN e = 1 /\ \E tx \in BOOLEAN : Hook(s, rx_hook[s], tx, [ready EXCEPT ![s] = FALSE])
       ELSE IF hup[s] \/ "in" \notin rev
         THEN e = 0 /\ Hook(s, rx_hook[s], tx_pend[s], ready)
       ELSE e = 0 /\ Quiet

\* sk_maybe_write(): the results it can return for s: 1 when the queued
\* output is flushed, 0 on EAGAIN (kept), -1 on a write error, which only
\* a peer that has gone produces (the buffer is reset and err_hook runs).
sk_maybe_write(s) == {1, 0} \cup (IF hup[s] THEN {-1} ELSE {})

\* sk_write(): flush the queued output; after a flush call tx_hook, which
\* may queue more.
sk_write(s, e) ==
  IF ~tx_pend[s] THEN e = 0 /\ Quiet
  ELSE \E r \in sk_maybe_write(s) :
         CASE r = 1  -> e = 1 /\ \E tx \in BOOLEAN : Hook(s, rx_hook[s], tx, ready)
           [] r = 0  -> e = 0 /\ Quiet
           [] r = -1 -> e = 0 /\ Hook(s, rx_hook[s], FALSE, ready)

\* sk_err(): the socket's err_hook.
sk_err(s) == Hook(s, rx_hook[s], tx_pend[s], ready)

-----------------------------------------------------------------------------

Init ==
  /\ sock_list = InitSocks
  /\ rx_hook = [s \in Sock |-> s \in ToSet(InitSocks)]
  /\ tx_pend = [s \in Sock |-> FALSE]
  /\ index = [s \in Sock |-> 0]
  /\ ready = [s \in Sock |-> FALSE]
  /\ hup = [s \in Sock |-> FALSE]
  /\ pfd = <<>>
  /\ current_sock = NULL
  /\ stored_sock = NULL
  /\ pc = "top"
  /\ steps = 0
  /\ short_loops = 0
  /\ events = FALSE
  /\ churn = 0
  /\ async_flag = [f \in Async |-> FALSE]
  /\ handler = NULL
  /\ signals = 0

\* Top of the loop: an event or timer hook (ev_run_list, timers_fire, the
\* async hooks) acts for the socket s: it may free a socket or open one.
TopHook(s) ==
  /\ pc = "top" /\ s \in Listed
  /\ Hook(s, rx_hook[s], tx_pend[s], ready)
  /\ UNCHANGED <<pfd, pc, steps, short_loops, events>>

\* A signal handler of the daemon sets the flag of signal f (SIGHUP,
\* SIGUSR1, SIGTERM).  It may run at any point of the loop, but only the
\* flag tests at the top of the loop read the flags and the signal
\* changes nothing else, so a signal during a walk is the same as one at
\* the next top of the loop: it is delivered at the top or while a
\* handler runs.  A signal whose flag is still set changes nothing and
\* is left out.
Signal(f) ==
  /\ pc \in {"top", "async"} /\ ~async_flag[f]
  /\ signals < MAX_SIGNALS /\ signals' = signals + 1
  /\ async_flag' = [async_flag EXCEPT ![f] = TRUE]
  /\ UNCHANGED <<sock_list, rx_hook, tx_pend, index, ready, hup, pfd,
                 current_sock, stored_sock, pc, steps, short_loops, events,
                 churn, handler>>

\* After pfd is built, the first flag set in AsyncOrder starts its
\* handler (async_config(), async_dump() or async_shutdown()); pfd is
\* dropped by the "continue" that follows, so it is not built here.
AsyncStart ==
  /\ pc = "top" /\ AsyncSet # {}
  /\ handler' = AsyncOrder[Min(AsyncSet)]
  /\ pc' = "async"
  /\ UNCHANGED <<sock_list, rx_hook, tx_pend, index, ready, hup, pfd,
                 current_sock, stored_sock, steps, short_loops, events,
                 churn, async_flag, signals>>

\* Mutant: the loop resets every async flag after a handler.
mutant_async_done_clears_all ==
  /\ pc = "async" /\ Quiet
  /\ async_flag' = [f \in Async |-> FALSE]
  /\ handler' = NULL /\ pc' = "top"
  /\ UNCHANGED <<pfd, steps, short_loops, events, signals>>

\* The handler returns, having reconfigured, dumped or begun the shutdown;
\* then its flag is cleared and the loop starts over ("continue").  What
\* the handler does to sockets is left to TopHook, which may act at the
\* top of the loop the step after: no walk runs in between.
AsyncDone ==
  /\ pc = "async" /\ Quiet
  /\ async_flag' = [async_flag EXCEPT ![handler] = FALSE]
  /\ handler' = NULL /\ pc' = "top"
  /\ UNCHANGED <<pfd, steps, short_loops, events, signals>>

\* Build pfd from sock_list (setting every s->index) and poll().  While
\* the loop was away, data or connections may have arrived (arrive) and
\* peers may have gone (gone).  A socket with queued output is reported
\* writable (a full send buffer shows up as EAGAIN in sk_write).  When no
\* slot reports anything the loop starts over.
io_loop_poll ==
  /\ pc = "top" /\ AsyncSet = {}
  /\ \E ev \in BOOLEAN, arrive \in SUBSET Listed,
       gone \in SUBSET (Listed \ Passive) :
       LET rdy == [s \in Sock |-> ready[s] \/ s \in arrive]
           hp  == [s \in Sock |-> hup[s] \/ s \in gone]
           polled == SelectSeq(sock_list, LAMBDA s : rx_hook[s] \/ tx_pend[s])
           slot(s) == [fd |-> s,
                       revents |-> {x \in {"in"} : rx_hook[s] /\ (rdy[s] \/ hp[s])}
                                   \cup {x \in {"out"} : tx_pend[s]}
                                   \cup {x \in {"err"} : hp[s]}]
           new == [i \in 1..Len(polled) |-> slot(polled[i])]
       IN /\ events' = ev
          /\ ready' = rdy
          /\ hup' = hp
          /\ IF \E i \in 1..Len(new) : new[i].revents # {}
               THEN /\ pfd' = new
                    /\ index' = [s \in Sock |->
                                   IF s \in ToSet(polled)
                                     THEN (CHOOSE i \in 1..Len(polled) : polled[i] = s) - 1
                                   ELSE IF s \in Listed THEN -1 ELSE 0]
                    /\ pc' = "walk1" /\ current_sock' = Head(sock_list)
                    /\ UNCHANGED steps
               ELSE ToTop /\ UNCHANGED current_sock
  /\ UNCHANGED <<sock_list, rx_hook, tx_pend, stored_sock, short_loops, churn>>

\* First walk: choose what to do with current_sock.
Walk1Visit ==
  LET s == current_sock IN
  /\ pc = "walk1" /\ s # NULL
  /\ CASE index[s] = -1 -> pc' = "next1" /\ UNCHANGED steps
       [] s \in FastRx /\ "in" \in Rev(s) /\ rx_hook[s] ->
            pc' = "rx1" /\ steps' = MAX_STEPS
       [] "out" \in Rev(s) -> pc' = "tx1" /\ steps' = MAX_STEPS
       [] OTHER -> pc' = "next1" /\ UNCHANGED steps
  /\ UNCHANGED <<sock_list, rx_hook, tx_pend, index, ready, hup, pfd,
                 current_sock, stored_sock, short_loops, events, churn>>

\* One sk_read() of the fast_rx loop.
Walk1Read ==
  LET s == current_sock IN
  /\ pc = "rx1"
  /\ \E e \in {0, 1} :
       /\ sk_read(s, Rev(s), e)
       /\ CASE current_sock' # s -> pc' = "walk1" /\ steps' = steps - 1
            [] e = 1 /\ rx_hook'[s] /\ steps > 1 -> pc' = "rx1" /\ steps' = steps - 1
            [] "out" \in Rev(s) -> pc' = "tx1" /\ steps' = MAX_STEPS
            [] OTHER -> pc' = "next1" /\ steps' = steps - 1
  /\ UNCHANGED <<pfd, short_loops, events>>

\* One sk_write() of the write loop.
Walk1Write ==
  LET s == current_sock IN
  /\ pc = "tx1"
  /\ \E e \in {0, 1} :
       /\ sk_write(s, e)
       /\ steps' = steps - 1
       /\ pc' = CASE current_sock' # s -> "walk1"
                   [] e = 1 /\ steps > 1 -> "tx1"
                   [] OTHER -> "next1"
  /\ UNCHANGED <<pfd, short_loops, events>>

\* current_sock = sk_next(s) at the end of a socket's turn.
WalkNext ==
  /\ pc \in {"next1", "next2"}
  /\ current_sock' = sk_next(current_sock)
  /\ pc' = IF pc = "next1" THEN "walk1" ELSE "walk2"
  /\ UNCHANGED <<sock_list, rx_hook, tx_pend, index, ready, hup, pfd,
                 stored_sock, steps, short_loops, events, churn>>

\* Mutant: the second walk always starts at the head of sock_list.
mutant_walk1_end_from_head ==
  /\ pc = "walk1" /\ current_sock = NULL
  /\ IF events /\ short_loops + 1 < SHORT_LOOP_MAX
       THEN /\ short_loops' = short_loops + 1
            /\ ToTop
            /\ UNCHANGED current_sock
       ELSE /\ short_loops' = 0
            /\ steps' = 0
            /\ current_sock' = Head0
            /\ pc' = "walk2"
            /\ UNCHANGED <<index, pfd>>
  /\ UNCHANGED <<sock_list, rx_hook, tx_pend, ready, hup, stored_sock, events, churn>>

\* End of the first walk: loop again while events are pending (at most
\* SHORT_LOOP_MAX times), else start the second walk at stored_sock.
Walk1End ==
  /\ pc = "walk1" /\ current_sock = NULL
  /\ IF events /\ short_loops + 1 < SHORT_LOOP_MAX
       THEN /\ short_loops' = short_loops + 1
            /\ ToTop
            /\ UNCHANGED current_sock
       ELSE /\ short_loops' = 0
            /\ steps' = 0
            /\ current_sock' = IF stored_sock = NULL THEN Head0 ELSE stored_sock
            /\ pc' = "walk2"
            /\ UNCHANGED <<index, pfd>>
  /\ UNCHANGED <<sock_list, rx_hook, tx_pend, ready, hup, stored_sock, events, churn>>

\* Second walk: stop at the end of the list or after MAX_RX_STEPS reads,
\* remembering where to resume.
Walk2Stop ==
  /\ pc = "walk2"
  /\ current_sock = NULL \/ steps >= MAX_RX_STEPS
  /\ stored_sock' = current_sock
  /\ ToTop
  /\ UNCHANGED <<sock_list, rx_hook, tx_pend, ready, hup, current_sock,
                 short_loops, events, churn>>

\* Second walk, a socket with nothing to read here.
Walk2Skip ==
  LET s == current_sock IN
  /\ pc = "walk2" /\ s # NULL /\ steps < MAX_RX_STEPS
  /\ \/ index[s] = -1 /\ pc' = "next2"
     \/ /\ index[s] # -1
        /\ ~(s \notin FastRx /\ "in" \in Rev(s) /\ rx_hook[s])
        /\ pc' = "err2"
  /\ UNCHANGED <<sock_list, rx_hook, tx_pend, index, ready, hup, pfd,
                 current_sock, stored_sock, steps, short_loops, events, churn>>

\* Mutant: the read is not followed by the "s != current_sock" test.
mutant_walk2_read_no_recheck ==
  LET s == current_sock IN
  /\ pc = "walk2" /\ s # NULL /\ steps < MAX_RX_STEPS
  /\ index[s] # -1 /\ s \notin FastRx /\ "in" \in Rev(s) /\ rx_hook[s]
  /\ steps' = steps + 1
  /\ \E e \in {0, 1} : sk_read(s, Rev(s), e)
  /\ pc' = "err2"
  /\ UNCHANGED <<pfd, short_loops, events>>

\* Second walk, a read of a socket without fast_rx.
Walk2Read ==
  LET s == current_sock IN
  /\ pc = "walk2" /\ s # NULL /\ steps < MAX_RX_STEPS
  /\ index[s] # -1 /\ s \notin FastRx /\ "in" \in Rev(s) /\ rx_hook[s]
  /\ steps' = steps + 1
  /\ \E e \in {0, 1} : sk_read(s, Rev(s), e)
  /\ pc' = IF current_sock' # s THEN "walk2" ELSE "err2"
  /\ UNCHANGED <<pfd, short_loops, events>>

\* Second walk, POLLHUP / POLLERR of the socket: sk_err().
Walk2Err ==
  LET s == current_sock IN
  /\ pc = "err2"
  /\ IF "err" \in Rev(s)
       THEN /\ sk_err(s)
            /\ pc' = IF current_sock' # s THEN "walk2" ELSE "next2"
       ELSE pc' = "next2" /\ Quiet
  /\ UNCHANGED <<pfd, steps, short_loops, events>>

SocketStep ==
  \/ io_loop_poll \/ Walk1Visit \/ Walk1Read \/ Walk1Write \/ WalkNext
  \/ Walk1End \/ Walk2Stop \/ Walk2Skip \/ Walk2Read \/ Walk2Err

MainStep ==
  \/ SocketStep /\ UNCHANGED <<async_flag, handler, signals>>
  \/ AsyncStart \/ AsyncDone

Next ==
  \/ MainStep
  \/ \E s \in Sock : TopHook(s) /\ UNCHANGED <<async_flag, handler, signals>>
  \/ \E f \in Async : Signal(f)

\* The main thread runs the loop without end; the hooks at the top of the
\* loop and the signals act when they will.
Spec == Init /\ [][Next]_vars
FairSpec == Spec /\ WF_vars(MainStep)

-----------------------------------------------------------------------------
(* Properties.                                                             *)

TypeOK ==
  /\ sock_list \in Seq(Sock) /\ Len(sock_list) = Cardinality(Listed)
  /\ rx_hook \in [Sock -> BOOLEAN] /\ tx_pend \in [Sock -> BOOLEAN]
  /\ ready \in [Sock -> BOOLEAN] /\ hup \in [Sock -> BOOLEAN]
  /\ pfd \in Seq([fd: Sock, revents: Revents])
  /\ pc \notin {"top", "async", "walk1", "walk2"} => current_sock \in Listed
  /\ \A s \in Listed : pc \notin {"top", "async"} => index[s] \in -1..Len(pfd) - 1
  /\ steps \in 0..MAX_STEPS /\ short_loops \in 0..SHORT_LOOP_MAX
  /\ events \in BOOLEAN /\ churn \in 0..MAX_CHURN
  /\ async_flag \in [Async -> BOOLEAN] /\ signals \in 0..MAX_SIGNALS
  /\ handler \in Async \cup {NULL} /\ (pc = "async" <=> handler # NULL)

\* The walk cursors never dangle: whatever the hooks called from the walk
\* or from the top of the loop free, current_sock and stored_sock are NULL
\* or sockets still on sock_list (sk_free advances both past the socket it
\* frees).
WalkCursorsLive ==
  /\ current_sock \in Listed \cup {NULL}
  /\ stored_sock \in Listed \cup {NULL}

\* sk_err() (and so the socket's err_hook) is called only for a socket
\* whose peer closed or which failed: the walk reads each socket's
\* revents from its own pfd slot.
ErrOnlyOnHangup ==
  pc = "err2" /\ "err" \in Rev(current_sock) => hup[current_sock]

\* Every socket without fast_rx that has data and a receive hook is read
\* eventually: the second walk is skipped at most SHORT_LOOP_MAX - 1 times
\* in a row and resumes at stored_sock, so MAX_RX_STEPS cannot starve the
\* sockets at the end of the list.
ReadEventually ==
  \A s \in Sock \ (Passive \cup FastRx) :
    (s \in Listed /\ rx_hook[s] /\ ready[s]) ~> (~ready[s] \/ s \notin Listed)

\* Every async flag that is set is eventually acted on by its handler, as
\* the comment above the flag tests in io_loop promises ("it gets caught
\* on the next timer tick"): the loop returns to the tests after every
\* walk, a handler clears only its own flag, and the first flag in the
\* test order cannot starve the others while signals are finite.
AsyncHandled ==
  \A f \in Async : async_flag[f] ~> handler = f

=============================================================================
