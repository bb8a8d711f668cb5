# TLA+ models of BIRD's BFD protocol and main I/O loop

These modules model two parts of this repository:

- `src/proto/bfd/bfd.c`, the BFD protocol. This is the session state machine and its timers and poll sequence. It also covers how session state changes reach client requests, from the BFD thread to the main thread.
- `src/sysdep/unix/io.c`, the main event loop `io_loop` and the socket calls it makes: `sk_read`, `sk_write`, `sk_err` and `sk_free`.

`BfdSession` and `BfdNotify` use the TLC model checker to explore every interleaving of the two threads, every loss, duplication and delay of packets, and every timer expiry. `BfdProto` explores protocol instances starting, stopping and reconfiguring while clients submit and release requests. `BfdNeighbor` explores static neighbours as configurations change and neighbor entries come and go. `IoLoop` explores every hook that frees or opens sockets while the loop walks its socket list, and signals that set the async flags while the loop runs.

## The system and how its parts interact

BFD runs in its own thread (`p->loop`):

- It owns the sessions, the UDP sockets, and the TX and hold timers of every session.
- Packets arrive in `bfd_rx_hook`, which is in `packets.c` and is not part of these sources. It then calls `bfd_session_process_ctl`.
- Timers call `bfd_tx_timer_hook` and `bfd_hold_timer_hook`. The hold timer goes through `bfd_session_timeout`.
- A state change goes through `bfd_session_update_state`. It publishes `loc_state` and `loc_diag` under the session spinlock, links the session onto `notify_list` if it is not already linked (`NODE_VALID`), and then writes a byte into a pipe (`bfd_notify_kick`).

Clients such as BGP, OSPF and static routes live on the main thread:

- They call `bfd_request_session`, which creates or finds a session and attaches a request.
- They release the request with `rfree` (`bfd_request_free`). That removes the session when its last request goes, unless the notifier is working on it (`notify_running`).
- The main thread's `io_loop` polls the pipe's read end. `bfd_notify_hook` drains the pipe, splices `notify_list` to a local list, and for each session takes a locked snapshot and calls `bfd_request_notify` on every request. A request hook may release its own request.
- Removing a session needs `birdloop_enter` on the BFD loop, which waits for the BFD thread to be between handlers.
- Several BFD protocol instances may run. `bfd_submit_request` gives a request to the first instance on `bfd_proto_list` whose accept filters take it, or parks it on `bfd_wait_list`. `bfd_start` takes the parked requests it accepts (`bfd_take_requests`); `bfd_shutdown` unlinks the instance and resubmits its requests (`bfd_drop_requests`). Sessions of one interface share a `bfd_iface` with a reference count.
- A protocol's static neighbours are clients too. A multihop neighbour requests a session at once. A single-hop one binds to a sticky neighbor entry (`nb->data`) and holds a request while the entry is reachable (`bfd_neigh_notify`). `bfd_reconfigure_neighbors` hands a kept neighbour's binding and request to its structure in the new configuration.

The main `io_loop` works in these steps:

1. It builds a `pollfd` array from `sock_list` and records each socket's slot in `s->index`.
2. It calls `poll()`.
3. A first walk reads fast_rx sockets and writes queued output, at most `MAX_STEPS` times per socket.
4. A second walk reads the other sockets and handles errors. It reads at most `MAX_RX_STEPS` sockets per loop and resumes at `stored_sock` next time.
5. While events are pending, the second walk is skipped, but for at most `SHORT_LOOP_MAX - 1` loops in a row.

Any hook can free any socket (`sk_free` moves `current_sock` and `stored_sock` past it) or open a new one (`sk_insert`).

## Modules

| module | models | state | actions |
|---|---|---|---|
| `BfdConst` | the state and diagnostic codes; the transition switch of `bfd_session_process_ctl` (bfd.c:326-349) as `NextState` | – | – |
| `BfdSession` | one session on each of two BIRD instances, and the UDP paths between them | `sess[n]`: the session fields the logic reads (states, `rem_id`, the interval pairs, the peer's `rem_min_tx_int`/`rem_min_rx_int`, `poll_active`/`poll_scheduled`, passive, config, whether the TX and hold timers are armed); `msgs[n]`: packets in flight (state, Poll/Final, and the advertised intervals) | `bfd_tx_timer_hook`, `bfd_hold_timer_hook`, `bfd_rx_hook`, `bfd_reconfigure_session`, `LosePacket` |
| `BfdSessionRFC` | what a pair of sessions promises, after RFC 5880 6.2 and 6.8.6: the handshake state machine of each end, driven by the states the peer has advertised and by detection timeouts (written from the RFC, not from the code) | `state`, `diag`, `adv` (the states in flight towards each end) | `Advertise`, `Receive`, `Drop`, `DetectionTimeout` |
| `BfdNotify` | the BFD thread's state publication and the main thread's notification and request handling | `ses`, `sessions`, `notify_list`, `tmp_list` (the notifier's local list), `pipe`, `req`, the program counters of the two threads, and the notifier's snapshot and remaining requests (`todo`) | `SessionEvent` and `bfd_session_update_state`, `bfd_notify_kick`, `bfd_request_session`, `bfd_request_free`, and the five steps of `bfd_notify_hook` (`NotifyDrain`, `NotifySplice`, `NotifyTake`, `NotifyRequest`, `NotifyDone`) |
| `BfdProto` | the request broker across protocol instances, the wait list, the start and shutdown walks, interface reference counts and the option merge | `proto_list`, `wait_list`, `pcf` (interface configuration), `sessions`, `lid` (each session's `loc_id`), `rlist` (request list of each session), `scf` (merged options), `uc` (reference counts), `req`, and the walk's `pc`, `cur`, `todo`, `hooked`, `ret` | `bfd_request_session`, `bfd_request_free`, `bfd_update_request`, `bfd_start`, `TakeRequest`, `TakeDone`, `bfd_shutdown`, `DropRequest`, `DropDone`, `RequestHook`, `bfd_reconfigure` |
| `BfdNeighbor` | the static neighbours of one instance | `running`, `cfg` (the neighbour list in use), `st`: each neighbour's `req`, `active`, `neigh`, each key's `nbdata` and reachability, and the live requests | `bfd_start`, `bfd_shutdown`, `bfd_reconfigure`, `NeighChange` (the neighbor cache's notification) |
| `IoLoop` | `io_loop` with `sk_read`, `sk_passive_connected`, `sk_write`, `sk_err`, `sk_free` and `sk_insert` | `sock_list`, per-socket `rx_hook`, queued output, `index`, kernel readiness and hang-up, `pfd`, `current_sock`, `stored_sock`, the loop position `pc`, `steps`, `short_loops`, `events`, the async flags `async_flag` and the running `handler` | `TopHook`, `Signal` (the environment), `AsyncStart` and `AsyncDone` (the flag tests, the handler call, the clear and the `continue`), `io_loop_poll`, `Walk1Visit`, `Walk1Read`, `Walk1Write`, `WalkNext`, `Walk1End`, `Walk2Stop`, `Walk2Skip`, `Walk2Read`, `Walk2Err` |

Modelling choices:

- **Sub-functions are state operators.** In `BfdSession`, each session sub-function (`bfd_session_set_min_tx`, `bfd_session_terminate_poll` and so on) is an operator from session record to session record, named after the C function. The actions compose them in the order the C code calls them.
- **Timers.** An armed timer can fire at any time. An early hold-timer expiry stands for lost or delayed packets.
- **The packet codec is spec-modelled.** `packets.c` is not in the sources, so `bfd_rx_hook`, `Accepted` and `bfd_send_ctl` are modelled from spec.md 4.2 and marked `spec_modelled` in `PROJECT.json`.
- **Thread steps in `BfdNotify`.** Each lock region or hook call is one step. The BFD thread's handler splits into three steps:
  - the unlocked write of `rem_state` (`SessionEvent`);
  - the locked publish and link (`bfd_session_update_state`);
  - the kick.
- **Birdloop entry.** `birdloop_enter` is modelled as a guard that the BFD thread is idle.
- **The `io_loop` walk.** Each iteration of the walk is one step, with the C `goto next`/`next2` as `pc` values. Hooks are one abstract `Hook`. A hook may keep the socket's receive hook, queue output, free any listed socket, or open a free one.
- **Walks inside a function.** In `BfdProto` the walks of `bfd_start` and `bfd_shutdown` are one step per request, because a request hook runs inside them and may release its own request (`RequestHook`). In `BfdNeighbor` nothing runs inside the walks, so each function is one step that folds the per-neighbour operator over the list (`FoldLeft`).
- **Refinement.** `BfdSession` defines `RFC == INSTANCE BfdSessionRFC WITH state <- [n |-> sess[n].loc_state], diag <- [n |-> sess[n].loc_diag], adv <- [n |-> {pkt.state : pkt \in msgs[n]}]`. Every step of the code is then a step of the RFC handshake or leaves the mapped state alone, which `ImplementsRFC == RFC!Spec` checks. Intervals, poll bits, timers and discriminators are invisible to the abstract spec.
- **Session ids.** `bfd_get_free_id` is a `RECURSIVE` operator over an `IdBits`-bit id space, with wrap-around by `% 2^IdBits`. The random start (`random_u32`) is a `\E` over the whole space. An `ASSUME` says an instance has fewer sessions than nonzero ids, so the search ends, as it does with 2^32 ids.
- **Neighbours.** A neighbour is identified by its key, the fields `bfd_same_neighbor` compares. Each configuration is a sequence of neighbour structures, and a newly parsed configuration has its structures zeroed.
- **New sockets.** A socket from `sk_new` is zeroed by `ralloc`, so its `index` is 0.

`PROJECT.json` "map" gives the C lines behind every definition.

## Runs

| run | checks | result |
|---|---|---|
| `session_safety` (MC_BfdSession.cfg) | `TypeOK` (poll bits consistent), `IntervalOrder`, `PassiveSilent`, `PostponedUntilFinal`, `ImplementsRFC` (refinement of `BfdSessionRFC`) | pass, about 720k states |
| `session_stale_final` (MC_BfdSession_poll.cfg) | `ChangeSeenByPeer` | violation: any Final ends the active poll (bfd.c:315). With no packet lost, a Final answering a Poll sent before a reconfiguration commits the newly postponed `req_min_rx_int` while the peer still holds the old value, so a false detection timeout can follow |
| `stash_lost_on_timeout` | `PendingChangeIsPolled` | violation: after a timeout a stashed interval has no poll left to commit it (bfd.c:372) |
| `notify_safety` (MC_BfdNotify.cfg) | `TypeOK`, `NotifierSessionLive`, `DeliveredWhenQuiet`, and `DeliveryEventually` under the fairness below | pass |
| `notify_diag` | `DeliveredWithDiag` | violation: the state is compared and the diagnostic is not; a Down → Down change with a new diagnostic is never delivered (bfd.c:686) |
| `notify_down_flag` | `DownFlagPerSpec` | violation: `down` uses the `rem_state` read when the notifier runs, not the one at the transition (bfd.c:987, 692) |
| `proto_safety` (MC_BfdProto.cfg) | `TypeOK`, `IfaceRefCount`, `RequestPlacement` (each request in exactly one place), `NoAcceptedParked`, `NoEmptySession`, `LocIdsUnique`, `GetFreeIdCorrect` (the code's search against a reference definition), and `WalksFinish` under fairness | pass, about 370k states |
| `proto_options_head` | `OptionsFromHead` | violation: releasing the head request leaves its merged options in force (bfd.c:826) |
| `neighbor_safety` (MC_BfdNeighbor.cfg) | `TypeOK`, `RequestsHeld` (no request leaked or shared), `NeighLinks` (`nb->data` and `n->neigh` agree), `RequestFollowsScope`, `NeighBound` (every valid single-hop neighbour that no other configured neighbour duplicates is bound to its entry, also after a reconfiguration hands it over) | pass |
| `neighbor_duplicate` | `NeighLinks` | violation: with a neighbour listed twice, the reconfiguration hand-over overwrites the first with the duplicate's empty fields; `nb->data` then points at an unbound neighbour, its request leaks, and after the next reconfiguration `nb->data` points into a freed configuration (bfd.c:936, 940) |
| `ioloop_safety` (MC_IoLoop.cfg) | `TypeOK` (the "s != current_sock" rechecks), `WalkCursorsLive`, and `ReadEventually` and `AsyncHandled` (a set async flag is eventually acted on by its handler) under fairness | pass, about 320k states |
| `ioloop_stale_index` | `ErrOnlyOnHangup` | violation: a socket inserted mid-walk keeps index 0 and reads slot 0's revents, so `sk_err` runs on a healthy socket (io.c:1254, 2634) |

Every property of a passing run has a mutant in `PROJECT.json`. A mutant is a plausible bug in the definition of the code it names, and TLC finds the property violated once that bug is substituted.

Spec.md 4.1 also states the postponement direction of `set_min_tx`/`set_min_rx` in reverse: the code postpones a *raised* TX interval and a *lowered* RX interval, as RFC 5880 6.8.3 requires. The models follow the code, and `PostponedUntilFinal` checks the code's direction.

Spec.md's transition table also has a row "Down + remote Up → Up". The code moves Down to Up only on remote Init (bfd.c:333-336), as RFC 5880 6.8.6 does. `ImplementsRFC` checks that the code follows the RFC's diagram.

## Bounds and why they are enough

- **BfdSession.**
  - Two nodes and the intervals {2, 3}. Each postponement case needs exactly one smaller and one larger value.
  - One packet in flight per direction, with loss; a packet to a full path is dropped.
  - Node a starts with min_tx 2, idle_tx 3 and min_rx 3; node b is passive with min_rx 2. A reconfiguration gives a session its initial configuration of a, that with min_tx raised to 3, or that with min_rx lowered to 2. These cover both postponed directions and the immediate ones; the refinement check makes a larger set too slow for the five-minute budget. No configuration turns passive on.
  - Every path of `process_ctl` is reached with these bounds: Final with a poll active or scheduled, a timeout during a poll, and a reconfiguration while Up.
- **BfdNotify.**
  - The passing run has one request, which its hook may release; this is the case that defers the session's removal to the notifier (`notify_running`).
  - The violation runs have two requests on one session.
  - The BFD thread may change the session any number of times, so coalescing, NODE_VALID and a change during the notifier's walk all occur.
- **BfdProto.**
  - Two instances: `p1` accepts every request, `p2` only some.
  - The passing run has two requests on two addresses of one interface, so two sessions share a reference count and a request parks while only `p2` runs. It has two options and two interface configurations, so `bfd_update_request` and a changed `bfd_reconfigure` occur.
  - Ids are 2 bits wide (`IdBits` = 2): three nonzero ids for at most two sessions, so the search wraps past the top and skips 0 and an id in use. `GetFreeIdCorrect` compares it with the reference for every start and the ids in use in every reachable state (every set of at most two ids).
  - The options run adds a second request on the same address, which the question needs.
- **BfdNeighbor.**
  - Two single-hop keys, one single-hop key whose address `neigh_find` rejects (`Invalid`), and one multihop key. There are four configurations, which keep, drop and add neighbours; one of them holds the invalid neighbour. The run has about 6,000 states.
  - Four request handles bound the live requests; a step that could need more is not taken.
  - The duplicate run adds a configuration that lists the same key twice.
- **IoLoop.**
  - Three sockets: a listener, a fast_rx socket and a free slot. The passing run allows at most 2 frees or opens per behaviour (`MAX_CHURN`), enough to free a socket and reuse its structure; the stale-index run allows 3.
  - Two async flags, the first and the last in the test order (`config` and `shutdown`), and two signals per behaviour (`MAX_SIGNALS`), so a signal arrives while the other flag's handler runs. Signals are delivered at the top of the loop or during a handler. Only the flag tests read the flags, and a signal changes nothing else, so a signal during a walk behaves like one at the next top. A signal whose flag is still set is a no-op and is left out. The stale-index run has no signals.
  - `MAX_STEPS` = 2, `MAX_RX_STEPS` = 1 and `SHORT_LOOP_MAX` = 2. These are the smallest values that still exercise the step limit, the resume at `stored_sock` and a skipped second walk.
  - An insertion during either walk, and the freeing of the current, stored or next socket, are all reached.

## Fairness

- **BfdNotify.**
  - The BFD thread finishes any handler it has started, so the publish and kick steps are weakly fair.
  - The main thread runs `bfd_notify_hook` whenever the pipe is readable, since `io_loop` polls it every loop. The notifier's steps are therefore weakly fair.
  - `NotifyDone` needs `birdloop_enter`. It is enabled whenever the BFD thread is between handlers, which happens infinitely often, so `NotifyDone` has strong fairness.
  - The BFD thread's own events, client requests and releases are not fair: they need not happen.
- **BfdProto.** Once started, `bfd_start` and `bfd_shutdown` run to completion on the main thread, so their walk steps are weakly fair. Nothing else is fair.
- **BfdNeighbor.** Only safety is checked.
- **IoLoop.** The main loop keeps running (`WF` on its steps, the async handler included: it returns). Hooks at the top of the loop and signals are not fair. Signals are finite (`MAX_SIGNALS`): a steady stream of SIGHUPs would keep the loop in `async_config()` and never reach `poll()`.

## Not modelled

These parts are not modelled; `PROJECT.json` gives the reason for each:

- the packet codec and authentication (not in these sources);
- the hash tables other than the id set, and `bfd_open/close_session`;
- the RX sockets opened by `bfd_start` and the accept filters' fields (an instance's filters are a set of requests it accepts);
- the composition of `BfdProto` with `BfdNotify` (each models the other's part abstractly);
- the CLI (`bfd_show_session` copies a session's fields without the lock, as its FIXME says; a torn copy only affects the output);
- socket buffer contents: the fill level of `rbuf` (a full buffer reads as end of file, io.c:2116) depends on the clients' rx hooks, which are not in these sources. Sending again before `tx_hook` would overwrite queued output in `sk_send`, but that breaks `sk_send`'s documented contract and no code in these sources does it;
- what the async handlers do. `IoLoop` models the flags, their tests and the clear, but `async_config()`, `async_dump()`, `async_shutdown()` and the signal handlers are in `main.c`, outside these sources. `TopHook` stands for their effect on sockets. The model has the window in which a SIGHUP during `async_config()` is lost, because the flag is cleared after the handler returns (io.c:2530). No run states it: whether a lost second reload matters depends on when `async_config()` reads the file;
- socket setup and options, time, logging and files;
- `io-loop.h` (declarations only);
- `printf_test.c` (a unit test).

## Plan for later sittings

1. Compose `BfdProto` with the notification side of `BfdNotify`, so that hooks run by `bfd_notify_hook` can release requests during a shutdown.
2. Check the notification invariants with two requests on one session again. The safety part takes 18 s (888k states), but with `DeliveryEventually` the run takes 8.5 minutes. It needs a smaller state space before it fits the five-minute budget.
3. Add a poll-completion liveness property to `BfdSession`.
4. Free a run for a stream-socket buffer module (`sk_send`, partial writes in `sk_maybe_write`, `rpos` in `sk_read`) with a client that follows the `tx_hook` contract; every run slot is in use now.
5. Model the WALK_LIST_DELSAFE hazard of `bfd_notify_hook` (a hook that frees another request of the same session).
