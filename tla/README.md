# Halmos: a verification development

TLA+ models of the Halmos web server (C, epoll, a thread pool, HTTP/1.1, HTTP/2,
WebSocket and FastCGI), TLC instances that check them, and TLAPS proofs. Every
definition is translated from the sources under `src/`; `PROJECT.json` maps each
one to its lines.

## 1. The system

One **main thread** runs `epoll_wait`. It accepts clients, and pushes each
reported descriptor as an event `{fd, generation, events}` onto a bounded **task
queue**. A pool of detached **workers** pops events, validates them against the
**connection table** (one slot per descriptor: generation, active flag, `io_lock`,
protocol session), dispatches them through the **HTTP bridge** to HTTP/1.1, HTTP/2
or WebSocket code, and finally rearms the descriptor in epoll (`EPOLLONESHOT`) or
cleans the connection up. Dynamic requests go to backends through a **FastCGI
connection pool**. Three more threads run beside them: the WebSocket **maintenance**
thread (heartbeat and reaper, every 30 s), the **logger** with its memory
**monitor**, and the **janitor** of the rate limiter. `SIGTERM` and `SIGINT` stop
the server.

### Inventory

| Component | State | Operations | Interacts with | What is hard | What makes it correct |
|---|---|---|---|---|---|
| Task queue, pool (`halmos_core_queue.c`, `halmos_core_thread_pool.c`) | list, `total_workers`, `active_workers`, `scaling_in_progress`, `is_running` | push with upscale, pop with downscale, start, stop | event loop, workers, signal handler | spawn outside of the lock, failed spawns, timed waits, teardown | counts exact, limits kept, no wakeup lost, no use after destroy, FIFO |
| Event loop, connection table (`halmos_core_event_loop.c`, `halmos_core_conn_table.c`) | epoll set, slots, `active_connections` | accept, report, push, rearm, cleanup, activate, deactivate | queue, workers, reaper | descriptor reuse, cleanup against I/O, one-shot events | one owner per descriptor, nothing stale handled, none forgotten |
| Signal handling (`main.c`) | `server_running` | handler, cleanup sequence | queue lock, janitor, logger | handler on top of a locked region, joins | the process exits |
| WebSocket registry (`halmos_ws_registry.c`) | clients, `fd_map`, topic buckets, user map, five mutexes | add, remove, subscribe, publish, identify, heartbeat, reap | bridge, maintenance thread | pointers used after unlock, lock order, collisions, reuse of numbers | no freed client reachable, membership symmetric, no deadlock |
| WebSocket system (`halmos_ws_system.c`, `halmos_ws_ipc.c`) | receive state per descriptor, `ws_fd_map` | upgrade, receive frames, dispatch, bridge IPC | registry, bridge | partial reads | a frame is delivered once, whole |
| FastCGI pool, session, protocol (`fastcgi/`) | slots, per-backend counts, session states | acquire, release, stream, destroy | HTTP/1.1, HTTP/2 | quota and reuse, leaked slots, leftover data | counts match sockets in use, a pooled socket is clean |
| HTTP/1.1 (`protocol/http1/`) | session state machine | read header, body, respond, keep-alive | bridge, FastCGI, registry | partial I/O, a buffer that moves, keep-alive, upgrade | responses whole and in order, nothing that came whole is forgotten |
| HTTP/2 (`protocol/http2/`) | session, streams, windows, pending write buffer, HPACK tables | read frame, write or buffer, flush, flow control | bridge, FastCGI | partial writes, out-of-band frames, windows, tables that must stay in step | frames leave in order, requests are answered, windows add up |
| Rate limiter (`halmos_sec_traffic.c`) | open-addressing table, janitor | allow, clean | bridge, janitor | holes in probe chains, a clock read before the lock | the limit of a second is kept, as far as entries are found |
| Logger (`halmos_log.c`) | queue of lines, two consumers on one condition | enqueue, drain, monitor, stop | everybody | signal taken by the wrong waiter | every accepted line is written, in order; the stop ends |
| Adaptive sizing (`halmos_core_adaptive.c`) | limits computed once | arithmetic | main | wrap of C types | limits ordered and in range |
| Virtual hosts and routes (`halmos_http_vhost.c`, `halmos_http_route.c`) | route table | lookup, reload on inotify | main, workers | reload without a lock, times in whole seconds | a request is routed by one text; the newest is loaded |
| Configuration, TLS, header fields, multipart, utilities, TCP listener | - | text, system calls | - | - | out of scope (see section 7) |

`PROJECT.json` lists the hazards at their lines, with the properties that cover them.

## 2. Modules

| Module | What it is |
|---|---|
| `TaskChannel` | abstract specification: a bounded FIFO channel that is open, then closed, then discarded |
| `TaskQueue` | the task queue and the pool, one action per region under `TaskQueue.lock` |
| `TaskQueueProps` | its properties, the refinement mapping to `TaskChannel`, fairness |
| `MCTaskQueue` | TLC instances |
| `TaskQueue_proofs` | the inductive invariant and the theorems |
| `ConnLifecycle` | connections from accept to close: main, workers, reaper, signal; its queue is `TaskChannel` |
| `ConnLifecycleProps`, `MCConnLifecycle` | properties and TLC instances |
| `ConnLifecycle_proofs` | types, locks and protection of slots with the reaper; tokens and ownership without it |
| `SignalStop`, `MCSignalStop` | where the signal handler may land |
| `SignalStop_proofs` | who holds the lock wherever it lands; the lines of `Background` |
| `FcgiPool` | the pool of backend connections, the FastCGI sessions of both protocols, the backends |
| `FcgiPoolProps`, `MCFcgiPool` | properties and TLC instances |
| `FcgiPool_proofs` | types and the bound on the quotas; users, slots, counts and answers, with the conditions they need |
| `WsRegistry` | the registry of WebSocket clients, and what upgrade, messages, bridge, cleanup, heartbeat and reaper do with it |
| `WsRegistryProps`, `MCWsRegistry` | properties and TLC instances |
| `WsRegistry_proofs` | the tables and the order of locks; names, subscriptions and freed clients, with the conditions they need |
| `Http1Session` | one HTTP/1.1 connection: detection, parser, state machine, responses, keep-alive |
| `WsReceiver` | the frames of a connection that was upgraded; extends `Http1Session` |
| `Http1Props`, `MCHttp1` | properties of both and TLC instances |
| `Http1_proofs` | requests, answers and frames: what came, what is in the buffer and what left |
| `Http2Session` | one HTTP/2 connection: read loop, frame handlers, streams, windows, write buffer, responses |
| `Http2SessionProps`, `MCHttp2Session` | properties and TLC instances |
| `Http2Session_proofs` | parking, files, windows, the order of the bytes, the shape of the answers |
| `Hpack` | the header table of the decoder beside that of the client's encoder |
| `RateLimiter` | the table of addresses, its checks and its cleaning |
| `Background` | logger, telemetry monitor, janitor and the end of main; extends `SignalStop` |
| `Routes` | the reload of `.htroute` under requests that are being routed |
| `Adaptive` | the sizes computed at startup, in C arithmetic |
| `MCServices` | TLC instance of the last five, one at a time |
| `Services_proofs` | the limiter, the header tables, the routes and the sizes |

They compose through two interfaces. `TaskQueue` implements `TaskChannel` (checked and
proved), and `ConnLifecycle` uses `TaskChannel` as its queue (`Channel!Offer`,
`Channel!Take`, `Channel!Close`, `Channel!Discard`), so the connection model does not
repeat the pool. `SignalStop` opens the one action of both models that treats the
signal handler as atomic. `FcgiPool` is what a worker does inside `Dispatch` of
`ConnLifecycle` for a dynamic request; the client's connection appears in it only as
`ClientLeaves`. `WsRegistry` opens what `ConnLifecycle` keeps as one flag and one client
per descriptor: its `Shut` is the cleanup and its `ReapClose` the reaper of that model,
and it relies on what that model establishes, one worker per descriptor. `Http1Session`
and `Http2Session` open `Dispatch` of `ConnLifecycle` on the side of the client, `FcgiPool`
on the side of the backend, so in those two a backend answers or fails as a whole.
`Hpack` is what `Http2Session` keeps as one bit of a HEADERS frame (it parses or not).
`Background` starts where `SignalStop` leaves main, and adds what main joins before it exits.

### TaskQueue and the code

| Model | Code |
|---|---|
| `queue` | `head..tail`; `count` is its length |
| `main` = `init`, `evstart`, `poll`, `push`, `scale`, `release`, `stop`, `exitwait`, `discard`, `stopped` | `core_queue_thread_worker_start`, `core_event_loop_start`, the loop, inside `core_queue_push`, its spawn loop, before `scaling_in_progress = 0`, `core_queue_thread_worker_stop` and its wait on `exit_cond`, after it |
| `worker[w]` = `pop`, `asleep`, `woken`, `timedout`, `serve`, `idle` | before the lock, in `pthread_cond_timedwait`, after it with rc 0 or `ETIMEDOUT`, in `http_bridge_dispatch`, before `mark_worker_idle` |
| `spawn_left`, `spawn_failed` | the local counters of the spawn loop |
| `unborn` | history: initial workers whose `pthread_create` failed |

Regions under the lock are one action, since nothing else of this state is accessed
without it except `active_workers` (atomic, own action `MarkIdle`) and `server_running`.
A timed wait may end at any time, either way.

### ConnLifecycle and the code

Descriptors are numbers that the kernel reuses. The model gives each accepted connection
an identity (1, 2, ...) and remembers, with every reported event, queued task, session and
WebSocket mark, for which connection it was made; the code has only the number and the
generation. A thread's `pc` follows the source line by line where another thread can
come between: the two unlocked loads of `core_conn_t_is_valid`, the lock, the second
check, dispatch, rearm, unlock; and in the cleanup the uncount, `EPOLL_CTL_DEL`, lock,
reset, `close`, unlock. `watch[fd]` is the epoll registration: `armed`, `silent` once the
one shot was used, `none`. `close` of a number takes it out of epoll. `conn->state` is
`DEAD` exactly when `active` is false, so it is not a variable of its own; `conn->ssl`
follows the session.

### SignalStop and the code

Each thread has a stack of frames, the handler on top of what it interrupted. A frame in
`locked`, `stopping` or `handling` holds `global_queue.lock`. With `Anywhere = FALSE`
signals land only on threads whose top frame holds no lock.

### FcgiPool and the code

A thread is whoever drives one request: a worker in `http1_manager_session`, which polls
for that one session until it ends, or an HTTP/2 stream driven by
`http2_response_flush_active_streams`. `sock[f]` is what the kernel has behind a number:
open or not, the node it leads to, the requests the backend owes an answer to, the
records not yet read. A request has an identity that the wire lacks (HTTP/1 numbers every
request 1), so that a property can say whose response a client got.

| Model | Code |
|---|---|
| `connections[i]` | `fcgi_pool.connections[i]`; its `node` is `target_path`, `target_port`, `is_unix` |
| `pc` = `quota`, `reuse`, `create`, `store` | `fcgi_pool_conn_acquire`: before the test, the scan under the lock, `create_backend_socket`, the second section |
| `pc` = `params`, `stdin`, `recv`, `splice` | the session states `SENDING_PARAMS`, `SENDING_STDIN`, `RECEIVING`, and inside `fcgi_io_splice_response` |
| `ses[t].attempt`, `ses[t].body` | the `attempts` of `http1_manager_session`, one for each turn; the chunks of 32 KB not sent yet |
| `pc` = `stalled` | the loops on EAGAIN inside a record, of the backend's socket or of the client's |
| `pc` = `discard`, `release` | `fcgi_session_destroy` with state `ERROR`, and with any other |

The groups' addresses and ports are constants, because which comparison the code makes
(address when acquiring, port when releasing, port alone when reusing a TCP connection)
decides what it counts. A response is one STDOUT record, a redirect or not, and
END_REQUEST; with `"pieces"` they may arrive apart. `Faults` says what may go wrong
outside, so that each run shows what a fault breaks and what survives it.

### WsRegistry and the code

A client is named by the connection it came with, so `mem[c]` is the `HalmosWSClient` of
connection `c`; `st` remembers whether it was allocated, and who freed it. `th[t].pc` is the
next step of a thread, `th[t].cl` the pointer it holds.

| Model | Code |
|---|---|
| `clients`, `fd_map`, `current_count` | the fields of `registry`; a set, because the slots are equal |
| `buckets[b]` | the subscribers of `registry.buckets[b]`; an absent bucket is an empty one |
| `user_map[p]` | the list at one place of the user table |
| `registry_lock`, `hash_lock`, `topic_lock`, `client_lock` | the mutexes a thread keeps while it waits for another or sends |
| `pc` = `sub`, `subscribe`, `insert`, `record` | the four sections of `ws_registry_add_to_topic` |
| `pc` = `walk`, `send` | between two clients, and inside the write to one, of broadcast, heartbeat or publish |
| `pc` = `remove` ... `unsubscribe` | `ws_registry_remove`, from `registry_lock` to the release |
| `pc` = `reap`, `reaping` | `ws_registry_reaper`, before and after it collected `dead_fds` |

`user_map_lock` guards sections that neither wait nor send, so they are atomic. A mutex taken
only to read one word is a guard. `seen` stands for `last_seen` within 90 s, which only a PONG
renews. The place of a user id in `user_map` and the place of what 63 characters keep of it
are two constants, because the code hashes the one to insert and the other to remove.

### Http1Session, WsReceiver and the code

`sess.state` is `HTTP1Session.state`, with `detect` before `bridge_detect` has chosen a
protocol and `ws` after the upgrade. A request is sent in pieces, two of its head and those of
its body, each piece named by the request it belongs to; `net` is what the kernel holds, one
element for each TLS record, and `pending` what OpenSSL has decrypted and nobody has read, of
which epoll says nothing. `sess.buf` is the buffer: pieces of one request, or of several when
the code mixes them up. `sess.uri` says where the pointer of the URI leads: `buffer`, `route`
(into `route_result`), or `wild` once a `realloc` has moved it by a distance that was not its
own. `wire` is what the client reads. `WsReceiver` keeps the four buffers of
`ws_recv_state_t` as the bytes they hold, so that a frame made of another's bytes is seen;
`as` is the frame its header announces. A member of `World` is a whole connection: its requests,
its WebSocket frames, clear or TLS, and what goes wrong in it.

### Http2Session and the code

| Model | Code |
|---|---|
| `pc` = `preface`, `collect`, `streams`, `header`, `payload`, `dispatch` | `process_preface`, the collection and the turns of `http2_response_flush_active_streams`, the two reads, the `switch` of `dispatch_frame` |
| `pc` = `parked` with `rearm` | what `http2_manager_session` returns: 2 waits for input, 4 for output too |
| `streams[s]` | the `HTTP2Stream`: what it asks for, its file, offset, backend session |
| `out.pending`, `out.wire`, `out.asked` | `pending_write_buf`, what the socket took, what was given to `http2_frame_send` |
| `out_window[0]`, `out_window[s]` | the windows of session and stream; `ledger` is what the client granted and files took, `unpaid` what was sent without asking them; the client counts both (`View`) |

A frame leaves in two pieces, any of which may stay behind. Lengths are in units, windows
wrap at `WindowSpan`. SETTINGS and its ACK are frame number 0: they go past the buffer.

### Hpack, RateLimiter, Background, Routes, Adaptive and the code

* `Hpack`: `dyn_table` is the server's table, `encoder` the client's, which evicts by size
  as RFC 7541 says, while `http2_hpack_dynamic_table_add` keeps 128 entries. The client writes
  a field in any legal way. Values are told apart by what the decoder does to them: kept,
  skipped (empty), cut, refused with 431 or 414, or above 10240 bytes, where it drops the rest
  of the block. `lost` remembers that the server did not add what the client added.
* `RateLimiter`: `Call` reads the clock, `Check` runs under the mutex; `passed` counts the
  requests of an address let through in the current second.
* `Background`: a line is one of "first" (any one, watched), "bye" (main's last) and "other".
  `bg` says where each thread is; `fin` follows the cleanup sequence of `main`. A sleeping
  worker, an open connection and the handler are those of `SignalStop`.
* `Routes`: a reload goes on line by line (`LoadRoute`, then `LoadVars`) and stores the
  number of routes last; between `Reload` (stat) and `Open` (fopen) the file may change or
  go. A request looks at one route per step and reads the chosen one again in `Apply`.
  `disturbed` remembers that a route it may read was changed under it.
* `Adaptive`: one action with the whole arithmetic; `ToLong`, `ToUInt` and `ToInt` are the
  conversions of C, with the widths 24 and 20 bits instead of 64 and 32.

## 3. Runs

| Run | Question | Result |
|---|---|---|
| `taskqueue_safety` | Are the counters, limits, wakeups, ownership, teardown and FIFO order right with every failure and an early signal? | holds |
| `taskqueue_live` | When thread creation succeeds: does the pool keep its minimum, and, as long as every dispatch ends, are queued events taken and does the signal stop the server? | holds |
| `conn_safety` | Without the reaper: is the event of a descriptor a token, is anything stale or forgotten, does state leak to the next connection, is the counter exact? | holds |
| `conn_reaper` | Beside the reaper: do the lock and the second check still do their part, and, as long as every dispatch ends, is a silent descriptor always rearmed or closed, does the shutdown end? | holds |
| `signal_anywhere` | Is the handler async-signal safe? | violated: it waits for its own thread's lock |
| `fcgi_safety` | HTTP/1 and HTTP/2 with prompt backends on Unix sockets that refuse and close idle connections, and bodies that leave an attempt for the response: do sockets, slots, counts and responses stay together? | holds |
| `fcgi_live` | Backends that die, stall, answer late or in pieces, and clients that leave: does every HTTP/1 request end unless its reader stalls for ever, does none go on without a descriptor, and how far can a quota be exceeded when slots are lost? | holds; by fewer than there are threads |
| `ws_safety` | Two clients that identify themselves, subscribe, publish and leave, beside the heartbeat: is a freed client ever reached, is a user named once, is the record of topics right, are locks taken in the documented order? | holds |
| `ws_reaper` | Every operation, the bridge and the reaper, with more descriptors than slots: do the tables agree, and is a connection spoken to as a WebSocket only if it asked for one? | holds as far as claimed |
| `http1` | Two requests of every kind, or an upgrade and frames, clear or TLS, cut anywhere: are responses whole and in order, is each request handled with its own bytes, is nothing that came whole forgotten? | holds, except for the faults named in each property |
| `http2` | Two streams, every kind of request and frame, one fault at a time: do bytes leave in order, do server and client agree on the windows while only files are sent, is every file closed once and every request answered, does the worker come back? | holds, except for the faults named in each property |
| `services` | The threads in the background and the end of main, the limiter, the header tables, the routes, the sizes: see section 4 | holds as far as claimed |

### Further instances

Configurations that TLC finds violated, kept to reproduce what section 5 says:
`tlc -config <cfg> <module>`, with `-continue` where several properties are named. The hypotheses
of the theorems in section 6 are not idle: `counts`, `stale`, `timeout`, `reaped`, `longname`,
`topics` and `floor` each drop one and show what fails then.

| Configuration | Module | Property | What it shows |
|---|---|---|---|
| `TaskQueue_floor.cfg` | `MCTaskQueue` | `PoolFloor` | rolled-back slots had been counted |
| `ConnLifecycle_reaped.cfg` | `MCConnLifecycle` | `SocketStays`, `CloseOwn` | the reaper closes the socket a worker talks to, and a cleanup the next connection on its number |
| `FcgiPool_counts.cfg` | `MCFcgiPool` | `CountsExact` | acquire compares addresses, release ports |
| `FcgiPool_pieces.cfg` | `MCFcgiPool` | `Patient`, `NeverEmpty` | the reader's socket is non-blocking; END_REQUEST of a redirect is read by the next request |
| `FcgiPool_timeout.cfg` | `MCFcgiPool` | `AnswerOwn` | a body of two chunks uses up three attempts with prompt backends; the half-used socket is pooled and its response goes to the next request |
| `FcgiPool_stale.cfg` | `MCFcgiPool` | `SlotHome` | a failed session leaves its number in the slot |
| `WsRegistry_longname.cfg` | `MCWsRegistry` | `NoDangling` | the node of a user id of 64 characters or more outlives its client |
| `WsRegistry_topics.cfg` | `MCWsRegistry` | `NoDangling` | so does the subscription to more topics than are recorded |
| `WsRegistry_private.cfg` | `MCWsRegistry` | `Addressed` | a private message is written to a number that has changed hands |
| `Services_doubts.cfg` | `MCServices` | `OneEntry`, `NeverTorn`, `QueueDrained` | a cleared slot gives an address a second entry; a reload mixes two texts; the monitor logs after the logger |

Four more need no file of their own. `TaskQueue_live.cfg` violates `ShutdownCompletes` with
`MayFail = {"start"}` (the stop waits for a thread that never was) and, with `MayFail = {}`, with
`EarlySignal = TRUE` (a signal during start-up is forgotten). `FcgiPool_counts.cfg` with
`FarAddress`, `FarPort`, `OneGroup` and `WideQuotas` violates `SentHome` (reuse compares ports
only). `Http2Session.cfg` with `World <- OneWorld` violates `FramesWhole` (the ACK of a SETTINGS
frame stands inside a frame that waits in the buffer).

### Bounds

* `TaskQueue`: four threads, minimum two, limit four, a queue of two, three descriptors.
  Two is enough for an upscale while the queue is not empty and a worker is leaving; three
  descriptors fill the queue with one left in main's hands. The counters need no bound:
  they are limited by the constants. Threads and descriptors are symmetric.
* `ConnLifecycle`: two workers, two descriptors with a slot and one without, three
  connections (`MaxConn` bounds `accepted`, the only unbounded counter), so that a number
  is reused and reused again; a queue of one, so that pushes fail; `GenModulus` 2 in
  `conn_safety`, so that a generation wraps to 0; batches of two. `conn_reaper` has one worker
  and two connections beside main and the reaper: liveness rules out symmetry.
* `SignalStop`: two workers and one signal (`Signals`) in `signal_anywhere`, one of each in
  `services`; that one handler may interrupt another is covered by the theorem, which holds for
  every number of signals.
* `FcgiPool`: two threads, each with the protocols it speaks (`Protocols`), and three requests
  (`MaxRequest` bounds `asked`), so that a thread comes back to what the others left. A body is
  a number of chunks (`Bodies`) and `Attempts` stands for the 100 turns of
  `http1_manager_session`. `fcgi_safety`: two backends, a pool of two slots and three descriptors
  (one more, so that a connection can bypass the pool), both protocols on both threads, bodies of 0
  and 1 chunk and three attempts, the fewest that a body of 1 leaves one for the response.
  `fcgi_live`: one backend with a quota of one, three slots, two descriptors, an HTTP/1 and an HTTP/2
  thread and no bodies, with two attempts. The first request may leave the quota used up by nobody,
  or two idle slots behind, so that two later requests pass the first check together and both
  reuse a slot.
* `WsRegistry`: two connections (`MaxConn`) on two descriptors, so that clients coexist or
  follow each other on one number. `ws_safety` has two workers, two topics in buckets of their
  own and one name, so that two clients may share it. `ws_reaper` has one worker beside main
  and the maintenance thread, one topic, and one slot, so that the registry is full.
* `Http1Session` with `WsReceiver`: two requests or one upgrade and two frames, heads and frame
  parts of two pieces, so that each may arrive whole or cut; a file of two units, so that a
  response stops in its middle; a buffer one piece larger than a head, so that a body makes it
  grow. A `World` has at most one fault, because two faults hide each other's effect.
* `Http2Session`: two streams and at most three frames after the preface (`frames`), a file of
  two units, frames of one and a window of two, so that one file needs several frames and two
  files more than the window of the connection holds. SETTINGS announces a window of 1 or of 3, below
  and above the initial one, as clients do. `WindowSpan` 8 is a signed window from -4
  to 3, so that an increment can overflow it. One fault per connection.
* `Background`: one worker, one signal, a queue of two lines (`MaxLog`). Lines other than the two
  watched are alike, so their number has no bound.
* `RateLimiter`: two slots, three addresses, two of them on one place, so that chains, holes and a
  full table happen; a limit of two, three seconds (`LastSecond`), and two checks at a
  time (`Callers`), so that a late check meets the entry of a newer second.
* `Hpack`: two names of sizes 1 and 2, a table of 3, so that one addition evicts two entries;
  blocks of two fields (`BlockLength`), any number of blocks.
* `Routes`: two segments, two targets, two texts with one and two routes, of which the first differs only in its variables,
  two seconds (`LastMoment`), so that a change falls into the second of a load or behind it.
* `Adaptive`: widths of 24 and 20 bits (TLC's integers have 32), machines around the limits where
  the arithmetic changes: below, at and above 1 GB, and descriptor limits up to beyond 20 bits.

### Fairness

The kernel schedules runnable threads: weak fairness of main and of each worker outside of
`http_bridge_dispatch`. Of the dispatch itself nothing is assumed, for it need not end. The
timeouts of 5 s set at `halmos_core_event_loop.c:137` do nothing, because the socket is made
non-blocking at line 161; `halmos_http2_manager.c:69` goes round as long as a client withholds the
rest of a payload (finding 27), and `halmos_fcgi_proto.c:379-392` as long as a backend pauses inside
a record or a client does not read (finding 36). So `Drains`, `Ended`, `SignalStop`'s `Stops` and
`Finishes` say what holds if every worker comes out of its dispatch again and again
(`DispatchesEnd`, `DispatchesReturn`), and finding 36 what happens otherwise. Nothing is assumed
about the ends of timed waits, arriving events, or the signal. `SignalStop` adds strong
fairness of acquiring the lock: a futex is not starved for ever.

`FcgiPool!FairSpec` is weak fairness of each thread's own steps. Nothing is assumed about the
backends: that a request ends comes from the attempts, which `http1_manager_session` counts in
each turn, whether it got anywhere or not, and `Ends` excepts the two loops of the reader that count
nothing (`pc` = `stalled`) while they go on for ever. It leaves out HTTP/2, which has neither
attempts nor a timeout for its backends.

`Http1Props!Fairness` and `Http2SessionProps!Fairness` are weak fairness of the worker in the session,
and strong fairness of the socket taking what is left: the client reads, so a full socket has
room again and again. For HTTP/2 the turn of a backend has strong fairness too. That is an
assumption about backends, which the code does not enforce. (In HTTP/1 a backend's answer is part of
a step of the worker: `Progress` leaves out the loops of finding 36.) Nothing is assumed of what the
client sends.

`MCServices!ServicesFairness` is weak fairness of each background thread and of main, which
destroys finitely many tables, with the strong fairness of locks of `SignalStop`; the timed
waits of 15 s and 600 s end, which is a step of the monitor but is not required of the janitor.

## 4. Properties

The invariants and temporal properties are commented where they are defined. The central
ones:

* `Handover` = `NoLostWakeup`, `SingleOwner`, `NoUseAfterStop`: while some worker sleeps, every
  queued event has a worker of its own on its way. One `pthread_cond_signal` per push is enough
  although workers time out, leave and are created meanwhile.
* `PoolCounts` = `Accounting`, `PoolCeiling`; `PoolFloor`: what `total_workers` really counts.
* `Drains`: queued events leave, and a signal stops the server, if every dispatch ends; `Ended` says
  the same of connections and `Finishes` of the joins.
* `Tokens` = `OneToken`, `NotStranded`, `NeverRecycled`: the event of a descriptor is with epoll,
  main, the queue or one thread, never lost and never twice. So without the reaper the
  generation check never fails: `EPOLLONESHOT` alone excludes stale events.
* `Locking` = `LockHolders`, `DispatchCurrent`: with the reaper it is the second check, under the
  lock, that keeps the event of an old lifetime from being dispatched.
* `OwnSlot` = `OwnState`, `SocketStays`, `CounterExact`: no session and no WebSocket mark of an
  earlier connection is met by a later one on the same number.
* `PoolSound` = `OneHolder`, `SlotHome`, `CountsExact`, `NoneLost`: a socket has one user, a slot
  the socket it names, a count the connections it stands for.
* `AnswerOwn`: whose response a client gets. It holds because an HTTP/1 session stays with its
  backend until the END_REQUEST and `poll` before reuse rejects a connection with unread data, which
  is not enough when the data comes later: when the attempts of a session run out, or when the end
  of a redirect follows apart.
* `OverQuota`, `Ends`: how far a quota can be exceeded, and what a request may wait for, whatever
  the backends do.
* `NoDangling`, `Recorded` = `NamedOnce`, `Subscribed`: `free` in `ws_registry_remove` is right
  only if every table can be cleared from what the client itself recorded, and if nobody holds
  its pointer without a lock. The pointer that `ws_registry_add_to_topic` keeps after its unlock
  is safe because only the worker that has the descriptor cleans it up, the reaper aside.
* `LockedWrite`, `Hierarchy`: `client_lock` keeps removal away from a write, and the five
  levels of locks are taken in order, so nobody waits in a circle.
* `Tables` = `TypeOK`, `TablesAgree`, `FlagOwn`: what survives of the tables when the reaper closes
  numbers that are in use again.
* `ResponsesWhole`, `RequestKept`, `InOrder`, `Progress`: what an HTTP/1 client and a WebSocket
  client may rely on, however the bytes are cut. Each names the faults under which it is not
  claimed; section 5 says what happens then. A full socket is not among them: a response that it
  interrupts goes on where it stopped. (`InOrder` excludes an upgrade request with a body it
  does not declare because that body would be read as frames.)
* `WireOrder`, `Rearmed`, `EveryAnswer`, `Yields`: what is buffered leaves in order behind what
  was sent, a session with something to write asks for `EPOLLOUT`, a request that came whole is
  answered, and the worker comes back. `EveryAnswer` holds also of clients that repeat HEADERS, send
  DATA late or raise the windows beyond their width. `WindowsKept`: until a page or a backend's answer
  is sent, which take nothing from the windows (`unpaid` counts it), server and client agree on every
  window, whatever initial window SETTINGS announces, and the connection's is not overdrawn; not if an
  increment overflows. `ResponseShape`: one HEADERS, then DATA, one END_STREAM. `FileOwned`: an open
  number belongs to one stream, unless the client repeats HEADERS or sends DATA on a stream that has
  ended or was reset, which routes the request again over the open file.
* `TablesInStep`: as long as the server adds what the client adds, its table begins with the
  client's, and each field is read as it was meant. Keeping 128 entries by number instead of
  4096 bytes by size is enough because no entry is smaller than 32 bytes.
* `LimitKept`: in one second an address is let through `limit` times for each entry it has.
* `LinesKept`, `Finishes`: accepted lines are written in order, main's last one before the exit;
  a line never waits for a thread that took somebody else's signal, and every join ends if the
  workers come back from their dispatches.
* `RoutesKept`: a request is routed by one text unless a route it may read was replaced meanwhile,
  and what is loaded is the newest text unless a change came within one second of a load.
* `SizesSound`: the sizes are ordered, positive and within the limits that the rest assumes,
  whatever wraps.

## 5. Findings

1. `halmos_core_queue.c:32`: an initial worker that could not be created is never taken
   out of `total_workers`; `core_queue_thread_worker_stop` does not return.
2. `halmos_core_event_loop.c:45`: a signal handled before this line is lost.
3. `halmos_core_queue.c:117`: the roll-back of a failed upscale can leave fewer than
   `g_worker_min` workers.
4. `halmos_ws_registry.c:345`: the reaper closes descriptors without their `io_lock`,
   under a worker that uses them.
5. `halmos_core_thread_pool.c:110`: after such a close, a cleanup closes the connection
   that got the number.
6. `halmos_core_event_loop.c:265`: the signal handler locks a mutex the interrupted code
   may hold.
7. `halmos_fcgi_pool.c:77`: every TCP connection is counted under the first group on its
   address and uncounted under the group of its port: with the shipped configuration the
   PHP count only grows and the others become negative.
8. `halmos_fcgi_pool.c:99`: pooled TCP connections match by port alone, so `ip_hash` does
   not keep a client on its machine.
9. `halmos_fcgi_proto.c:268`: `MSG_WAITALL` on a non-blocking socket fails as soon as a
   response pauses; the 30 s are never given.
10. `halmos_fcgi_proto.c:341`: END_REQUEST of a redirect stays on the pooled socket.
11. `halmos_http1_manager.c:302`: a session whose 100 attempts are used up returns its socket to the
    pool, and the late response is given to the next request. Line 239 counts every turn, progress
    included, and `halmos_fcgi_session.c:221` sends one chunk of at most 32 KB a turn: a body of more
    than 98 chunks (about 3.2 MB) does this with a backend that is prompt.
12. `halmos_fcgi_proto.c:453`: failing sessions close the socket (twice) and never free the
    slot nor its count; the backend ends up with its quota used by nobody.
13. `halmos_ws_registry.c:466`: a user id is hashed whole when its node is inserted and cut to
    63 characters when the node is looked for; a longer one is never found, by a lookup nor
    by the removal, and the list keeps a freed client (the comment at line 471 calls the
    pointer "Safe lifetime pointer").
14. `halmos_ws_registry.c:399`: from the 17th topic on a subscription is not recorded, and the
    bucket keeps the client after `free`.
15. `halmos_ws_system.c:480`: `ACT_PRIVATE` writes to a descriptor it looked up, without the
    session check that the bridge makes at line 569.
16. `halmos_ws_registry.c:346`: the reaper clears neither `ws_fd_map` nor the receive state; the
    next connection on the number is read as WebSocket frames.
17. `halmos_http1_manager.c:381`: the result of `ws_upgrade_handshake` is dropped, so a failed
    handshake is marked as a WebSocket too.
18. `halmos_ws_system.c:494`: the rest of a frame that was sent in part is said to be
    "preserved for Outbound Queue" and is dropped.

19. `halmos_http1_manager.c:183`: when the buffer moves while a body is read, every pointer of
    the request is shifted, also a URI that lies in `route_result` and did not move.
20. `halmos_http1_manager.c:296`: only files set `is_header_sent`, and nothing resets it: a
    backend that fails after it began gets a 502 into the middle of its response.
21. `halmos_http1_manager.c:309`: after a response the buffer is emptied with the beginning of
    the next request; the bytes of a body without Content-Length that come later are parsed.
22. `halmos_http1_manager.c:388`: frames sent with the upgrade request are dropped with its
    session.
23. `halmos_http1_response.c:199`: a file that shrinks counts as sent over TLS; the client waits.
24. `halmos_ws_system.c:382`: one frame per event; a second one in the same TLS record waits for
    bytes that need not come.
25. `halmos_http2_frame.c:55`: SETTINGS and its ACK pass the write buffer, and may stand inside
    a frame, against the order the comment at line 33 asks for.
26. `halmos_http2_parser.c:86`: an empty DATA frame with END_STREAM is ignored, the request
    never routed. Line 57: a second HEADERS wipes the request over an open file. Line 80: `handle_data`
    does not look at the state of the stream, so DATA with END_STREAM on one that has ended or was
    reset routes the request again, over the file it has open, and the number is lost.
27. `halmos_http2_manager.c:69`: while a payload is missing the session does not give up the
    worker.
28. `halmos_http2_frame.c:108`: increments beyond the largest window wrap.
29. `halmos_http2_response.c:121`: pages and backend responses ignore the windows: they are sent however
    small those are, and not taken from them, so that server and client count differently afterwards.
30. `halmos_fcgi_session.c:509`: HTTP/2 ends a backend's response with its first chunk.
31. `halmos_http2_parser.c:196`: a literal with an empty value is not added, a longer one than
    a slot holds is added cut, and a block that fails (line 227) or holds a value above 10240
    bytes (`halmos_http2_hpack.c:4999`) is not read to its
    end: the client's table and the server's part, and later fields are read as others.
32. `halmos_sec_traffic.c:203`: a slot that the janitor clears cuts the chains that led through it.
33. `halmos_http_vhost.c:145`: a change in the second of the last load is not loaded; one between
    `stat` and `fopen` is, with the older time; if the file has gone by then, the time is kept
    although nothing was loaded. `IN_DELETE` is not watched. Line 220: routes are replaced in
    place, so a request may take the target of one text and the variables of another.
34. `halmos_log.c:108`: the monitor may queue a line after the logger has gone (`main.c:246` says
    the queue is emptied), and sleep through the broadcast: the exit then takes up to 15 s.
35. `halmos_core_adaptive.c:163`: below 1 GB `available_for_web` wraps and the ceiling is decided
    by the number of processors alone; `max_children` is not limited, so that a number beyond
    an int makes quota and pool size negative.

36. `halmos_fcgi_proto.c:379` and `389`: inside the body of a record the reader tries again at once,
    without limit, on EAGAIN of the backend's socket and on EAGAIN of the client's. Neither counts an
    attempt nor waits. A backend that pauses, or a client that does not read, keeps a worker and the
    connection's `io_lock` for as long as it likes (`stalled`), and, as with finding 27, the stop of
    the server waits for that worker; the timeouts of line 137 of `halmos_core_event_loop.c` do not
    apply to a socket made non-blocking at line 161.
37. `halmos_http2_response.c:360`: when a session with a backend ends in an error, nothing is sent for
    the stream, neither a page nor RST_STREAM; so it is when `pread` fails (line 405), and when the
    header of a response does not fit. The client waits as long as the connection lives.
38. `halmos_core_event_loop.c:260`: the handler sets `sock_server` to -1 while `core_event_loop_run` may
    hold an event of the listener that was reported before. Line 112 then takes it for a client's
    and line 197 cleans up a number that the listener no longer has. A client's number it cannot be,
    since nobody accepts any more. The close itself is repeated at line 235 if the handler runs
    between the two lines there, on a worker.
39. `halmos_fcgi_session.c:250`: a STDIN record that `send` took in part counts as sent whole; the
    backend reads the next record out of the middle of this one.

Findings 26, 29 and 37 are faults of the instances of `http2` under which a property is not claimed, or
what `unpaid` remembers. Findings 38 and 39 were met while reading: no model has the number of the
listener, nor the bytes of a record.

Modelled, but no property speaks of it: `ws_registry_publish` delivers to the whole bucket
without comparing `topic_name`, so topics whose keys share one of 256 places (`Hash`) receive
each other's messages. Not modelled: a PUB always uses the application `GLOBAL` while a SUB
takes its own.

## 6. Proofs

`TaskQueue_proofs` proves, for every set of workers and events and every limit
(`NoEventAssumption`, `LimitsAssumption`, `WorkerAssumption`, `EnvironmentAssumption`):

* `TypeCorrect`, `PoolCountsCorrect`, `HandoverCorrect`: `Spec => []Inv` for the invariants of
  `taskqueue_safety`, from `AccountingCorrect`, `CeilingCorrect`, `WakeupCorrect`,
  `StopCorrect` and `OwnerCorrect` for their parts;
* `FloorCorrect`: `Spec => []PoolFloor` if thread creation cannot fail while upscaling,
  which is exactly the case `TaskQueue_floor.cfg` refutes otherwise;
* `Refinement`: `Spec => ChannelSpec`.

The inductive invariant `IInv` joins the type invariant, `Accounting`, `SpawnLoops` (the
local counters are zero outside of the spawn loop, needed because push overwrites them),
`NoSleepAfterStop` and `StopFlag`, `PoolCeiling`, `NoLostWakeup`, `NoUseAfterStop` and
`SingleOwner`. `Accounting` needs lemmas about the cardinality of the threads at a control
point (`MoveCounts`, `WakeCounts`); `CeilingStep` and `StopStep` follow from it;
`NoUseAfterStop` holds because `total_workers = 0` implies, by `Accounting`, that no thread
is alive. Each lemma `...Step` has one step per action.

`ConnLifecycle_proofs` proves, for every set of descriptors and workers, every number of
connections and every modulus of the generation (`ThreadAssumption` and the others of the module):

* `TypeCorrect`, `LockingCorrect`, `SlotProtectedCorrect`: with the reaper beside everybody,
  `Spec => []TypeOK`, `Spec => []Locking` and `Spec => SlotProtected`. The inductive invariant
  `Locks` joins the types, `LockHolders` (a thread at a point under `io_lock` is its holder),
  `DispatchCurrent` and `ShuttingDown`. That the event is still current when it is dispatched
  follows from the second check and from the fact that only the holder changes a slot,
  which is `SlotProtected`: the two are proved from each other's previous state.
* `TokensCorrect`, `OwnSlotCorrect`: `Tokens` and `OwnSlot`, `ASSUME ~Reaping`. Without that
  hypothesis both are false (`ConnLifecycle_reaped.cfg`). `TokenInv` adds to `Tokens` that what
  is on its way somewhere is for a connection (`Real`), that the event of a watched descriptor
  finds the slot as it was (`Valid`), and that nobody works with the number main has just
  accepted (`Fresh`). `OneToken` counts tokens; the proof splits it into `Unique` (no two in one
  place), `Apart` (no two in different places), `Unarmed` and `Kept`. `OwnInv` adds
  that a cleanup about to close, and main with a number it has just accepted, find the slot
  reset (`Blank`). `CounterExact` needs lemmas about the cardinality of the open connections
  and of the threads inside a cleanup.

`FcgiPool_proofs` proves, for every set of threads, nodes and descriptors, every quota
(`ConfigAssumption`, `BoundAssumption`: finitely many threads) and, as to faults, under the
condition that each theorem names:

* `TypeCorrect`: `Spec => []TypeOK`, whatever fails; the clause worth having is that a session past
  acquire holds a descriptor and never -1;
* `QuotaCorrect`: `Spec => []OverQuota`, whatever fails. `active_counts[b] <= quota + threads - 1`
  is not inductive: the first check of acquire reads the count without the lock, and whoever
  passed it may add one later without looking. `OverQuota` therefore counts the threads
  between the check and the reuse (`Reusing`) as connections already. `QuotaCheck`: who
  enters `Reusing` was below the quota, and `Reusing` is at most every thread;
  `QuotaReuse`: what the count gains `Reusing` loses; `QuotaStore`: the second check is
  under the lock and its thread is not in `Reusing`; `QuotaRelease` only takes away.
  The choice of the first fitting slot needs a least element (`LeastMember`, from the
  well-foundedness of the numbers);
* `PoolCorrect`: `Spec => []PoolSound`, if backends may refuse, be slow and close idle connections
  but not die under a session (`Calm`), and groups have addresses and ports of their own
  (`OwnGroups`). `FcgiPool_stale.cfg` drops the first, `FcgiPool_counts.cfg` the second.
  `PoolInv` says for every session, slot and open socket which of the others it belongs to;
  the counts are then sums over slots and sessions that each step changes by one;
* `AnswerCorrect`: `AnswerOwn`, if backends do no worse than refuse and close idle connections, and
  every body leaves a turn for the response (`Prompt`: two turns more than chunks. `FcgiPool_timeout.cfg`
  drops the second, `FcgiPool_pieces.cfg` the first). That the attempts suffice is part of the
  proof: `InTime` adds the chunks still to send to the turns used so far. `Clean` says, for each point of a session, what its backend owes and what lies unread in
  the socket, and that a pooled socket has nothing of either.

`WsRegistry_proofs` proves, for every set of threads, descriptors, connections, topics and names, and
every hash (`RegistryAssumption`):

* `BooksCorrect`, `TablesCorrect`, `HierarchyCorrect`: with every operation and the reaper. `Books`
  joins the types, what each thread has at hand at each point (`Placed`), which mutexes it
  holds (`LocksInv`), and how slots, `fd_map`, descriptors and clients correspond (`Tidy`).
  `Hierarchy` is an action property; it follows from `LocksInv` in both states of a step.
* `NamesCorrect`: a client with a name in the user table has a slot, and its node is at the
  place its record says, `ASSUME Fits`: no name is cut (`WsRegistry_longname.cfg`).
* `SubsCorrect`, `LockedWriteCorrect`: a subscriber is on record and has a slot, and who writes
  under `client_lock` writes to a client that nobody removes, `ASSUME Quiet, Room`: nobody falls
  silent for 90 s, so that the reaper has nobody to take (what it does to others is finding 4),
  and a client can record every topic (`WsRegistry_topics.cfg`).
* `RecordedCorrect`, `NoDanglingCorrect`: from both, under all three. The pointer that a thread
  keeps after its unlock stays alive because the thread that could remove the client is the one
  that has its descriptor; that is why `Subs` speaks of every point of
  `ws_registry_add_to_topic`.

`Http2Session_proofs` proves the five invariants of `http2`, for every set of streams, every size of
files, frames and windows, every width of the windows' integers (`WindowSpan`, even, as 2^32 is) and
every `World` (`Http2Assumption`). The hypotheses on the client are those the invariants state
themselves. All rest on `TypeInv`, which adds to the types that a frame whose header was read
is one the client may send (`Heading`) and that a stream is in the table exactly from its first
HEADERS on (`Known`):

* `RearmedCorrect`: `Rearmed`, by the one step that parks.
* `FilesCorrect`: `FileOwned`. `FileInv` adds that the stream that holds a file has had the end of its
  request; a client that then sends HEADERS or DATA (`"again"`, `"more"`) routes it again over the open
  descriptor, and the theorem excepts it as the property does (finding 26).
* `WindowsCorrect`: `WindowsKept`, for any initial window that SETTINGS may announce below half of
  `WindowSpan` (2^31 in the code), above the default as well as below. `CreditInv` is about sessions
  in which nothing was sent without asking the windows (`unpaid` never goes back to zero, `Pays`). It
  adds what the frame being read is about to add (`Fitting`), for the client counts it when it sends it and the server when it dispatches it, and
  that SETTINGS passes over a stream not known yet (`Unused`).
* `OrderCorrect`: `WireOrder`. `OutInv` says the same of bytes written and pending together with
  their types. `Buffered` is a recursive function: that it distributes over concatenation
  is shown with the set of lengths for which it does (`BufferedConcat`), and that a run of
  `http2_frame_send` appends the pieces of its frames, whether or not one goes out
  in part, in the same way.
* `ShapeCorrect`: `ResponseShape`. `ShapeInv` adds how far the answer of each stream is (`Fit`): none
  while its client may still send, none while a backend works on it, begun and without its
  end while a file is being sent.

`Http1_proofs` proves the three invariants of `http1`, for every set of requests and frames of any
number and size, every way the bytes are cut, every size of files and of the buffer
(`Http1Assumption`), and clients that ask something, ask for the upgrade last and declare the
length they send unless `"undeclared"` is among the faults (`ClientAssumption`). The other
hypotheses are those the invariants state. `Invariance` is the joint inductive invariant; its parts:

* `TypeInv` adds to the types that the only file open is the session's, and that whoever
  answers has a request.
* `Flow`: the bytes not read yet, in OpenSSL or in the kernel, and the buffer are two slices of
  what the client sent (`Script`), one beginning where the other ends. `Order`: a request once
  answered lies before the buffer, and the one being answered ends its head inside it. `Limit`: the
  client sends no further than the answers allow. `Ended`: a closed connection has no request.
* `RequestCorrect`: `RequestKept`. `RequestInv` says that a session asks only at the beginning of a
  request and, while it answers, has nothing of the next one in its buffer, which is why
  emptying the buffer after a response loses nothing; it needs `Limit`, and is false of
  clients that send ahead (finding 21).
* `ResponsesCorrect`: `ResponsesWhole`. `AnswerInv` adds where the answer of the current request
  stands: none before the handler, of a file as much as `remaining` says once `header_sent` is set
  (`SoFar`), and all of the previous one (`Done`).
* `FramesCorrect`: `InOrder`. `FrameInv` adds that the bytes in the four buffers of the receiver are
  the slice of the script from the end of the last frame dispatched to what was read, and that each
  part before the one being filled has the length that the header announced (`Filled`).

`Script` is a concatenation of as many blocks as there are requests and frames. Where each begins
(`H`, `V`, `Mark`) is a function over the numbers of the blocks, and that a block lies where it
should (`ScriptLies`) is shown by the least number for which it does not.

`Services_proofs` proves four theorems with no hypothesis beyond the constants' assumptions:

* `LimitCorrect`: every request let through in this second holds a ticket, a pair of an entry and
  a number up to its count (`Tickets`); an address has at most `Limit` for each entry.
* `SizesCorrect`: `SizesSound` for every machine and configuration and integers of 16 bits or more.
  The lemmas bound each product and conversion; the interesting ones are those that wrap.
* `TablesCorrect`: the client's table is a beginning of the server's unless an addition was lost
  (`HpackInv`), because an entry has at least one octet, so that those that fit into
  `TableSize` octets are at most as many as the server keeps (`EntriesFit`).
* `RoutesCorrect`: `LoaderInv` says which routes the reload has written, `RequestInv` what a request
  has found among those it has seen, `FileInv` when `last_route_mtime` may hide a change.

`SignalStop_proofs` proves, for every set of workers, every number of signals and both values of
`Anywhere` (`ThreadsAssumption`), `ExclusionCorrect`: `Spec => []Exclusion`. `Exclusion` does not
say that a thread is inside one region only, without which leaving a region might not free
it: `Safe` adds that the owner has exactly one frame inside, and that a stack is one frame of
code with handlers above it. A step then moves the frame on top outside of every region
(`MoveOn`), into one when the lock is free (`MoveIn`), or out of one (`MoveOut`), and a
broadcast moves nobody in or out (`Woken`).

The same module proves `LinesCorrect`: `BgSpec => []LinesKept`, for every length of the log's queue as
well. `LinesInv` adds to the order of the lines (`Arranged`) that the logger has a line in hand
exactly while it writes, and that it leaves only when it was told to and with nothing queued, which
is after main's last line (`LoggerInv`). `Watched` is a recursive function; that it distributes over
appending and over taking the head (`WatchedAppend`, `WatchedHead`) is shown
with the smallest index at which it would not.

Proving asked for a few changes, most of them of form: `Without` and `FindUser` of `WsRegistry`,
`Watched` of `Background`, the sizes of `Hpack`, `SendAll` of `Http2Session` and `Buffered` of
`Http2SessionProps` are no longer recursive operators (`AllPieces` is a closed form and `ResponseShape`
speaks of sets of positions); `Http2Session` takes an even `WindowSpan`; `Adaptive`, `Hpack` and `Routes` state of their
constants what they had taken for granted (`FpmLines` are sequences of numbers, a value is none
of the markers of `Special`, a route is a `RouteEntry`). Two are of substance, both of `Http1Session`:
its clients are described (`ClientAssumption`), and `InOrder` names a second fault, an undeclared
body, with which it does not hold of every client.

Liveness (`Drains`, `Ended`, `Ends`, `Progress`, `EveryAnswer`, `Yields`, `Finishes`) is
model-checked only: TLAPS does not reason about fairness and `ENABLED` here. So are the findings,
each by the counterexample of a run or of an instance of section 3.

## 7. Not modelled

* Configuration, header fields of HTTP/1, multipart, utilities, TLS records and the TCP listener:
  sequential text processing or wrappers of system calls, without concurrency or state that
  outlives a call. Of HPACK the bytes: integers and Huffman codes (the 4900 lines of
  `halmos_http2_hpack.c` above its first function are their tables), and names longer than
  `HPACK_NAME_MAX`.
* `ws_registry_destroy` runs in main while the detached maintenance thread may be inside the
  registry; `ws_registry_add_h2` has no caller, so no HTTP/2 stream is ever a registered
  client. `http_route_auto_reload` and `route_load` have no caller either, nor has
  `http1_response_send_dir_listing`. `get_adaptive_timeout` only chooses the length of a wait.
* Bytes within a FastCGI record, and what a response says; the contents of JSON messages.
* Lines of `.htroute` that do not parse, of which the code keeps the slot half written.
* Failure of `pthread_create` for logger, monitor and janitor, and of `fopen` for a log file: the
  code prints and goes on; the models take them to succeed.

## 8. Plan

Modelling is complete as far as section 7 says, and every invariant and action property that a
passing run checks is proved. What could come next are the bytes of FastCGI records, of which
section 7 says what is left out, and liveness, once a prover for it is at hand.
