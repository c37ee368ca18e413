----------------------------- MODULE ConnLifecycle -----------------------------
(***************************************************************************)
(* The life of a client connection: halmos_core_event_loop.c (accept,      *)
(* report, push, rearm, cleanup), halmos_core_conn_table.c (the slot of a  *)
(* descriptor with its generation, active flag, io_lock and protocol       *)
(* session), halmos_core_thread_pool.c (validate, lock, dispatch, rearm or *)
(* close) and the reaper of halmos_ws_registry.c, which closes descriptors *)
(* beside all that.                                                        *)
(*                                                                         *)
(* Descriptors are reused: the kernel hands a closed number to the next    *)
(* accept.  So connections have identities of their own, 1, 2, ..., and    *)
(* every task, session and websocket flag remembers the connection it was  *)
(* made for; NoConn is 0.  The code does not have these identities.        *)
(*                                                                         *)
(* The queue is the channel of TaskChannel, which TaskQueue implements.    *)
(* The pool has a fixed set of workers here; TaskQueue lets it grow.       *)
(* TLS is left out: conn->ssl follows the session.                         *)
(***************************************************************************)
EXTENDS Integers, Sequences, FiniteSets

CONSTANTS
  Fd,           (* descriptors the kernel may return from accept            *)
  OutOfRange,   (* those not below g_max_fd: they have no slot              *)
  Worker,       (* the threads of the pool                                  *)
  Main,         (* the thread of the event loop                             *)
  NoThread,     (* the holder of a free io_lock                             *)
  NoJob,        (* the job of a thread that handles no descriptor           *)
  MaxConn,      (* bound: how many connections are ever accepted            *)
  BatchSize,    (* g_event_batch_size                                       *)
  QueueLimit,   (* max_queue_limit of the task queue                        *)
  GenModulus,   (* generation is a uint32_t: 2^32                           *)
  Upgrades,     (* whether clients ask for /ws                              *)
  Reaping       (* whether the maintenance thread finds dead clients        *)

ASSUME ThreadAssumption ==
  /\ Main \notin Worker
  /\ NoThread \notin Worker \cup {Main}
  /\ IsFiniteSet(Worker)

ASSUME BoundAssumption ==
  /\ IsFiniteSet(Fd)
  /\ OutOfRange \subseteq Fd
  /\ MaxConn \in Nat
  /\ BatchSize \in Nat \ {0}
  /\ QueueLimit \in Nat \ {0}
  /\ GenModulus \in Nat \ {0}
  /\ {Upgrades, Reaping} \subseteq BOOLEAN

Thread == Worker \cup {Main}
Slot   == Fd \ OutOfRange          (* descriptors core_conn_t_get knows     *)
NoConn == 0
Conn   == 1 .. MaxConn
Job    == [fd : Fd, gen : 0 .. GenModulus - 1, conn : 0 .. MaxConn]

ASSUME NoJobAssumption == NoJob \notin Job

VARIABLES
  sock,                 (* the connection behind each descriptor            *)
  watch,                (* its epoll registration                           *)
  accepted,             (* how many connections were accepted               *)
  generation, active,   (* the fields of each slot ...                      *)
  session,              (* ... protocol_session                             *)
  io_lock,              (* ... and the thread that holds the lock           *)
  active_connections,   (* global_telemetry.active_connections              *)
  server_running,
  is_running,           (* global_queue.is_running                          *)
  batch,                (* events epoll_wait returned, not yet handled      *)
  listener,             (* the listening socket in that array               *)
  queue,                (* the task queue                                   *)
  pc, job,              (* each thread and the descriptor it handles        *)
  ws_fd_map,            (* the websocket flag of each descriptor            *)
  registry,             (* the client ws_registry has for a descriptor      *)
  victims, reaping      (* dead_fds of the reaper, the one it is removing   *)

kernelVars == <<sock, watch, accepted>>
slotVars   == <<generation, active, session, io_lock>>
flagVars   == <<server_running, is_running>>
loopVars   == <<batch, listener>>
wsVars     == <<ws_fd_map, registry, victims, reaping>>
threadVars == <<pc, job>>
vars == <<kernelVars, slotVars, active_connections, flagVars, loopVars, queue,
          threadVars, wsVars>>

Channel == INSTANCE TaskChannel
  WITH chan <- queue, open <- is_running, Capacity <- QueueLimit, Event <- Job

(* "silent" is a registration whose one shot was used: EPOLLONESHOT.       *)
Watch == {"none", "armed", "silent"}

CleanupPoint == {"uncount", "del", "lockslot", "reset", "close", "release"}
MainPoint == CleanupPoint \cup
  {"loop", "accept", "count", "activate", "refused", "add", "push",
   "stopping", "discard", "stopped"}
WorkerPoint == CleanupPoint \cup
  {"pop", "active?", "generation?", "lock", "recheck", "dispatch", "rearm",
   "unlock", "unlockclose", "idle", "exited"}

Goto(t, p) == pc' = [pc EXCEPT ![t] = p]

(* The thread leaves the descriptor it handles and goes on at p.           *)
Drop(t, p) ==
  /\ Goto(t, p)
  /\ job' = [job EXCEPT ![t] = NoJob]

(* What a close() of number f does, whoever calls it: the socket goes, and *)
(* the kernel takes it out of epoll.                                       *)
CloseFd(f) ==
  /\ sock' = [sock EXCEPT ![f] = NoConn]
  /\ watch' = [watch EXCEPT ![f] = "none"]

(* core_conn_t_is_valid: the slot still belongs to the lifetime j is from. *)
(* (state is DEAD exactly when active is FALSE, so it is not modelled.)    *)
IsValid(j) == active[j.fd] /\ generation[j.fd] = j.gen

-----------------------------------------------------------------------------
Init ==
  /\ sock = [f \in Fd |-> NoConn]
  /\ watch = [f \in Fd |-> "none"]
  /\ accepted = 0
  /\ generation = [f \in Slot |-> 0]
  /\ active = [f \in Slot |-> FALSE]
  /\ session = [f \in Slot |-> NoConn]
  /\ io_lock = [f \in Slot |-> NoThread]
  /\ active_connections = 0
  /\ server_running = TRUE
  /\ Channel!Init
  /\ batch = {}
  /\ listener = "quiet"
  /\ pc = [t \in Thread |-> IF t = Main THEN "loop" ELSE "pop"]
  /\ job = [t \in Thread |-> NoJob]
  /\ ws_fd_map = [f \in Fd |-> NoConn]
  /\ registry = [f \in Fd |-> NoConn]
  /\ victims = {}
  /\ reaping = {}

(***************************************************************************)
(* The event loop: epoll_wait and the accept loop.                         *)
(***************************************************************************)

(* What epoll_wait may return: up to BatchSize armed descriptors, each with *)
(* something to read or write or hung up by its peer, and the listener.    *)
Report(S, l) ==
  /\ pc[Main] = "loop" /\ server_running
  /\ batch = {} /\ listener = "quiet"
  /\ Cardinality(S) <= BatchSize
  /\ S # {} \/ l = "ready"
  /\ l = "ready" => accepted < MaxConn
  /\ \E hup \in SUBSET S :
       batch' = {[fd |-> f, conn |-> sock[f], hup |-> f \in hup] : f \in S}
  /\ listener' = l
  /\ UNCHANGED <<sock, accepted, slotVars, active_connections, flagVars, queue,
                 threadVars, wsVars>>

Armed == {f \in Fd : watch[f] = "armed"}

(* Fault: EPOLLONESHOT is missing, a descriptor stays armed. *)
EpollWaitLevel ==
  \E S \in SUBSET Armed, l \in {"quiet", "ready"} :
    /\ Report(S, l)
    /\ UNCHANGED watch

(* The one shot of each reported descriptor is used up.                    *)
EpollWait ==
  \E S \in SUBSET Armed, l \in {"quiet", "ready"} :
    /\ Report(S, l)
    /\ watch' = [f \in Fd |-> IF f \in S THEN "silent" ELSE watch[f]]

(* After the signal sock_server is -1: its event, if it was reported       *)
(* before, is taken for a client's.  Main cleans up a number without a     *)
(* connection and closes whatever file has it by now, never a client's, as *)
(* nobody accepts any more.                                                *)
TakeListener ==
  /\ pc[Main] = "loop" /\ listener = "ready"
  /\ IF server_running
       THEN listener' = "accepting" /\ Goto(Main, "accept")
       ELSE listener' = "quiet" /\ UNCHANGED pc
  /\ UNCHANGED <<kernelVars, slotVars, active_connections, flagVars, batch, queue,
                 job, wsVars>>

Accept(f) ==
  /\ pc[Main] = "accept" /\ server_running
  /\ accepted < MaxConn
  /\ sock[f] = NoConn
  /\ accepted' = accepted + 1
  /\ sock' = [sock EXCEPT ![f] = accepted']
  /\ job' = [job EXCEPT ![Main] = [fd |-> f, gen |-> 0, conn |-> accepted']]
  /\ Goto(Main, "count")
  /\ UNCHANGED <<watch, slotVars, active_connections, flagVars, loopVars, queue,
                 wsVars>>

(* EAGAIN, another error of accept, or the loop sees server_running = 0.   *)
AcceptEnds ==
  /\ pc[Main] = "accept"
  /\ listener' = "quiet"
  /\ Goto(Main, "loop")
  /\ UNCHANGED <<kernelVars, slotVars, active_connections, flagVars, batch, queue,
                 job, wsVars>>

CountConnection ==
  /\ pc[Main] = "count"
  /\ active_connections' = active_connections + 1
  /\ Goto(Main, "activate")
  /\ UNCHANGED <<kernelVars, slotVars, flagVars, loopVars, queue, job, wsVars>>

(* Fault: the slot is reset without its lock. *)
ActivateUnlocked ==
  LET f == job[Main].fd
  IN  /\ pc[Main] = "activate" /\ f \in Slot
      /\ generation' = [generation EXCEPT ![f] = (@ + 1) % GenModulus]
      /\ session' = [session EXCEPT ![f] = NoConn]
      /\ active' = [active EXCEPT ![f] = TRUE]
      /\ job' = [job EXCEPT ![Main].gen = generation'[f]]
      /\ Goto(Main, IF generation'[f] = 0 THEN "refused" ELSE "add")
      /\ UNCHANGED <<kernelVars, io_lock, active_connections, flagVars, loopVars,
                     queue, wsVars>>

(* core_conn_t_activate on a slot: under io_lock, a new generation, the    *)
(* session of an earlier lifetime destroyed.  The caller takes generation  *)
(* 0, which a slot reaches after 2^32 lifetimes, for a missing slot.       *)
Activate ==
  LET f == job[Main].fd
  IN  /\ pc[Main] = "activate" /\ f \in Slot
      /\ io_lock[f] = NoThread
      /\ generation' = [generation EXCEPT ![f] = (@ + 1) % GenModulus]
      /\ session' = [session EXCEPT ![f] = NoConn]
      /\ active' = [active EXCEPT ![f] = TRUE]
      /\ job' = [job EXCEPT ![Main].gen = generation'[f]]
      /\ Goto(Main, IF generation'[f] = 0 THEN "refused" ELSE "add")
      /\ UNCHANGED <<kernelVars, io_lock, active_connections, flagVars, loopVars,
                     queue, wsVars>>

(* ... and on a descriptor at or above g_max_fd, which returns 0.          *)
ActivateOutOfRange ==
  /\ pc[Main] = "activate" /\ job[Main].fd \in OutOfRange
  /\ Goto(Main, "refused")
  /\ UNCHANGED <<kernelVars, slotVars, active_connections, flagVars, loopVars,
                 queue, job, wsVars>>

(* close, uncount and break out of the accept loop.                        *)
Refuse ==
  /\ pc[Main] = "refused"
  /\ CloseFd(job[Main].fd)
  /\ active_connections' = active_connections - 1
  /\ listener' = "quiet"
  /\ Drop(Main, "loop")
  /\ UNCHANGED <<accepted, slotVars, flagVars, batch, queue, wsVars>>

(* epoll_ctl(ADD), after which the accept loop goes on.                    *)
AddToEpoll ==
  LET f == job[Main].fd
  IN  /\ pc[Main] = "add"
      /\ sock[f] # NoConn
      /\ watch' = [watch EXCEPT ![f] = "armed"]
      /\ Drop(Main, "accept")
      /\ UNCHANGED <<sock, accepted, slotVars, active_connections, flagVars,
                     loopVars, queue, wsVars>>

(* epoll_ctl(ADD) may fail for want of memory or of a live descriptor.     *)
AddFails ==
  /\ pc[Main] = "add"
  /\ Goto(Main, "uncount")
  /\ UNCHANGED <<kernelVars, slotVars, active_connections, flagVars, loopVars,
                 queue, job, wsVars>>

(***************************************************************************)
(* The event loop: a reported descriptor.                                  *)
(***************************************************************************)

(* Main turns to the reported descriptor of e, with generation g.          *)
Handle(e, g, p) ==
  /\ pc[Main] = "loop" /\ e \in batch
  /\ batch' = batch \ {e}
  /\ job' = [job EXCEPT ![Main] = [fd |-> e.fd, gen |-> g, conn |-> e.conn]]
  /\ Goto(Main, p)
  /\ UNCHANGED <<kernelVars, slotVars, active_connections, flagVars, listener,
                 queue, wsVars>>

(* EPOLLERR, EPOLLHUP: uncount and clean up.                               *)
HandleHup(e) ==
  /\ e.hup
  /\ Handle(e, 0, "uncount")

(* The server is stopping: clean up, and leave the counter as it is.       *)
HandleIoStopping(e) ==
  /\ ~e.hup /\ ~server_running
  /\ Handle(e, 0, "del")

(* Nobody owns the slot: the event is dropped.                             *)
HandleIoInactive(e) ==
  /\ pc[Main] = "loop" /\ e \in batch
  /\ ~e.hup /\ server_running
  /\ ~active[e.fd]
  /\ batch' = batch \ {e}
  /\ UNCHANGED <<kernelVars, slotVars, active_connections, flagVars, listener,
                 queue, threadVars, wsVars>>

(* The event is built with the generation the slot has now.                *)
HandleIo(e) ==
  /\ ~e.hup /\ server_running
  /\ active[e.fd]
  /\ Handle(e, generation[e.fd], "push")

PushAccepted ==
  /\ pc[Main] = "push"
  /\ Channel!Offer(job[Main])
  /\ Drop(Main, "loop")
  /\ UNCHANGED <<kernelVars, slotVars, active_connections, server_running,
                 loopVars, wsVars>>

(* The queue is full, or malloc failed: answer 503, uncount, clean up.     *)
PushFails ==
  /\ pc[Main] = "push"
  /\ Goto(Main, "uncount")
  /\ UNCHANGED <<kernelVars, slotVars, active_connections, flagVars, loopVars,
                 queue, job, wsVars>>

(***************************************************************************)
(* core_event_loop_cleanup_connection, run by main and by the workers.     *)
(***************************************************************************)

(* The caller goes on: main with its accept loop or its batch.             *)
CleanupEnd(t) ==
  \/ t # Main /\ Goto(t, "idle") /\ UNCHANGED job
  \/ t = Main /\ Drop(t, IF listener = "accepting" THEN "accept" ELSE "loop")

(* atomic_fetch_sub(&active_connections) before the call.                  *)
Uncount(t) ==
  /\ pc[t] = "uncount"
  /\ active_connections' = active_connections - 1
  /\ Goto(t, "del")
  /\ UNCHANGED <<kernelVars, slotVars, flagVars, loopVars, queue, job, wsVars>>

(* epoll_ctl(DEL).  Only a number with a slot comes here.                  *)
CleanupDel(t) ==
  /\ pc[t] = "del"
  /\ watch' = [watch EXCEPT ![job[t].fd] = "none"]
  /\ Goto(t, "lockslot")
  /\ UNCHANGED <<sock, accepted, slotVars, active_connections, flagVars, loopVars,
                 queue, job, wsVars>>

(* Fault: the cleanup does not take the lock. *)
CleanupLockSkipped(t) ==
  /\ pc[t] = "lockslot"
  /\ Goto(t, "reset")
  /\ UNCHANGED <<kernelVars, slotVars, active_connections, flagVars, loopVars,
                 queue, job, wsVars>>

CleanupLock(t) ==
  LET f == job[t].fd
  IN  /\ pc[t] = "lockslot"
      /\ io_lock[f] = NoThread
      /\ io_lock' = [io_lock EXCEPT ![f] = t]
      /\ Goto(t, "reset")
      /\ UNCHANGED <<kernelVars, generation, active, session, active_connections,
                     flagVars, loopVars, queue, job, wsVars>>

(* Fault: the session survives the connection. *)
CleanupResetForgets(t) ==
  LET f == job[t].fd
  IN  /\ pc[t] = "reset"
      /\ active' = [active EXCEPT ![f] = FALSE]
      /\ Goto(t, "close")
      /\ UNCHANGED <<kernelVars, generation, session, io_lock, active_connections,
                     flagVars, loopVars, queue, job, wsVars>>

(* The slot dies, ws_system_cleanup_fd removes a websocket client, and the *)
(* protocol session is destroyed.                                          *)
CleanupReset(t) ==
  LET f == job[t].fd
  IN  /\ pc[t] = "reset"
      /\ active' = [active EXCEPT ![f] = FALSE]
      /\ session' = [session EXCEPT ![f] = NoConn]
      /\ ws_fd_map' = [ws_fd_map EXCEPT ![f] = NoConn]
      /\ registry' = IF ws_fd_map[f] = NoConn THEN registry
                     ELSE [registry EXCEPT ![f] = NoConn]
      /\ Goto(t, "close")
      /\ UNCHANGED <<kernelVars, generation, io_lock, active_connections, flagVars,
                     loopVars, queue, job, victims, reaping>>

CleanupClose(t) ==
  /\ pc[t] = "close"
  /\ CloseFd(job[t].fd)
  /\ Goto(t, "release")
  /\ UNCHANGED <<accepted, slotVars, active_connections, flagVars, loopVars, queue,
                 job, wsVars>>

(* Fault: the cleanup returns with the lock held. *)
CleanupKeepsLock(t) ==
  /\ pc[t] = "release"
  /\ CleanupEnd(t)
  /\ UNCHANGED <<kernelVars, slotVars, active_connections, flagVars, loopVars,
                 queue, wsVars>>

CleanupUnlock(t) ==
  /\ pc[t] = "release"
  /\ io_lock' = [io_lock EXCEPT ![job[t].fd] = NoThread]
  /\ CleanupEnd(t)
  /\ UNCHANGED <<kernelVars, generation, active, session, active_connections,
                 flagVars, loopVars, queue, wsVars>>

Cleanup(t) ==
  \/ Uncount(t) \/ CleanupDel(t) \/ CleanupLock(t)
  \/ CleanupReset(t) \/ CleanupClose(t) \/ CleanupUnlock(t)

(***************************************************************************)
(* A worker: core_thread_pool_worker.                                      *)
(***************************************************************************)

PopJob(w) ==
  /\ pc[w] = "pop"
  /\ Channel!Take
  /\ job' = [job EXCEPT ![w] = Head(queue)]
  /\ Goto(w, "active?")
  /\ UNCHANGED <<kernelVars, slotVars, active_connections, server_running,
                 loopVars, wsVars>>

(* core_queue_pop returns -3.                                              *)
WorkerExits(w) ==
  /\ pc[w] = "pop"
  /\ ~is_running
  /\ Goto(w, "exited")
  /\ UNCHANGED <<kernelVars, slotVars, active_connections, flagVars, loopVars,
                 queue, job, wsVars>>

(* The first, unlocked core_conn_t_is_valid loads active ...               *)
CheckActive(w) ==
  /\ pc[w] = "active?"
  /\ Goto(w, IF active[job[w].fd] THEN "generation?" ELSE "idle")
  /\ UNCHANGED <<kernelVars, slotVars, active_connections, flagVars, loopVars,
                 queue, job, wsVars>>

(* ... and then generation.                                                *)
CheckGeneration(w) ==
  /\ pc[w] = "generation?"
  /\ Goto(w, IF generation[job[w].fd] = job[w].gen THEN "lock" ELSE "idle")
  /\ UNCHANGED <<kernelVars, slotVars, active_connections, flagVars, loopVars,
                 queue, job, wsVars>>

LockSlot(w) ==
  LET f == job[w].fd
  IN  /\ pc[w] = "lock"
      /\ io_lock[f] = NoThread
      /\ io_lock' = [io_lock EXCEPT ![f] = w]
      /\ Goto(w, "recheck")
      /\ UNCHANGED <<kernelVars, generation, active, session, active_connections,
                     flagVars, loopVars, queue, job, wsVars>>

(* Fault: the second validation is missing. *)
RecheckSkipped(w) ==
  /\ pc[w] = "recheck"
  /\ Goto(w, "dispatch")
  /\ UNCHANGED <<kernelVars, slotVars, active_connections, flagVars, loopVars,
                 queue, job, wsVars>>

(* The second core_conn_t_is_valid; every writer of the two fields takes   *)
(* the lock while workers exist, so it is one step.                        *)
Recheck(w) ==
  LET f == job[w].fd
  IN  /\ pc[w] = "recheck"
      /\ \/ /\ IsValid(job[w])
            /\ Goto(w, "dispatch")
            /\ UNCHANGED io_lock
         \/ /\ ~IsValid(job[w])
            /\ Goto(w, "idle")
            /\ io_lock' = [io_lock EXCEPT ![f] = NoThread]
      /\ UNCHANGED <<kernelVars, generation, active, session, active_connections,
                     flagVars, loopVars, queue, job, wsVars>>

(* http_bridge_dispatch of a request: the session of the connection is     *)
(* made on its first request and kept for the later ones.  The status asks *)
(* for a rearm (1, 2, 3, 4) or for the end of the connection (0, -1).      *)
Dispatch(w) ==
  LET f == job[w].fd
  IN  /\ pc[w] = "dispatch"
      /\ ws_fd_map[f] = NoConn
      /\ session' = IF session[f] # NoConn THEN session
                    ELSE [session EXCEPT ![f] = sock[f]]
      /\ \E p \in {"rearm", "unlockclose"} : Goto(w, p)
      /\ UNCHANGED <<kernelVars, generation, active, io_lock, active_connections,
                     flagVars, loopVars, queue, job, wsVars>>

(* The request is an upgrade to /ws: register the client, when a slot is   *)
(* left, and mark the descriptor.                                          *)
DispatchUpgrade(w) ==
  LET f == job[w].fd
  IN  /\ Upgrades
      /\ pc[w] = "dispatch"
      /\ ws_fd_map[f] = NoConn /\ sock[f] # NoConn
      /\ session' = IF session[f] # NoConn THEN session
                    ELSE [session EXCEPT ![f] = sock[f]]
      /\ ws_fd_map' = [ws_fd_map EXCEPT ![f] = sock[f]]
      /\ \/ registry' = [registry EXCEPT ![f] = sock[f]]
         \/ UNCHANGED registry
      /\ Goto(w, "rearm")
      /\ UNCHANGED <<kernelVars, generation, active, io_lock, active_connections,
                     flagVars, loopVars, queue, job, victims, reaping>>

(* ws_system_dispatch: whatever comes from a marked descriptor is taken    *)
(* for websocket frames.                                                   *)
DispatchFrames(w) ==
  LET f == job[w].fd
  IN  /\ pc[w] = "dispatch"
      /\ ws_fd_map[f] # NoConn
      /\ \E p \in {"rearm", "unlockclose"} : Goto(w, p)
      /\ UNCHANGED <<kernelVars, slotVars, active_connections, flagVars, loopVars,
                     queue, job, wsVars>>

(* epoll_ctl(MOD) arms a descriptor that is registered, under io_lock.     *)
Rearm(w) ==
  LET f == job[w].fd
  IN  /\ pc[w] = "rearm"
      /\ watch' = [watch EXCEPT ![f] = IF @ = "none" THEN "none" ELSE "armed"]
      /\ Goto(w, "unlock")
      /\ UNCHANGED <<sock, accepted, slotVars, active_connections, flagVars,
                     loopVars, queue, job, wsVars>>

(* The lock is released after the rearm, or before the cleanup, which      *)
(* takes it again.                                                         *)
UnlockSlot(w) ==
  /\ pc[w] \in {"unlock", "unlockclose"}
  /\ io_lock' = [io_lock EXCEPT ![job[w].fd] = NoThread]
  /\ Goto(w, IF pc[w] = "unlock" THEN "idle" ELSE "uncount")
  /\ UNCHANGED <<kernelVars, generation, active, session, active_connections,
                 flagVars, loopVars, queue, job, wsVars>>

MarkIdle(w) ==
  /\ pc[w] = "idle"
  /\ Drop(w, "pop")
  /\ UNCHANGED <<kernelVars, slotVars, active_connections, flagVars, loopVars,
                 queue, wsVars>>

(***************************************************************************)
(* The maintenance thread: ws_registry_reaper.                             *)
(***************************************************************************)

(* Under registry_lock: the clients not heard of for 90 seconds.           *)
ReapCollect ==
  /\ Reaping
  /\ victims = {} /\ reaping = {}
  /\ \E S \in SUBSET {f \in Fd : registry[f] # NoConn} :
       /\ S # {}
       /\ victims' = S
  /\ UNCHANGED <<kernelVars, slotVars, active_connections, flagVars, loopVars,
                 queue, threadVars, ws_fd_map, registry, reaping>>

(* After the lock was released: close(dead_fds[i]), by number.             *)
ReapClose(f) ==
  /\ f \in victims /\ reaping = {}
  /\ CloseFd(f)
  /\ victims' = victims \ {f}
  /\ reaping' = {f}
  /\ UNCHANGED <<accepted, slotVars, active_connections, flagVars, loopVars, queue,
                 threadVars, ws_fd_map, registry>>

(* ws_registry_remove(dead_fds[i]); the slot and ws_fd_map are not told.   *)
ReapRemove(f) ==
  /\ f \in reaping
  /\ registry' = [registry EXCEPT ![f] = NoConn]
  /\ reaping' = {}
  /\ UNCHANGED <<kernelVars, slotVars, active_connections, flagVars, loopVars,
                 queue, threadVars, ws_fd_map, victims>>

(***************************************************************************)
(* Shutdown.                                                               *)
(***************************************************************************)

(* core_event_loop_stop, called by the signal handler: it clears both flags *)
(* and closes the listener, whose state is from then on that of            *)
(* server_running.  A later signal finds all of it done.                   *)
Signal ==
  /\ server_running' = FALSE
  /\ Channel!Close
  /\ UNCHANGED <<kernelVars, slotVars, active_connections, loopVars, threadVars,
                 wsVars>>

(* The loop has handled its last batch and closes epoll_fd.                *)
LoopEnds ==
  /\ pc[Main] = "loop" /\ ~server_running
  /\ batch = {} /\ listener = "quiet"
  /\ watch' = [f \in Fd |-> "none"]
  /\ Goto(Main, "stopping")
  /\ UNCHANGED <<sock, accepted, slotVars, active_connections, flagVars, loopVars,
                 queue, job, wsVars>>

WorkersGone ==
  /\ pc[Main] = "stopping"
  /\ \A w \in Worker : pc[w] = "exited"
  /\ Goto(Main, "discard")
  /\ UNCHANGED <<kernelVars, slotVars, active_connections, flagVars, loopVars,
                 queue, job, wsVars>>

(* core_conn_t_deactivate and close for each event still queued.  Nobody   *)
(* else uses the table any more, so the list is one step.                  *)
DiscardQueue ==
  LET dropped == {queue[i].fd : i \in DOMAIN queue}
  IN  /\ pc[Main] = "discard"
      /\ Channel!Discard
      /\ active' = [f \in Slot |-> active[f] /\ f \notin dropped]
      /\ session' = [f \in Slot |-> IF f \in dropped THEN NoConn ELSE session[f]]
      /\ sock' = [f \in Fd |-> IF f \in dropped THEN NoConn ELSE sock[f]]
      /\ Goto(Main, "stopped")
      /\ UNCHANGED <<watch, accepted, generation, io_lock, active_connections,
                     server_running, loopVars, job, wsVars>>

-----------------------------------------------------------------------------
MainStep ==
  \/ EpollWait \/ TakeListener \/ AcceptEnds
  \/ \E f \in Fd : Accept(f)
  \/ CountConnection \/ Activate \/ ActivateOutOfRange \/ Refuse
  \/ AddToEpoll \/ AddFails
  \/ \E e \in batch : \/ HandleHup(e) \/ HandleIoStopping(e)
                       \/ HandleIoInactive(e) \/ HandleIo(e)
  \/ PushAccepted \/ PushFails
  \/ Cleanup(Main)
  \/ LoopEnds \/ WorkersGone \/ DiscardQueue

WorkerStep(w) ==
  \/ PopJob(w) \/ WorkerExits(w)
  \/ CheckActive(w) \/ CheckGeneration(w) \/ LockSlot(w) \/ Recheck(w)
  \/ Dispatch(w) \/ DispatchUpgrade(w) \/ DispatchFrames(w)
  \/ Rearm(w) \/ UnlockSlot(w) \/ MarkIdle(w)
  \/ Cleanup(w)

ReaperStep ==
  \/ ReapCollect
  \/ \E f \in Fd : ReapClose(f) \/ ReapRemove(f)

Next ==
  \/ MainStep
  \/ \E w \in Worker : WorkerStep(w)
  \/ ReaperStep
  \/ Signal

Spec == Init /\ [][Next]_vars
=============================================================================
