------------------------------ MODULE TaskQueue ------------------------------
(***************************************************************************)
(* The task queue and the adaptive pool of detached workers:               *)
(* halmos_core_queue.c, the worker loop of halmos_core_thread_pool.c and   *)
(* the part of main.c and halmos_core_event_loop.c that starts, feeds and  *)
(* stops them.                                                             *)
(*                                                                         *)
(* One thread, main, pushes events and finally stops the pool; the worker  *)
(* threads pop.  Every region the code runs under TaskQueue.lock without   *)
(* blocking is one action; the points where the lock is released (the      *)
(* spawn loop of push, the waits on cond and exit_cond) are separate       *)
(* control points.  Time is left out: a timed wait may expire at any time. *)
(***************************************************************************)
EXTENDS Integers, Sequences, FiniteSets

CONSTANTS
  Worker,       (* thread identities pthread_create can hand out            *)
  Event,        (* what epoll reports: one value per watched descriptor     *)
  NoEvent,      (* a worker that serves nothing                             *)
  MinThreads,   (* min_threads_limit, from g_worker_min                     *)
  MaxThreads,   (* max_threads_limit, from g_worker_max                     *)
  QueueLimit,   (* max_queue_limit, from g_queue_capacity                   *)
  MayFail,      (* which system calls may fail: "start" pthread_create at   *)
                (* start-up, "scale" pthread_create while upscaling,        *)
                (* "alloc" the malloc of a task                             *)
  EarlySignal   (* whether SIGTERM may come before the event loop started   *)

ASSUME NoEventAssumption == NoEvent \notin Event

ASSUME LimitsAssumption ==
  /\ MinThreads \in Nat \ {0}
  /\ MaxThreads \in Nat
  /\ MinThreads <= MaxThreads
  /\ QueueLimit \in Nat \ {0}

ASSUME WorkerAssumption == IsFiniteSet(Worker)

ASSUME EnvironmentAssumption ==
  /\ MayFail \subseteq {"start", "scale", "alloc"}
  /\ EarlySignal \in BOOLEAN

VARIABLES
  queue,                (* the linked list head..tail; count is its length  *)
  total_workers,
  active_workers,
  scaling_in_progress,
  is_running,
  server_running,       (* the flag event loop and signal handler share     *)
  main,                 (* where the main thread is                         *)
  event_item,           (* the event main is about to push, or NoEvent      *)
  spawn_left,           (* threads its spawn loop has still to create       *)
  spawn_failed,         (* spawn_count - actually_spawned so far            *)
  worker,               (* where each worker thread is                      *)
  held,                 (* the event each worker is serving                 *)
  unborn                (* history: initial workers that were never created *)

poolVars == <<total_workers, active_workers, scaling_in_progress>>
runVars == <<is_running, server_running>>
spawnVars == <<spawn_left, spawn_failed, unborn>>
mainVars == <<main, event_item, spawnVars>>
workerVars == <<worker, held>>
vars == <<queue, poolVars, runVars, mainVars, workerVars>>

MainPoint == {"init", "evstart", "poll", "push", "scale", "release",
              "stop", "exitwait", "discard", "stopped"}

(* "none" is a thread that was not created or has returned, "pop" one      *)
(* about to take the lock in core_queue_pop, "asleep" one blocked in       *)
(* pthread_cond_timedwait, "woken" and "timedout" one that left the wait   *)
(* with rc = 0 or ETIMEDOUT and wants the lock back, "serve" one inside    *)
(* http_bridge_dispatch, "idle" one that has rearmed or closed its         *)
(* descriptor and will call mark_worker_idle.                              *)
WorkerPoint == {"none", "pop", "asleep", "woken", "timedout", "serve", "idle"}

At(p)   == {w \in Worker : worker[w] = p}
Live    == Worker \ At("none")
Asleep  == At("asleep")
Ready   == {w \in Worker : worker[w] \in {"pop", "woken", "timedout"}}
Busy    == {w \in Worker : worker[w] \in {"serve", "idle"}}

(* EPOLLONESHOT: a descriptor is silent from the moment its event was      *)
(* reported until the worker that served it rearms it.                     *)
Queued      == {queue[i] : i \in DOMAIN queue}
Outstanding == Queued \cup {held[w] : w \in Worker} \cup {event_item}

Move(w, p) == worker' = [worker EXCEPT ![w] = p]

(* pthread_cond_broadcast(&cond) *)
WakeAll ==
  worker' = [w \in Worker |-> IF worker[w] = "asleep" THEN "woken" ELSE worker[w]]

(* Fault: push forgets pthread_cond_signal. *)
WakeNone == UNCHANGED worker

(* pthread_cond_signal(&cond): one sleeper, when there is one *)
WakeOne ==
  \/ Asleep = {} /\ UNCHANGED worker
  \/ \E w \in Asleep : Move(w, "woken")

-----------------------------------------------------------------------------
(* core_queue_thread_worker_start has run init_queue and enters its loop.  *)
Init ==
  /\ queue = <<>>
  /\ total_workers = MinThreads
  /\ active_workers = 0
  /\ scaling_in_progress = FALSE
  /\ is_running = TRUE
  /\ server_running = TRUE
  /\ main = "init"
  /\ event_item = NoEvent
  /\ spawn_left = MinThreads
  /\ spawn_failed = 0
  /\ worker = [w \in Worker |-> "none"]
  /\ held = [w \in Worker |-> NoEvent]
  /\ unborn = 0

(***************************************************************************)
(* The main thread: start-up.                                              *)
(***************************************************************************)

(* spawn_detached_worker succeeds, at start-up or while upscaling.         *)
SpawnWorker(w) ==
  /\ main \in {"init", "scale"}
  /\ spawn_left > 0
  /\ worker[w] = "none"
  /\ Move(w, "pop")
  /\ spawn_left' = spawn_left - 1
  /\ UNCHANGED <<queue, poolVars, runVars, main, event_item, spawn_failed, held,
                 unborn>>

(* A failure at start-up is only logged: the slot stays in total_workers.  *)
StartSpawnFails ==
  /\ "start" \in MayFail
  /\ main = "init"
  /\ spawn_left > 0
  /\ spawn_left' = spawn_left - 1
  /\ unborn' = unborn + 1
  /\ UNCHANGED <<queue, poolVars, runVars, main, event_item, spawn_failed,
                 workerVars>>

StartDone ==
  /\ main = "init"
  /\ spawn_left = 0
  /\ main' = "evstart"
  /\ UNCHANGED <<queue, poolVars, runVars, event_item, spawnVars, workerVars>>

(* core_event_loop_start sets server_running whatever happened before.     *)
EventLoopStart ==
  /\ main = "evstart"
  /\ server_running' = TRUE
  /\ main' = "poll"
  /\ UNCHANGED <<queue, poolVars, is_running, event_item, spawnVars, workerVars>>

(***************************************************************************)
(* The main thread: the event loop and core_queue_push.                    *)
(***************************************************************************)

(* epoll reports e; the loop tests server_running and builds event_item.   *)
(* The signal may come between this test and the push.                     *)
Poll(e) ==
  /\ main = "poll"
  /\ server_running
  /\ e \notin Outstanding
  /\ event_item' = e
  /\ main' = "push"
  /\ UNCHANGED <<queue, poolVars, runVars, spawnVars, workerVars>>

(* Push returns -1 (queue full) or -2 (no memory); the event loop then     *)
(* closes the descriptor.                                                  *)
PushRefused ==
  /\ main = "push"
  /\ \/ Len(queue) >= QueueLimit
     \/ Len(queue) < QueueLimit /\ "alloc" \in MayFail
  /\ main' = "poll"
  /\ event_item' = NoEvent
  /\ UNCHANGED <<queue, poolVars, runVars, spawnVars, workerVars>>

(* The upscaling decision, taken on the length after the append.           *)
Overloaded(q) ==
  /\ Len(q) > QueueLimit \div 2
  /\ total_workers < MaxThreads
  /\ ~scaling_in_progress

SpawnCount ==
  LET available_slots == MaxThreads - total_workers
  IN  IF available_slots < 4 THEN available_slots ELSE 4

(* Fault: the event is put at the head of the list. *)
PushFront ==
  /\ main = "push"
  /\ Len(queue) < QueueLimit
  /\ queue' = <<event_item>> \o queue
  /\ event_item' = NoEvent
  /\ main' = "poll"
  /\ WakeOne
  /\ UNCHANGED <<poolVars, runVars, spawnVars, held>>

Push ==
  /\ main = "push"
  /\ Len(queue) < QueueLimit
  /\ queue' = Append(queue, event_item)
  /\ event_item' = NoEvent
  /\ \/ /\ Overloaded(queue')
        /\ total_workers' = total_workers + SpawnCount
        /\ scaling_in_progress' = TRUE
        /\ spawn_left' = SpawnCount
        /\ main' = "scale"
     \/ /\ ~Overloaded(queue')
        /\ main' = "poll"
        /\ UNCHANGED <<total_workers, scaling_in_progress, spawn_left>>
  /\ WakeOne
  /\ UNCHANGED <<active_workers, runVars, spawn_failed, held, unborn>>

ScaleSpawnFails ==
  /\ "scale" \in MayFail
  /\ main = "scale"
  /\ spawn_left > 0
  /\ spawn_left' = spawn_left - 1
  /\ spawn_failed' = spawn_failed + 1
  /\ UNCHANGED <<queue, poolVars, runVars, main, event_item, unborn, workerVars>>

(* Fault: the slots of failed threads stay reserved. *)
RollBackForgets ==
  /\ main = "scale"
  /\ spawn_left = 0
  /\ spawn_failed' = 0
  /\ main' = "release"
  /\ UNCHANGED <<queue, poolVars, runVars, event_item, spawn_left, unborn,
                 workerVars>>

(* The reservation of the threads that could not be created is undone.     *)
RollBack ==
  /\ main = "scale"
  /\ spawn_left = 0
  /\ total_workers' = total_workers - spawn_failed
  /\ spawn_failed' = 0
  /\ main' = "release"
  /\ UNCHANGED <<queue, active_workers, scaling_in_progress, runVars, event_item,
                 spawn_left, unborn, workerVars>>

ReleaseScaling ==
  /\ main = "release"
  /\ scaling_in_progress' = FALSE
  /\ main' = "poll"
  /\ UNCHANGED <<queue, total_workers, active_workers, runVars, event_item,
                 spawnVars, workerVars>>

(***************************************************************************)
(* The main thread: the signal handler and core_queue_thread_worker_stop.  *)
(***************************************************************************)

(* core_event_loop_stop, run by the handler of SIGTERM and SIGINT between  *)
(* two steps of main.  (SignalStop models the handler that interrupts main *)
(* inside a region that holds the lock, and further signals: after the     *)
(* first, those find both flags clear and nobody asleep.)                  *)
Signal ==
  /\ server_running
  /\ \/ main \in {"poll", "push", "scale", "release"}
     \/ EarlySignal /\ main \in {"init", "evstart"}
  /\ server_running' = FALSE
  /\ is_running' = FALSE
  /\ WakeAll
  /\ UNCHANGED <<queue, poolVars, mainVars, held>>

StopCall ==
  /\ main = "poll"
  /\ ~server_running
  /\ is_running' = FALSE
  /\ WakeAll
  /\ main' = "stop"
  /\ UNCHANGED <<queue, poolVars, server_running, event_item, spawnVars, held>>

(* while (total_workers > 0) pthread_cond_wait(&exit_cond, &lock)          *)
StopCheck ==
  /\ main = "stop"
  /\ main' = IF total_workers > 0 THEN "exitwait" ELSE "discard"
  /\ UNCHANGED <<queue, poolVars, runVars, event_item, spawnVars, workerVars>>

(* What is left in the queue is deactivated and closed; then the lock and  *)
(* the condition variables are destroyed.                                  *)
DiscardRest ==
  /\ main = "discard"
  /\ queue' = <<>>
  /\ main' = "stopped"
  /\ UNCHANGED <<poolVars, runVars, event_item, spawnVars, workerVars>>

(***************************************************************************)
(* A worker thread: core_queue_pop.                                        *)
(***************************************************************************)

(* Fault: a leaving worker does not signal exit_cond. *)
LeaveSilently(w) ==
  /\ total_workers' = total_workers - 1
  /\ Move(w, "none")
  /\ UNCHANGED <<queue, active_workers, scaling_in_progress, runVars, main,
                 event_item, spawnVars, held>>

(* Every exit of the pool: give the slot back, signal exit_cond, return -3 *)
(* and end the thread.                                                     *)
LeavePool(w) ==
  /\ total_workers' = total_workers - 1
  /\ Move(w, "none")
  /\ main' = IF main = "exitwait" THEN "stop" ELSE main
  /\ UNCHANGED <<queue, active_workers, scaling_in_progress, runVars, event_item,
                 spawnVars, held>>

PopStopped(w) ==
  /\ w \in Ready
  /\ ~is_running
  /\ LeavePool(w)

(* Fault: the pool shrinks one below its minimum. *)
PopDownscaleTooFar(w) ==
  /\ worker[w] = "timedout"
  /\ is_running
  /\ queue = <<>>
  /\ total_workers >= MinThreads
  /\ LeavePool(w)

PopDownscale(w) ==
  /\ worker[w] = "timedout"
  /\ is_running
  /\ queue = <<>>
  /\ total_workers > MinThreads
  /\ LeavePool(w)

PopWait(w) ==
  /\ w \in Ready
  /\ is_running
  /\ queue = <<>>
  /\ worker[w] = "timedout" => total_workers <= MinThreads
  /\ Move(w, "asleep")
  /\ UNCHANGED <<queue, poolVars, runVars, mainVars, held>>

PopTake(w) ==
  /\ w \in Ready
  /\ is_running
  /\ queue # <<>>
  /\ queue' = Tail(queue)
  /\ held' = [held EXCEPT ![w] = Head(queue)]
  /\ active_workers' = active_workers + 1
  /\ Move(w, "serve")
  /\ UNCHANGED <<total_workers, scaling_in_progress, runVars, mainVars>>

(* The wait expires, or ends for no reason as POSIX allows.                *)
WaitEnds(w) ==
  /\ worker[w] = "asleep"
  /\ \E p \in {"timedout", "woken"} : Move(w, p)
  /\ UNCHANGED <<queue, poolVars, runVars, mainVars, held>>

(***************************************************************************)
(* A worker thread: core_thread_pool_worker.                               *)
(***************************************************************************)

(* Fault: the worker keeps the event it has finished. *)
FinishKeeps(w) ==
  /\ worker[w] = "serve"
  /\ Move(w, "idle")
  /\ UNCHANGED <<queue, poolVars, runVars, mainVars, held>>

(* Dispatch has returned and the descriptor was rearmed or closed.         *)
FinishEvent(w) ==
  /\ worker[w] = "serve"
  /\ held' = [held EXCEPT ![w] = NoEvent]
  /\ Move(w, "idle")
  /\ UNCHANGED <<queue, poolVars, runVars, mainVars>>

(* mark_worker_idle, an atomic decrement outside the lock.                 *)
MarkIdle(w) ==
  /\ worker[w] = "idle"
  /\ active_workers' = active_workers - 1
  /\ Move(w, "pop")
  /\ UNCHANGED <<queue, total_workers, scaling_in_progress, runVars, mainVars, held>>

-----------------------------------------------------------------------------
MainStep ==
  \/ \E w \in Worker : SpawnWorker(w)
  \/ StartDone \/ EventLoopStart
  \/ \E e \in Event : Poll(e)
  \/ Push \/ PushRefused
  \/ StartSpawnFails \/ ScaleSpawnFails \/ RollBack \/ ReleaseScaling
  \/ StopCall \/ StopCheck \/ DiscardRest

WorkerStep(w) ==
  \/ PopStopped(w) \/ PopDownscale(w) \/ PopWait(w) \/ PopTake(w)
  \/ FinishEvent(w) \/ MarkIdle(w)

Next ==
  \/ MainStep
  \/ Signal
  \/ \E w \in Worker : WorkerStep(w) \/ WaitEnds(w)

Spec == Init /\ [][Next]_vars
=============================================================================
