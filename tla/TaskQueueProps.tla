---------------------------- MODULE TaskQueueProps ----------------------------
(***************************************************************************)
(* What the task queue and its worker pool guarantee.                      *)
(***************************************************************************)
EXTENDS TaskQueue

(* Every variable keeps its type; event_item holds an event exactly while  *)
(* main is inside push, a worker holds one exactly while it serves it.     *)
TypeOK ==
  /\ queue \in Seq(Event)
  /\ total_workers \in Int
  /\ active_workers \in Int
  /\ scaling_in_progress \in BOOLEAN
  /\ is_running \in BOOLEAN
  /\ server_running \in BOOLEAN
  /\ main \in MainPoint
  /\ event_item \in Event \cup {NoEvent}
  /\ event_item # NoEvent <=> main = "push"
  /\ spawn_left \in Nat
  /\ spawn_failed \in Nat
  /\ worker \in [Worker -> WorkerPoint]
  /\ held \in [Worker -> Event \cup {NoEvent}]
  /\ \A w \in Worker : held[w] # NoEvent <=> worker[w] = "serve"
  /\ unborn \in Nat

(* total_workers counts the threads that exist, the slots push reserved    *)
(* for threads it has not created yet or could not create, and the slots   *)
(* of initial workers that were never born (core_queue_thread_worker_start *)
(* never gives those back).  active_workers counts the busy threads.       *)
Accounting ==
  /\ total_workers = Cardinality(Live) + spawn_left + spawn_failed + unborn
  /\ active_workers = Cardinality(Busy)

(* The adaptive pool never grows above MaxThreads, the slots reserved for  *)
(* a running upscale included.                                             *)
PoolCeiling == total_workers <= MaxThreads

(* The counts are exact whatever fails, and below the ceiling: a thread     *)
(* that could not be created is never one that the pool grows past.        *)
PoolCounts == Accounting /\ PoolCeiling

(* Downscaling stops at MinThreads: until it is told to stop, the pool     *)
(* keeps at least MinThreads slots.                                        *)
PoolFloor == is_running => total_workers >= MinThreads

(* No wakeup is lost: while some worker sleeps on cond, each queued event  *)
(* has a worker of its own that is on its way to take it.                  *)
NoLostWakeup ==
  Asleep # {} => Len(queue) <= Cardinality(Ready)

(* scaling_in_progress marks exactly the time between the reservation of   *)
(* slots in push and the end of its spawn loop, whatever fails in between. *)
ScalingFlag ==
  scaling_in_progress <=> main \in {"scale", "release"}

(* The counters of the spawn loop are zero outside of the loop.  (Needed   *)
(* for the proofs: push overwrites spawn_left.)                            *)
SpawnLoops ==
  /\ main \notin {"init", "scale"} => spawn_left = 0
  /\ main # "scale" => spawn_failed = 0

(* Nobody sleeps on cond once is_running is FALSE: both broadcasts come    *)
(* with the assignment, and a worker tests the flag before it waits.       *)
NoSleepAfterStop == ~is_running => Asleep = {}

(* While main stops the pool, the pool is told to stop.                    *)
StopFlag ==
  main \in {"stop", "exitwait", "discard", "stopped"} => ~is_running

(* core_queue_thread_worker_stop discards the queue and destroys the lock  *)
(* and the condition variables only when no worker can use them any more.  *)
NoUseAfterStop ==
  main \in {"discard", "stopped"} => Live = {}

(* An event is in one place at a time: with main, queued once, or in the   *)
(* hands of one worker.  Two workers never serve one descriptor.           *)
SingleOwner ==
  /\ \A i, j \in DOMAIN queue : queue[i] = queue[j] => i = j
  /\ \A v, w \in Worker : held[v] = held[w] /\ held[v] # NoEvent => v = w
  /\ \A w \in Worker : held[w] \notin Queued
  /\ event_item # NoEvent =>
       event_item \notin Queued /\ \A w \in Worker : held[w] # event_item

(* What passes between main and the workers: each event has one owner, a    *)
(* sleeping pool has no event left over, and the queue itself outlives     *)
(* everybody who uses it.                                                  *)
Handover == SingleOwner /\ NoLostWakeup /\ NoUseAfterStop

(* The queue is the bounded FIFO channel of TaskChannel, open while the    *)
(* pool runs.                                                              *)
Channel == INSTANCE TaskChannel
  WITH chan <- queue, open <- is_running, Capacity <- QueueLimit

ChannelSpec == Channel!Spec

(***************************************************************************)
(* Liveness.  Every thread that can run is scheduled again (weak fairness  *)
(* of main and of each worker).  Nothing is assumed of the time limits of  *)
(* the waits, of the arrival of events or of the signal, nor does the code *)
(* give a dispatch an end: on the non-blocking client sockets the 5 s time *)
(* limits do nothing, the HTTP/2 parser loops while a payload is missing   *)
(* and the FastCGI reader while a socket has nothing.                      *)
(***************************************************************************)
Fairness ==
  /\ WF_vars(MainStep)
  /\ \A w \in Worker : WF_vars(WorkerStep(w) /\ worker[w] # "serve")

FairSpec == Spec /\ Fairness

(* No dispatch lasts for ever: what the rest depends on.                   *)
DispatchesEnd == \A w \in Worker : []<>(worker[w] # "serve")

(* An event that entered the queue leaves it, although workers exit,       *)
(* spawns fail and no wait ever needs to time out.                         *)
EventsLeave ==
  \A e \in Event : e \in Queued ~> e \notin Queued

(* SIGTERM stops the server: the event loop ends, every worker leaves and  *)
(* core_queue_thread_worker_stop returns.                                  *)
ShutdownCompletes ==
  ~server_running ~> main = "stopped"

(* The pool itself holds nothing up: as long as every dispatch ends, queued *)
(* events are taken and a signal ends the server.                          *)
Drains == DispatchesEnd => EventsLeave /\ ShutdownCompletes
=============================================================================
