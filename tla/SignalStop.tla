------------------------------ MODULE SignalStop ------------------------------
(***************************************************************************)
(* Where SIGTERM and SIGINT may land: the handler of main.c runs           *)
(* core_event_loop_stop, which takes global_queue.lock, on whatever thread *)
(* the kernel picks and on top of whatever that thread was doing.          *)
(*                                                                         *)
(* This refines the action Signal of TaskQueue, where the handler runs     *)
(* between two regions.  Here a region that holds the lock has an inside:  *)
(* a thread has a stack of frames, the code it was running at the bottom   *)
(* and the handlers that interrupted it above.  The queue is reduced to    *)
(* the question whether a worker finds it empty.                           *)
(***************************************************************************)
EXTENDS Naturals, Sequences, FiniteSets

CONSTANTS
  Worker,       (* the threads of the pool                                  *)
  Main,         (* the event loop, then core_queue_thread_worker_stop       *)
  Free,         (* the owner of the lock when nobody holds it               *)
  Signals,      (* bound: how many signals are sent                         *)
  Anywhere      (* FALSE: signals land only where the thread is unlocked    *)

ASSUME ThreadsAssumption ==
  /\ Main \notin Worker
  /\ Free \notin Worker \cup {Main}
  /\ IsFiniteSet(Worker)
  /\ Signals \in Nat
  /\ Anywhere \in BOOLEAN

Thread == Worker \cup {Main}

VARIABLES
  frames,           (* the stack of each thread, the running frame last     *)
  owner,            (* who holds global_queue.lock                          *)
  server_running,
  is_running,
  sent              (* signals delivered so far                             *)

vars == <<frames, owner, server_running, is_running, sent>>

(* "run" is any code outside of the lock but a worker's dispatch, which is *)
(* "serve"; "locked" is a region that holds the lock, "asleep"             *)
(* pthread_cond_timedwait on cond and "exitwait" pthread_cond_wait on      *)
(* exit_cond, "relock" either of them reacquiring the lock, "stop" main    *)
(* about to stop the pool, "stopping" main inside it.                      *)
CodePoint == {"run", "serve", "locked", "asleep", "relock", "gone",
              "stop", "stopping", "exitwait", "stopped"}

(* The handler: server_running = 0, lock, is_running = 0 and broadcast,    *)
(* unlock.                                                                 *)
HandlerPoint == {"handler", "want", "handling"}

Top(t) == frames[t][Len(frames[t])]
SetTop(t, p) == [frames EXCEPT ![t][Len(frames[t])] = p]
Goto(t, p) == frames' = SetTop(t, p)

(* The frames that run with the lock held. *)
HoldsLock == {"locked", "stopping", "handling"}

(* A broadcast on cond: every worker in the wait, even one that runs a     *)
(* handler on top of it, goes for the lock.                                *)
WakeAll(fr) ==
  [t \in Thread |-> IF fr[t][1] = "asleep" THEN [fr[t] EXCEPT ![1] = "relock"]
                    ELSE fr[t]]

Acquire(t) == owner = Free /\ owner' = t
Release    == owner' = Free

Init ==
  /\ frames = [t \in Thread |-> <<"run">>]
  /\ owner = Free
  /\ server_running = TRUE
  /\ is_running = TRUE
  /\ sent = 0

-----------------------------------------------------------------------------
(* Push on main, pop on a worker: pthread_mutex_lock(&q->lock).            *)
Lock(t) ==
  /\ Top(t) = "run"
  /\ t = Main => server_running
  /\ Acquire(t)
  /\ Goto(t, "locked")
  /\ UNCHANGED <<server_running, is_running, sent>>

(* The region ends: push is done, or pop has taken a task.                 *)
Unlock(t) ==
  /\ Top(t) = "locked"
  /\ t \in Worker => is_running
  /\ Release
  /\ Goto(t, IF t = Main THEN "run" ELSE "serve")
  /\ UNCHANGED <<server_running, is_running, sent>>

(* The dispatch of the task returns, if it does.                           *)
DispatchEnds(w) ==
  /\ w \in Worker /\ Top(w) = "serve"
  /\ Goto(w, "run")
  /\ UNCHANGED <<owner, server_running, is_running, sent>>

(* Pop finds the queue empty and waits on cond.                            *)
Wait(w) ==
  /\ w \in Worker /\ Top(w) = "locked" /\ is_running
  /\ Release
  /\ Goto(w, "asleep")
  /\ UNCHANGED <<server_running, is_running, sent>>

(* A push signals cond, or the wait times out.                             *)
Wake(w) ==
  /\ w \in Worker /\ Top(w) = "asleep"
  /\ Goto(w, "relock")
  /\ UNCHANGED <<owner, server_running, is_running, sent>>

Relock(t) ==
  /\ Top(t) = "relock"
  /\ Acquire(t)
  /\ Goto(t, IF t = Main THEN "stopping" ELSE "locked")
  /\ UNCHANGED <<server_running, is_running, sent>>

(* is_running is 0: the worker leaves and signals exit_cond.               *)
Leave(w) ==
  /\ w \in Worker /\ Top(w) = "locked" /\ ~is_running
  /\ Release
  /\ frames' = LET gone == SetTop(w, "gone")
               IN  IF gone[Main][1] = "exitwait"
                     THEN [gone EXCEPT ![Main][1] = "relock"] ELSE gone
  /\ UNCHANGED <<server_running, is_running, sent>>

(* The event loop ends, and core_queue_thread_worker_stop begins.          *)
LoopEnds ==
  /\ Top(Main) = "run" /\ ~server_running
  /\ Goto(Main, "stop")
  /\ UNCHANGED <<owner, server_running, is_running, sent>>

StopLock ==
  /\ Top(Main) = "stop"
  /\ Acquire(Main)
  /\ frames' = WakeAll(SetTop(Main, "stopping"))
  /\ is_running' = FALSE
  /\ UNCHANGED <<server_running, sent>>

(* while (total_workers > 0) pthread_cond_wait(&exit_cond, &lock)          *)
StopWait ==
  /\ Top(Main) = "stopping"
  /\ Release
  /\ Goto(Main, IF \A w \in Worker : frames[w][1] = "gone" THEN "stopped"
                ELSE "exitwait")
  /\ UNCHANGED <<server_running, is_running, sent>>

(***************************************************************************)
(* Signals.                                                                *)
(***************************************************************************)

(* A signal lands on a thread.  The mask of the handler is empty: SIGINT   *)
(* may interrupt the handler of SIGTERM.                                   *)
Deliver(t) ==
  /\ sent < Signals
  /\ Top(t) \notin {"gone", "stopped"}
  /\ Top(t) \in HoldsLock => Anywhere
  /\ sent' = sent + 1
  /\ frames' = [frames EXCEPT ![t] = Append(@, "handler")]
  /\ UNCHANGED <<owner, server_running, is_running>>

ClearRunning(t) ==
  /\ Top(t) = "handler"
  /\ server_running' = FALSE
  /\ Goto(t, "want")
  /\ UNCHANGED <<owner, is_running, sent>>

(* Fault: the handler does not take the lock, it only sets both flags. *)
HandlerNoLock(t) ==
  /\ Top(t) = "want"
  /\ Goto(t, "handling")
  /\ UNCHANGED <<owner, server_running, is_running, sent>>

HandlerLock(t) ==
  /\ Top(t) = "want"
  /\ Acquire(t)
  /\ Goto(t, "handling")
  /\ UNCHANGED <<server_running, is_running, sent>>

(* is_running = 0, broadcast, unlock, return to the frame below.           *)
HandlerReturn(t) ==
  /\ Top(t) = "handling"
  /\ is_running' = FALSE
  /\ Release
  /\ frames' = WakeAll([frames EXCEPT ![t] = SubSeq(@, 1, Len(@) - 1)])
  /\ UNCHANGED <<server_running, sent>>

-----------------------------------------------------------------------------
ThreadStep(t) ==
  \/ Lock(t) \/ Unlock(t) \/ Wait(t) \/ Relock(t) \/ Leave(t)
  \/ ClearRunning(t) \/ HandlerLock(t) \/ HandlerReturn(t)
  \/ t = Main /\ (LoopEnds \/ StopLock \/ StopWait)

Next ==
  \/ \E t \in Thread : ThreadStep(t) \/ Deliver(t)
  \/ \E w \in Worker : Wake(w) \/ DispatchEnds(w)

Spec == Init /\ [][Next]_vars

(* A thread that can run is scheduled, and pthread_mutex_lock is not       *)
(* starved for ever; a dispatch need not end.                              *)
Acquires(t) == Lock(t) \/ Relock(t) \/ HandlerLock(t) \/ (t = Main /\ StopLock)

Fairness ==
  \A t \in Thread : WF_vars(ThreadStep(t)) /\ SF_vars(Acquires(t))

FairSpec == Spec /\ Fairness

(***************************************************************************)
(* Properties.                                                             *)
(***************************************************************************)

(* Every variable keeps its type; handlers stand above one code frame.     *)
TypeOK ==
  /\ \A t \in Thread :
       /\ Len(frames[t]) \in 1 .. Signals + 1
       /\ frames[t][1] \in CodePoint
       /\ \A i \in 2 .. Len(frames[t]) : frames[t][i] \in HandlerPoint
  /\ owner \in Thread \cup {Free}
  /\ server_running \in BOOLEAN /\ is_running \in BOOLEAN
  /\ sent \in 0 .. Signals

(* The lock belongs to the only thread that has a frame inside a region,   *)
(* interrupted frames included.                                            *)
Exclusion ==
  \A t \in Thread :
    owner = t <=> \E i \in DOMAIN frames[t] : frames[t][i] \in HoldsLock

(* No handler waits for a lock that its own thread holds in a frame below: *)
(* that frame cannot go on before the handler returns.                     *)
AsyncSignalSafe ==
  \A t \in Thread : Top(t) = "want" => owner # t

(* No dispatch lasts for ever. *)
DispatchesReturn == \A w \in Worker : []<>(Top(w) # "serve")

(* After a signal was handled the pool is stopped and main gets past       *)
(* core_queue_thread_worker_stop, as long as every dispatch ends.          *)
Stops == DispatchesReturn => (~server_running ~> Top(Main) = "stopped")
=============================================================================
