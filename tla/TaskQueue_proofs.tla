--------------------------- MODULE TaskQueue_proofs ---------------------------
(***************************************************************************)
(* Proofs about the task queue, for every number of workers and events,    *)
(* every limit and every choice of failing calls.                          *)
(***************************************************************************)
EXTENDS TaskQueueProps, FiniteSetTheorems, TLAPS

(* Type correctness, proved action by action.                              *)
LEMMA TypeStep == TypeOK /\ [Next]_vars => TypeOK'
<1> SUFFICES ASSUME TypeOK, [Next]_vars
             PROVE  TypeOK'
  OBVIOUS
<1> USE NoEventAssumption, LimitsAssumption DEF TypeOK, MainPoint, WorkerPoint
<1>1. ASSUME NEW w \in Worker, SpawnWorker(w)
      PROVE  TypeOK'
  BY <1>1 DEF SpawnWorker, Move, poolVars, runVars
<1>2. CASE StartSpawnFails
  BY <1>2 DEF StartSpawnFails, poolVars, runVars, workerVars
<1>3. CASE StartDone
  BY <1>3 DEF StartDone, poolVars, runVars, spawnVars, workerVars
<1>4. CASE EventLoopStart
  BY <1>4 DEF EventLoopStart, poolVars, spawnVars, workerVars
<1>5. ASSUME NEW e \in Event, Poll(e)
      PROVE  TypeOK'
  BY <1>5 DEF Poll, poolVars, runVars, spawnVars, workerVars
<1>6. CASE PushRefused
  BY <1>6 DEF PushRefused, poolVars, runVars, spawnVars, workerVars
<1>7. CASE Push
  <2>1. SpawnCount \in Int /\ (Overloaded(queue') => SpawnCount \in Nat)
    BY DEF SpawnCount, Overloaded
  <2>2. worker' \in [Worker -> WorkerPoint] /\ (\A w \in Worker : worker'[w] = "serve" <=> worker[w] = "serve")
    BY <1>7 DEF Push, WakeOne, Move, Asleep, At
  <2>3. queue' \in Seq(Event) /\ event_item' = NoEvent
    BY <1>7 DEF Push
  <2>4. CASE Overloaded(queue')
    BY <1>7, <2>1, <2>2, <2>3, <2>4 DEF Push, runVars
  <2>5. CASE ~Overloaded(queue')
    BY <1>7, <2>2, <2>3, <2>5 DEF Push, runVars
  <2>6. QED
    BY <2>4, <2>5
<1>8. CASE ScaleSpawnFails
  BY <1>8 DEF ScaleSpawnFails, poolVars, runVars, workerVars
<1>9. CASE RollBack
  BY <1>9 DEF RollBack, runVars, workerVars
<1>10. CASE ReleaseScaling
  BY <1>10 DEF ReleaseScaling, runVars, spawnVars, workerVars
<1>11. CASE Signal
  BY <1>11 DEF Signal, WakeAll, poolVars, mainVars, spawnVars
<1>12. CASE StopCall
  BY <1>12 DEF StopCall, WakeAll, poolVars, spawnVars
<1>13. CASE StopCheck
  BY <1>13 DEF StopCheck, poolVars, runVars, spawnVars, workerVars
<1>14. CASE DiscardRest
  BY <1>14 DEF DiscardRest, poolVars, runVars, spawnVars, workerVars
<1>15. ASSUME NEW w \in Worker, w \in Ready, LeavePool(w)
       PROVE  TypeOK'
  BY <1>15 DEF LeavePool, Ready, Move, runVars, spawnVars
<1>16. ASSUME NEW w \in Worker, PopWait(w)
       PROVE  TypeOK'
  BY <1>16 DEF PopWait, Ready, Move, poolVars, runVars, mainVars, spawnVars
<1>17. ASSUME NEW w \in Worker, PopTake(w)
       PROVE  TypeOK'
  <2>1. Head(queue) \in Event /\ Tail(queue) \in Seq(Event)
    BY <1>17 DEF PopTake
  <2>2. QED
    BY <1>17, <2>1 DEF PopTake, Ready, Move, runVars, mainVars, spawnVars
<1>18. ASSUME NEW w \in Worker, WaitEnds(w)
       PROVE  TypeOK'
  BY <1>18 DEF WaitEnds, Move, poolVars, runVars, mainVars, spawnVars
<1>19. ASSUME NEW w \in Worker, FinishEvent(w)
       PROVE  TypeOK'
  BY <1>19 DEF FinishEvent, Move, poolVars, runVars, mainVars, spawnVars
<1>20. ASSUME NEW w \in Worker, MarkIdle(w)
       PROVE  TypeOK'
  BY <1>20 DEF MarkIdle, Move, runVars, mainVars, spawnVars
<1>21. CASE UNCHANGED vars
  BY <1>21 DEF vars, poolVars, runVars, mainVars, spawnVars, workerVars
<1>22. QED
  BY <1>1, <1>2, <1>3, <1>4, <1>5, <1>6, <1>7, <1>8, <1>9, <1>10, <1>11,
     <1>12, <1>13, <1>14, <1>15, <1>16, <1>17, <1>18, <1>19, <1>20, <1>21
     DEF Next, MainStep, WorkerStep, PopStopped, PopDownscale, Ready

-----------------------------------------------------------------------------
(* The sets of workers the counters stand for are finite.                  *)
LEMMA FiniteWorkers ==
  /\ IsFiniteSet(Live) /\ IsFiniteSet(Busy) /\ IsFiniteSet(Ready)
  /\ Cardinality(Live) \in Nat /\ Cardinality(Busy) \in Nat
  /\ Cardinality(Ready) \in Nat
<1>1. /\ Live \in SUBSET Worker /\ Busy \in SUBSET Worker
      /\ Ready \in SUBSET Worker
  BY DEF Live, Busy, Ready
<1>2. IsFiniteSet(Live) /\ IsFiniteSet(Busy) /\ IsFiniteSet(Ready)
  BY <1>1, WorkerAssumption, FS_Subset
<1>3. QED
  BY <1>2, FS_CardinalityType

(* How a thread that moves to another point changes the sets it is in.     *)
LEMMA MoveCounts ==
  ASSUME TypeOK, NEW w \in Worker, NEW p \in WorkerPoint, Move(w, p)
  PROVE  /\ worker[w] = "none" /\ p # "none" =>
              Cardinality(Live') = Cardinality(Live) + 1
         /\ worker[w] # "none" /\ p = "none" =>
              Cardinality(Live') = Cardinality(Live) - 1
         /\ (worker[w] = "none" <=> p = "none") => Live' = Live
         /\ worker[w] \notin {"serve", "idle"} /\ p \in {"serve", "idle"} =>
              Cardinality(Busy') = Cardinality(Busy) + 1
         /\ worker[w] \in {"serve", "idle"} /\ p \notin {"serve", "idle"} =>
              Cardinality(Busy') = Cardinality(Busy) - 1
         /\ (worker[w] \in {"serve", "idle"} <=> p \in {"serve", "idle"}) =>
              Busy' = Busy
         /\ worker[w] \notin {"pop", "woken", "timedout"}
            /\ p \in {"pop", "woken", "timedout"} =>
              Cardinality(Ready') = Cardinality(Ready) + 1
         /\ worker[w] \in {"pop", "woken", "timedout"}
            /\ p \notin {"pop", "woken", "timedout"} =>
              Cardinality(Ready') = Cardinality(Ready) - 1
<1> USE DEF TypeOK, Move
<1>1. worker' \in [Worker -> WorkerPoint]
      /\ \A v \in Worker : worker'[v] = IF v = w THEN p ELSE worker[v]
  OBVIOUS
<1>2. /\ p # "none" => Live' = Live \cup {w}
      /\ p = "none" => Live' = Live \ {w}
      /\ w \in Live <=> worker[w] # "none"
  BY <1>1 DEF Live, At
<1>3. /\ p \in {"serve", "idle"} => Busy' = Busy \cup {w}
      /\ p \notin {"serve", "idle"} => Busy' = Busy \ {w}
      /\ w \in Busy <=> worker[w] \in {"serve", "idle"}
  BY <1>1 DEF Busy
<1>4. /\ p \in {"pop", "woken", "timedout"} => Ready' = Ready \cup {w}
      /\ p \notin {"pop", "woken", "timedout"} => Ready' = Ready \ {w}
      /\ w \in Ready <=> worker[w] \in {"pop", "woken", "timedout"}
  BY <1>1 DEF Ready
<1>5. \A S : IsFiniteSet(S) =>
        /\ w \notin S => Cardinality(S \cup {w}) = Cardinality(S) + 1
        /\ w \in S => Cardinality(S \ {w}) = Cardinality(S) - 1
  BY FS_AddElement, FS_RemoveElement
<1>6. QED
  BY <1>2, <1>3, <1>4, <1>5, FiniteWorkers

(* Waking sleepers creates no thread, ends none and makes none busy.       *)
LEMMA WakeCounts ==
  ASSUME TypeOK, WakeAll \/ WakeOne
  PROVE  /\ Live' = Live /\ Busy' = Busy
         /\ worker' \in [Worker -> WorkerPoint]
<1>1. CASE WakeAll
  BY <1>1 DEF TypeOK, WakeAll, Live, Busy, At, WorkerPoint
<1>2. CASE WakeOne
  BY <1>2 DEF TypeOK, WakeOne, Move, Asleep, Live, Busy, At, WorkerPoint
<1>3. QED
  BY <1>1, <1>2

(* The spawn loop and its flag.                                            *)
LEMMA SpawnStep ==
  TypeOK /\ SpawnLoops /\ ScalingFlag /\ [Next]_vars
    => SpawnLoops' /\ ScalingFlag'
<1> SUFFICES ASSUME TypeOK, SpawnLoops, ScalingFlag, [Next]_vars
             PROVE  SpawnLoops' /\ ScalingFlag'
  OBVIOUS
<1> USE DEF SpawnLoops, ScalingFlag
<1>0. scaling_in_progress \in BOOLEAN /\ main \in MainPoint
  BY DEF TypeOK
<1>1. ASSUME NEW w \in Worker, SpawnWorker(w)
      PROVE  SpawnLoops' /\ ScalingFlag'
  BY <1>1 DEF SpawnWorker, poolVars
<1>2. CASE StartSpawnFails \/ ScaleSpawnFails
  BY <1>2 DEF StartSpawnFails, ScaleSpawnFails, poolVars
<1>3. CASE StartDone \/ EventLoopStart \/ PushRefused \/ StopCall \/ StopCheck
           \/ DiscardRest \/ RollBack \/ ReleaseScaling \/ \E e \in Event : Poll(e)
  BY <1>3
     DEF StartDone, EventLoopStart, PushRefused, StopCall, StopCheck,
         DiscardRest, RollBack, ReleaseScaling, Poll, poolVars, spawnVars
<1>4. CASE Push
  BY <1>4 DEF Push
<1>5. CASE Signal
  BY <1>5 DEF Signal, poolVars, mainVars, spawnVars
<1>6. ASSUME NEW w \in Worker, LeavePool(w)
      PROVE  SpawnLoops' /\ ScalingFlag'
  BY <1>6 DEF LeavePool, spawnVars
<1>7. ASSUME NEW w \in Worker,
             PopWait(w) \/ PopTake(w) \/ WaitEnds(w) \/ FinishEvent(w) \/ MarkIdle(w)
      PROVE  SpawnLoops' /\ ScalingFlag'
  BY <1>7 DEF PopWait, PopTake, WaitEnds, FinishEvent, MarkIdle, poolVars,
              mainVars, spawnVars
<1>8. CASE UNCHANGED vars
  BY <1>8 DEF vars, poolVars, mainVars, spawnVars
<1>9. QED
  BY <1>1, <1>2, <1>3, <1>4, <1>5, <1>6, <1>7, <1>8
     DEF Next, MainStep, WorkerStep, PopStopped, PopDownscale

(* The counters follow the threads through every step.                     *)
LEMMA AccountingStep ==
  TypeOK /\ SpawnLoops /\ Accounting /\ [Next]_vars => Accounting'
<1> SUFFICES ASSUME TypeOK, SpawnLoops, Accounting, [Next]_vars
             PROVE  Accounting'
  OBVIOUS
<1> USE FiniteWorkers DEF Accounting
<1>0. /\ total_workers \in Int /\ active_workers \in Int
      /\ spawn_left \in Nat /\ spawn_failed \in Nat /\ unborn \in Nat
      /\ {"none", "pop", "asleep", "serve", "idle"} \subseteq WorkerPoint
  BY DEF TypeOK, WorkerPoint
<1>a. ASSUME UNCHANGED worker
      PROVE  Live' = Live /\ Busy' = Busy
  BY <1>a DEF Live, Busy, At
<1>1. ASSUME NEW w \in Worker, SpawnWorker(w)
      PROVE  Accounting'
  <2>1. Cardinality(Live') = Cardinality(Live) + 1 /\ Busy' = Busy
    BY <1>0, <1>1, MoveCounts DEF SpawnWorker
  <2>2. QED
    BY <1>0, <1>1, <2>1 DEF SpawnWorker, poolVars
<1>2. CASE StartSpawnFails
  BY <1>0, <1>a, <1>2 DEF StartSpawnFails, poolVars, workerVars
<1>3. CASE StartDone \/ EventLoopStart \/ PushRefused \/ StopCheck
           \/ DiscardRest \/ ReleaseScaling \/ \E e \in Event : Poll(e)
  BY <1>a, <1>3
     DEF StartDone, EventLoopStart, PushRefused, StopCheck, DiscardRest,
         ReleaseScaling, Poll, poolVars, spawnVars, workerVars
<1>4. CASE Push
  <2>1. Live' = Live /\ Busy' = Busy
    BY <1>4, WakeCounts DEF Push
  <2>2. SpawnCount \in Int
    BY LimitsAssumption, <1>0 DEF SpawnCount
  <2>3. spawn_left = 0
    BY <1>4 DEF Push, SpawnLoops
  <2>4. CASE Overloaded(queue')
    BY <1>0, <1>4, <2>1, <2>2, <2>3, <2>4 DEF Push
  <2>5. CASE ~Overloaded(queue')
    BY <1>0, <1>4, <2>1, <2>5 DEF Push
  <2>6. QED
    BY <2>4, <2>5
<1>5. CASE ScaleSpawnFails
  BY <1>0, <1>a, <1>5 DEF ScaleSpawnFails, poolVars, workerVars
<1>6. CASE RollBack
  BY <1>0, <1>a, <1>6 DEF RollBack, workerVars
<1>7. CASE Signal \/ StopCall
  BY <1>7, WakeCounts DEF Signal, StopCall, poolVars, mainVars, spawnVars
<1>8. ASSUME NEW w \in Worker, w \in Ready, LeavePool(w)
      PROVE  Accounting'
  <2>1. worker[w] \in {"pop", "woken", "timedout"}
    BY <1>8 DEF Ready
  <2>2. Cardinality(Live') = Cardinality(Live) - 1 /\ Busy' = Busy
    BY <1>0, <1>8, <2>1, MoveCounts DEF LeavePool
  <2>3. QED
    BY <1>0, <1>8, <2>2 DEF LeavePool, spawnVars
<1>9. ASSUME NEW w \in Worker, PopWait(w)
      PROVE  Accounting'
  <2>1. worker[w] \in {"pop", "woken", "timedout"}
    BY <1>9 DEF PopWait, Ready
  <2>2. Live' = Live /\ Busy' = Busy
    BY <1>0, <1>9, <2>1, MoveCounts DEF PopWait
  <2>3. QED
    BY <1>9, <2>2 DEF PopWait, poolVars, mainVars, spawnVars
<1>10. ASSUME NEW w \in Worker, PopTake(w)
       PROVE  Accounting'
  <2>1. worker[w] \in {"pop", "woken", "timedout"}
    BY <1>10 DEF PopTake, Ready
  <2>2. Live' = Live /\ Cardinality(Busy') = Cardinality(Busy) + 1
    BY <1>0, <1>10, <2>1, MoveCounts DEF PopTake
  <2>3. QED
    BY <1>0, <1>10, <2>2 DEF PopTake, mainVars, spawnVars
<1>11. ASSUME NEW w \in Worker, WaitEnds(w)
       PROVE  Accounting'
  <2>1. Live' = Live /\ Busy' = Busy
    BY <1>11, MoveCounts DEF WaitEnds, WorkerPoint
  <2>2. QED
    BY <1>11, <2>1 DEF WaitEnds, poolVars, mainVars, spawnVars
<1>12. ASSUME NEW w \in Worker, FinishEvent(w)
       PROVE  Accounting'
  <2>1. Live' = Live /\ Busy' = Busy
    BY <1>0, <1>12, MoveCounts DEF FinishEvent
  <2>2. QED
    BY <1>12, <2>1 DEF FinishEvent, poolVars, mainVars, spawnVars
<1>13. ASSUME NEW w \in Worker, MarkIdle(w)
       PROVE  Accounting'
  <2>1. Live' = Live /\ Cardinality(Busy') = Cardinality(Busy) - 1
    BY <1>0, <1>13, MoveCounts DEF MarkIdle
  <2>2. QED
    BY <1>0, <1>13, <2>1 DEF MarkIdle, mainVars, spawnVars
<1>14. CASE UNCHANGED vars
  BY <1>a, <1>14 DEF vars, poolVars, mainVars, spawnVars, workerVars
<1>15. QED
  BY <1>1, <1>2, <1>3, <1>4, <1>5, <1>6, <1>7, <1>8, <1>9, <1>10, <1>11,
     <1>12, <1>13, <1>14
     DEF Next, MainStep, WorkerStep, PopStopped, PopDownscale, Ready

(* The pool never exceeds MaxThreads.                                      *)
LEMMA CeilingStep ==
  TypeOK /\ PoolCeiling /\ [Next]_vars => PoolCeiling'
<1> SUFFICES ASSUME TypeOK, PoolCeiling, [Next]_vars
             PROVE  PoolCeiling'
  OBVIOUS
<1> USE LimitsAssumption DEF PoolCeiling
<1>0. total_workers \in Int /\ spawn_failed \in Nat
  BY DEF TypeOK
<1>1. CASE Push
  <2>1. Overloaded(queue') => SpawnCount \in Nat /\ total_workers + SpawnCount <= MaxThreads
    BY <1>0 DEF Overloaded, SpawnCount
  <2>2. CASE Overloaded(queue')
    BY <1>1, <2>1, <2>2 DEF Push
  <2>3. CASE ~Overloaded(queue')
    BY <1>1, <2>3 DEF Push
  <2>4. QED
    BY <2>2, <2>3
<1>2. CASE RollBack
  BY <1>0, <1>2 DEF RollBack
<1>3. ASSUME NEW w \in Worker, LeavePool(w)
      PROVE  PoolCeiling'
  BY <1>0, <1>3 DEF LeavePool
<1>4. ASSUME NEW w \in Worker,
             SpawnWorker(w) \/ PopWait(w) \/ PopTake(w) \/ WaitEnds(w)
             \/ FinishEvent(w) \/ MarkIdle(w)
      PROVE  PoolCeiling'
  BY <1>4 DEF SpawnWorker, PopWait, PopTake, WaitEnds, FinishEvent, MarkIdle,
              poolVars
<1>5. CASE StartSpawnFails \/ StartDone \/ EventLoopStart \/ PushRefused
           \/ ScaleSpawnFails \/ ReleaseScaling \/ Signal \/ StopCall
           \/ StopCheck \/ DiscardRest \/ \E e \in Event : Poll(e)
  BY <1>5
     DEF StartSpawnFails, StartDone, EventLoopStart, PushRefused,
         ScaleSpawnFails, ReleaseScaling, Signal, StopCall, StopCheck,
         DiscardRest, Poll, poolVars
<1>6. CASE UNCHANGED vars
  BY <1>6 DEF vars, poolVars
<1>7. QED
  BY <1>1, <1>2, <1>3, <1>4, <1>5, <1>6
     DEF Next, MainStep, WorkerStep, PopStopped, PopDownscale

(* Once the stop has counted all workers out, none comes back.             *)
LEMMA StopStep ==
  TypeOK /\ Accounting /\ NoUseAfterStop /\ [Next]_vars => NoUseAfterStop'
<1> SUFFICES ASSUME TypeOK, Accounting, NoUseAfterStop, [Next]_vars,
                    main' \in {"discard", "stopped"}
             PROVE  Live' = {}
  BY DEF NoUseAfterStop
<1>0. ASSUME UNCHANGED worker
      PROVE  Live' = Live
  BY <1>0 DEF Live, At
<1>1. CASE StopCheck
  <2>1. total_workers <= 0
    BY <1>1 DEF StopCheck, TypeOK
  <2>2. Cardinality(Live) = 0
    BY <2>1, FiniteWorkers DEF Accounting, TypeOK
  <2>3. QED
    BY <1>0, <1>1, <2>2, FiniteWorkers, FS_EmptySet DEF StopCheck, workerVars
<1>2. CASE DiscardRest
  BY <1>0, <1>2 DEF DiscardRest, NoUseAfterStop, workerVars
<1>3. CASE UNCHANGED vars
  BY <1>0, <1>3 DEF vars, mainVars, workerVars, NoUseAfterStop
<1>4. ASSUME NEW w \in Worker, worker[w] # "none",
             main' \in {main, "stop"}
      PROVE  FALSE
  BY <1>4 DEF NoUseAfterStop, Live, At
<1>5. ASSUME NEW w \in Worker,
             SpawnWorker(w) \/ WorkerStep(w) \/ WaitEnds(w)
      PROVE  FALSE
  <2>1. CASE SpawnWorker(w)
    BY <2>1 DEF SpawnWorker
  <2>2. CASE PopStopped(w) \/ PopDownscale(w)
    <3>1. worker[w] # "none"
      BY <2>2 DEF PopStopped, PopDownscale, Ready
    <3>2. main' \in {main, "stop"}
      BY <2>2 DEF PopStopped, PopDownscale, LeavePool
    <3>3. QED
      BY <1>4, <3>1, <3>2
  <2>3. CASE PopWait(w) \/ PopTake(w) \/ FinishEvent(w) \/ MarkIdle(w) \/ WaitEnds(w)
    <3>1. worker[w] # "none"
      BY <2>3 DEF PopWait, PopTake, FinishEvent, MarkIdle, WaitEnds, Ready
    <3>2. main' \in {main, "stop"}
      BY <2>3 DEF PopWait, PopTake, FinishEvent, MarkIdle, WaitEnds, mainVars
    <3>3. QED
      BY <1>4, <3>1, <3>2
  <2>4. QED
    BY <1>5, <2>1, <2>2, <2>3 DEF WorkerStep
<1>6. CASE StartSpawnFails \/ StartDone \/ EventLoopStart \/ Push \/ PushRefused
           \/ ScaleSpawnFails \/ RollBack \/ ReleaseScaling \/ Signal
           \/ StopCall \/ \E e \in Event : Poll(e)
  BY <1>6
     DEF StartSpawnFails, StartDone, EventLoopStart, Push, PushRefused,
         ScaleSpawnFails, RollBack, ReleaseScaling, Signal, StopCall, Poll,
         mainVars
<1>7. QED
  BY <1>1, <1>2, <1>3, <1>5, <1>6 DEF Next, MainStep

(* No wakeup is lost: every push moves a sleeper, a worker that goes to    *)
(* sleep or leaves does so with an empty queue or a stopped pool.          *)
LEMMA WakeupStep ==
  TypeOK /\ NoSleepAfterStop /\ NoLostWakeup /\ [Next]_vars
    => NoSleepAfterStop' /\ NoLostWakeup'
<1> SUFFICES ASSUME TypeOK, NoSleepAfterStop, NoLostWakeup, [Next]_vars
             PROVE  NoSleepAfterStop' /\ NoLostWakeup'
  OBVIOUS
<1> USE FiniteWorkers DEF NoSleepAfterStop, NoLostWakeup
<1>0. /\ queue \in Seq(Event) /\ Len(queue) \in Nat
      /\ {"none", "pop", "asleep", "woken", "timedout", "serve", "idle"} \subseteq WorkerPoint
  BY DEF TypeOK, WorkerPoint
<1>a. ASSUME UNCHANGED <<worker, is_running>>, queue' = queue \/ queue' = <<>>
      PROVE  NoSleepAfterStop' /\ NoLostWakeup'
  <2>1. Asleep' = Asleep /\ Ready' = Ready
    BY <1>a DEF Asleep, Ready, At
  <2>2. Len(queue') <= Len(queue)
    BY <1>0, <1>a
  <2>3. Len(queue') \in Nat
    BY <1>0, <1>a
  <2>4. QED
    BY <1>0, <1>a, <2>1, <2>2, <2>3
<1>b. ASSUME NEW w \in Worker, NEW p \in WorkerPoint, p # "asleep", Move(w, p)
      PROVE  Asleep' \subseteq Asleep
  BY <1>b DEF TypeOK, Move, Asleep, At
<1>c. Cardinality(Ready') \in Nat
  <2>1. Ready' \in SUBSET Worker
    BY DEF Ready
  <2>2. QED
    BY <2>1, WorkerAssumption, FS_Subset, FS_CardinalityType
<1>1. ASSUME NEW w \in Worker, SpawnWorker(w) \/ WaitEnds(w) \/ MarkIdle(w)
      PROVE  NoSleepAfterStop' /\ NoLostWakeup'
  <2>1. Cardinality(Ready') = Cardinality(Ready) + 1
    BY <1>0, <1>1, MoveCounts DEF SpawnWorker, WaitEnds, MarkIdle
  <2>2. Asleep' \subseteq Asleep
    BY <1>0, <1>1, <1>b DEF SpawnWorker, WaitEnds, MarkIdle
  <2>3. UNCHANGED <<queue, is_running>>
    BY <1>1 DEF SpawnWorker, WaitEnds, MarkIdle, runVars
  <2>4. QED
    BY <1>0, <2>1, <2>2, <2>3
<1>2. CASE Push
  <2>1. Len(queue') = Len(queue) + 1 /\ UNCHANGED is_running
    BY <1>0, <1>2 DEF Push, runVars
  <2>2. CASE Asleep = {} /\ UNCHANGED worker
    <3>1. Asleep' = {}
      BY <2>2 DEF Asleep, At
    <3>2. QED
      BY <3>1
  <2>3. ASSUME NEW w \in Asleep, Move(w, "woken")
        PROVE  NoSleepAfterStop' /\ NoLostWakeup'
    <3>1. w \in Worker /\ worker[w] = "asleep"
      BY <2>3 DEF Asleep, At
    <3>2. Cardinality(Ready') = Cardinality(Ready) + 1 /\ Asleep' \subseteq Asleep
      BY <1>0, <1>b, <2>3, <3>1, MoveCounts
    <3>3. QED
      BY <1>0, <2>1, <3>2
  <2>4. QED
    BY <1>2, <2>2, <2>3 DEF Push, WakeOne
<1>3. CASE Signal \/ StopCall
  <2>1. Asleep' = {}
    BY <1>3 DEF Signal, StopCall, WakeAll, Asleep, At
  <2>2. QED
    BY <2>1
<1>4. ASSUME NEW w \in Worker, PopStopped(w) \/ PopDownscale(w)
      PROVE  NoSleepAfterStop' /\ NoLostWakeup'
  <2>1. Asleep' \subseteq Asleep
    BY <1>0, <1>4, <1>b DEF PopStopped, PopDownscale, LeavePool
  <2>2. Asleep = {} \/ queue = <<>>
    BY <1>4 DEF PopStopped, PopDownscale
  <2>3. UNCHANGED <<queue, is_running>>
    BY <1>4 DEF PopStopped, PopDownscale, LeavePool, runVars
  <2>4. QED
    BY <1>0, <1>c, <2>1, <2>2, <2>3
<1>5. ASSUME NEW w \in Worker, PopWait(w)
      PROVE  NoSleepAfterStop' /\ NoLostWakeup'
  BY <1>5, <1>c DEF PopWait, runVars
<1>6. ASSUME NEW w \in Worker, PopTake(w)
      PROVE  NoSleepAfterStop' /\ NoLostWakeup'
  <2>1. Cardinality(Ready') = Cardinality(Ready) - 1
    <3>1. worker[w] \in {"pop", "woken", "timedout"}
      BY <1>6 DEF PopTake, Ready
    <3>2. QED
      BY <1>0, <1>6, <3>1, MoveCounts DEF PopTake
  <2>2. Asleep' \subseteq Asleep
    BY <1>0, <1>6, <1>b DEF PopTake
  <2>3. Len(queue') = Len(queue) - 1 /\ UNCHANGED is_running
    BY <1>0, <1>6 DEF PopTake, runVars
  <2>4. QED
    BY <1>0, <2>1, <2>2, <2>3
<1>7. ASSUME NEW w \in Worker, FinishEvent(w)
      PROVE  NoSleepAfterStop' /\ NoLostWakeup'
  <2>1. Ready' = Ready /\ Asleep' = Asleep
    BY <1>7 DEF FinishEvent, TypeOK, Move, Ready, Asleep, At
  <2>2. QED
    BY <1>7, <2>1 DEF FinishEvent, runVars
<1>8. CASE StartSpawnFails \/ StartDone \/ EventLoopStart \/ PushRefused
           \/ ScaleSpawnFails \/ RollBack \/ ReleaseScaling \/ StopCheck
           \/ DiscardRest \/ (\E e \in Event : Poll(e)) \/ UNCHANGED vars
  <2>1. UNCHANGED <<worker, is_running>>
    BY <1>8
       DEF StartSpawnFails, StartDone, EventLoopStart, PushRefused,
           ScaleSpawnFails, RollBack, ReleaseScaling, StopCheck, DiscardRest,
           Poll, vars, workerVars, runVars
  <2>2. queue' = queue \/ queue' = <<>>
    BY <1>8
       DEF StartSpawnFails, StartDone, EventLoopStart, PushRefused,
           ScaleSpawnFails, RollBack, ReleaseScaling, StopCheck, DiscardRest,
           Poll, vars
  <2>3. QED
    BY <1>a, <2>1, <2>2
<1>9. QED
  BY <1>1, <1>2, <1>3, <1>4, <1>5, <1>6, <1>7, <1>8
     DEF Next, MainStep, WorkerStep

(* An event keeps one owner: it moves from main to the queue, from the     *)
(* head of the queue to one worker, and is dropped by that worker.         *)
LEMMA OwnerStep ==
  TypeOK /\ SingleOwner /\ [Next]_vars => SingleOwner'
<1> SUFFICES ASSUME TypeOK, SingleOwner, [Next]_vars
             PROVE  SingleOwner'
  OBVIOUS
<1> USE NoEventAssumption
<1>0. /\ queue \in Seq(Event) /\ held \in [Worker -> Event \cup {NoEvent}]
      /\ event_item # NoEvent <=> main = "push"
      /\ event_item \in Event \cup {NoEvent}
  BY DEF TypeOK
<1>a. ASSUME UNCHANGED <<queue, held>>, event_item' \in {event_item, NoEvent}
      PROVE  SingleOwner'
  BY <1>a DEF SingleOwner, Queued
<1>1. ASSUME NEW e \in Event, Poll(e)
      PROVE  SingleOwner'
  BY <1>0, <1>1 DEF Poll, SingleOwner, Outstanding, Queued, workerVars
<1>2. CASE Push
  <2>1. /\ queue' = Append(queue, event_item) /\ event_item' = NoEvent
        /\ held' = held /\ event_item \in Event
    BY <1>0, <1>2 DEF Push
  <2>2. /\ Len(queue') = Len(queue) + 1
        /\ \A i \in 1 .. Len(queue) : queue'[i] = queue[i]
        /\ queue'[Len(queue) + 1] = event_item
        /\ DOMAIN queue = 1 .. Len(queue) /\ DOMAIN queue' = 1 .. Len(queue) + 1
    BY <1>0, <2>1
  <2>3. Queued' = Queued \cup {event_item}
    BY <1>0, <2>2 DEF Queued
  <2>4. \A i \in DOMAIN queue : queue[i] # event_item
    BY <1>0, <2>1 DEF SingleOwner, Queued
  <2>5. \A i, j \in DOMAIN queue' : queue'[i] = queue'[j] => i = j
    BY <1>0, <2>2, <2>4 DEF SingleOwner
  <2>6. QED
    BY <1>0, <2>1, <2>3, <2>5 DEF SingleOwner
<1>3. ASSUME NEW w \in Worker, PopTake(w)
      PROVE  SingleOwner'
  <2>1. /\ queue' = Tail(queue) /\ held' = [held EXCEPT ![w] = Head(queue)]
        /\ event_item' = event_item /\ queue # <<>>
    BY <1>3 DEF PopTake, mainVars
  <2>2. /\ Len(queue) \in Nat /\ Len(queue) > 0 /\ Head(queue) = queue[1]
        /\ DOMAIN queue = 1 .. Len(queue) /\ DOMAIN queue' = 1 .. Len(queue) - 1
        /\ \A i \in DOMAIN queue' : queue'[i] = queue[i + 1]
    BY <1>0, <2>1
  <2>3. \A i, j \in DOMAIN queue' : queue'[i] = queue'[j] => i = j
    BY <2>2 DEF SingleOwner
  <2>4. Queued' \subseteq Queued /\ Head(queue) \in Queued
    BY <2>2 DEF Queued
  <2>5. Head(queue) \notin Queued'
    BY <2>2 DEF Queued, SingleOwner
  <2>6. Head(queue) \in Event
    BY <1>0, <2>1
  <2>7. \A v \in Worker : held'[v] = IF v = w THEN Head(queue) ELSE held[v]
    BY <1>0, <2>1
  <2>8. \A v \in Worker : held'[v] \notin Queued'
    BY <2>4, <2>5, <2>7 DEF SingleOwner
  <2>9. \A u, v \in Worker : held'[u] = held'[v] /\ held'[u] # NoEvent => u = v
    BY <2>4, <2>6, <2>7 DEF SingleOwner
  <2>10. event_item' # NoEvent =>
           event_item' \notin Queued' /\ \A v \in Worker : held'[v] # event_item'
    BY <2>1, <2>4, <2>7 DEF SingleOwner
  <2>11. QED
    BY <2>3, <2>8, <2>9, <2>10 DEF SingleOwner
<1>4. ASSUME NEW w \in Worker, FinishEvent(w)
      PROVE  SingleOwner'
  <2>1. /\ held' = [held EXCEPT ![w] = NoEvent] /\ UNCHANGED <<queue, event_item>>
    BY <1>4 DEF FinishEvent, mainVars
  <2>2. NoEvent \notin Queued
    BY <1>0 DEF Queued
  <2>3. \A v \in Worker : held'[v] \in {held[v], NoEvent}
    BY <1>0, <2>1
  <2>4. QED
    BY <1>0, <2>1, <2>2, <2>3 DEF SingleOwner, Queued
<1>5. CASE DiscardRest
  BY <1>0, <1>5 DEF DiscardRest, SingleOwner, Queued, workerVars
<1>6. ASSUME NEW w \in Worker,
             SpawnWorker(w) \/ LeavePool(w) \/ PopWait(w) \/ WaitEnds(w) \/ MarkIdle(w)
      PROVE  SingleOwner'
  BY <1>6, <1>a DEF SpawnWorker, LeavePool, PopWait, WaitEnds, MarkIdle, mainVars
<1>7. CASE StartSpawnFails \/ StartDone \/ EventLoopStart \/ PushRefused
           \/ ScaleSpawnFails \/ RollBack \/ ReleaseScaling \/ Signal
           \/ StopCall \/ StopCheck \/ UNCHANGED vars
  BY <1>7, <1>a
     DEF StartSpawnFails, StartDone, EventLoopStart, PushRefused,
         ScaleSpawnFails, RollBack, ReleaseScaling, Signal, StopCall,
         StopCheck, vars, workerVars, mainVars
<1>8. QED
  BY <1>1, <1>2, <1>3, <1>4, <1>5, <1>6, <1>7
     DEF Next, MainStep, WorkerStep, PopStopped, PopDownscale

(* Without failing upscales the pool keeps its minimum.                    *)
LEMMA FloorStep ==
  ASSUME "scale" \notin MayFail
  PROVE  TypeOK /\ spawn_failed = 0 /\ PoolFloor /\ [Next]_vars
           => spawn_failed' = 0 /\ PoolFloor'
<1> SUFFICES ASSUME TypeOK, spawn_failed = 0, PoolFloor, [Next]_vars
             PROVE  spawn_failed' = 0 /\ PoolFloor'
  OBVIOUS
<1> USE LimitsAssumption DEF PoolFloor
<1>0. total_workers \in Int
  BY DEF TypeOK
<1>1. CASE Push
  <2>1. Overloaded(queue') => SpawnCount \in Nat
    BY <1>0 DEF Overloaded, SpawnCount
  <2>2. CASE Overloaded(queue')
    BY <1>0, <1>1, <2>1, <2>2 DEF Push, runVars
  <2>3. CASE ~Overloaded(queue')
    BY <1>1, <2>3 DEF Push, runVars
  <2>4. QED
    BY <2>2, <2>3
<1>2. CASE RollBack
  BY <1>0, <1>2 DEF RollBack, runVars
<1>3. ASSUME NEW w \in Worker, PopStopped(w) \/ PopDownscale(w)
      PROVE  spawn_failed' = 0 /\ PoolFloor'
  BY <1>0, <1>3 DEF PopStopped, PopDownscale, LeavePool, runVars, spawnVars
<1>4. ASSUME NEW w \in Worker,
             SpawnWorker(w) \/ PopWait(w) \/ PopTake(w) \/ WaitEnds(w)
             \/ FinishEvent(w) \/ MarkIdle(w)
      PROVE  spawn_failed' = 0 /\ PoolFloor'
  BY <1>4 DEF SpawnWorker, PopWait, PopTake, WaitEnds, FinishEvent, MarkIdle,
              poolVars, runVars, mainVars, spawnVars
<1>5. CASE ScaleSpawnFails
  BY <1>5 DEF ScaleSpawnFails
<1>6. CASE StartSpawnFails \/ StartDone \/ EventLoopStart \/ PushRefused
           \/ ReleaseScaling \/ Signal \/ StopCall \/ StopCheck \/ DiscardRest
           \/ \E e \in Event : Poll(e)
  BY <1>6
     DEF StartSpawnFails, StartDone, EventLoopStart, PushRefused,
         ReleaseScaling, Signal, StopCall, StopCheck, DiscardRest, Poll,
         poolVars, runVars, mainVars, spawnVars
<1>7. CASE UNCHANGED vars
  BY <1>7 DEF vars, poolVars, runVars, mainVars, spawnVars
<1>8. QED
  BY <1>1, <1>2, <1>3, <1>4, <1>5, <1>6, <1>7 DEF Next, MainStep, WorkerStep

(* is_running is FALSE throughout the stop.                                *)
LEMMA StopFlagStep ==
  StopFlag /\ [Next]_vars => StopFlag'
<1> SUFFICES ASSUME StopFlag, [Next]_vars
             PROVE  StopFlag'
  OBVIOUS
<1> USE DEF StopFlag
<1>1. ASSUME NEW w \in Worker,
             SpawnWorker(w) \/ LeavePool(w) \/ PopWait(w) \/ PopTake(w)
             \/ WaitEnds(w) \/ FinishEvent(w) \/ MarkIdle(w)
      PROVE  StopFlag'
  BY <1>1 DEF SpawnWorker, LeavePool, PopWait, PopTake, WaitEnds, FinishEvent,
              MarkIdle, runVars, mainVars
<1>2. CASE Push
  BY <1>2 DEF Push
<1>3. CASE StartSpawnFails \/ StartDone \/ EventLoopStart \/ PushRefused
           \/ ScaleSpawnFails \/ RollBack \/ ReleaseScaling \/ Signal
           \/ StopCall \/ StopCheck \/ DiscardRest
           \/ (\E e \in Event : Poll(e)) \/ UNCHANGED vars
  BY <1>3
     DEF StartSpawnFails, StartDone, EventLoopStart, PushRefused,
         ScaleSpawnFails, RollBack, ReleaseScaling, Signal, StopCall,
         StopCheck, DiscardRest, Poll, vars, runVars, mainVars
<1>4. QED
  BY <1>1, <1>2, <1>3
     DEF Next, MainStep, WorkerStep, PopStopped, PopDownscale

(* Every step of the queue is a step of the bounded channel, or none.      *)
LEMMA ChannelStep ==
  TypeOK /\ StopFlag /\ [Next]_vars => [Channel!Next]_(Channel!chanVars)
<1> SUFFICES ASSUME TypeOK, StopFlag, [Next]_vars
             PROVE  Channel!Next \/ UNCHANGED <<queue, is_running>>
  BY DEF Channel!chanVars
<1>1. CASE Push
  <2>1. event_item \in Event
    BY <1>1 DEF Push, TypeOK
  <2>2. Channel!Offer(event_item)
    BY <1>1 DEF Push, Channel!Offer, runVars
  <2>3. QED
    BY <2>1, <2>2 DEF Channel!Next
<1>2. ASSUME NEW w \in Worker, PopTake(w)
      PROVE  Channel!Next
  BY <1>2 DEF PopTake, Channel!Next, Channel!Take, runVars
<1>3. CASE Signal \/ StopCall
  BY <1>3 DEF Signal, StopCall, Channel!Next, Channel!Close
<1>4. CASE DiscardRest
  <2>1. Channel!Discard
    BY <1>4 DEF DiscardRest, StopFlag, Channel!Discard, runVars
  <2>2. QED
    BY <2>1 DEF Channel!Next
<1>5. ASSUME NEW w \in Worker,
             SpawnWorker(w) \/ LeavePool(w) \/ PopWait(w) \/ WaitEnds(w)
             \/ FinishEvent(w) \/ MarkIdle(w)
      PROVE  UNCHANGED <<queue, is_running>>
  BY <1>5 DEF SpawnWorker, LeavePool, PopWait, WaitEnds, FinishEvent, MarkIdle,
              runVars
<1>6. CASE StartSpawnFails \/ StartDone \/ EventLoopStart \/ PushRefused
           \/ ScaleSpawnFails \/ RollBack \/ ReleaseScaling \/ StopCheck
           \/ (\E e \in Event : Poll(e)) \/ UNCHANGED vars
  BY <1>6
     DEF StartSpawnFails, StartDone, EventLoopStart, PushRefused,
         ScaleSpawnFails, RollBack, ReleaseScaling, StopCheck, Poll, vars,
         runVars
<1>7. QED
  BY <1>1, <1>2, <1>3, <1>4, <1>5, <1>6
     DEF Next, MainStep, WorkerStep, PopStopped, PopDownscale

-----------------------------------------------------------------------------
(***************************************************************************)
(* The inductive invariant and the theorems that follow from it.           *)
(***************************************************************************)
IInv ==
  /\ TypeOK
  /\ SpawnLoops
  /\ ScalingFlag
  /\ Accounting
  /\ PoolCeiling
  /\ StopFlag
  /\ NoUseAfterStop
  /\ NoSleepAfterStop
  /\ NoLostWakeup
  /\ SingleOwner

(* The initial state satisfies every conjunct of the inductive invariant.  *)
LEMMA InitInvariant == Init => IInv
<1> SUFFICES ASSUME Init
             PROVE  IInv
  OBVIOUS
<1>1. TypeOK
  <2>1. queue \in Seq(Event)
    BY DEF Init
  <2>2. event_item \in Event \cup {NoEvent} /\ (event_item # NoEvent <=> main = "push")
    BY DEF Init
  <2>3. /\ worker \in [Worker -> WorkerPoint]
        /\ held \in [Worker -> Event \cup {NoEvent}]
        /\ \A w \in Worker : held[w] # NoEvent <=> worker[w] = "serve"
    BY DEF Init, WorkerPoint
  <2>4. /\ total_workers \in Int /\ active_workers \in Int
        /\ spawn_left \in Nat /\ spawn_failed \in Nat /\ unborn \in Nat
    BY LimitsAssumption DEF Init
  <2>5. /\ scaling_in_progress \in BOOLEAN /\ is_running \in BOOLEAN
        /\ server_running \in BOOLEAN /\ main \in MainPoint
    BY DEF Init, MainPoint
  <2>6. QED
    BY <2>1, <2>2, <2>3, <2>4, <2>5, Zenon DEF TypeOK
<1>2. Live = {} /\ Busy = {} /\ Asleep = {}
  BY DEF Init, Live, Busy, Asleep, At
<1>3. Accounting
  BY <1>2, FS_EmptySet, LimitsAssumption DEF Init, Accounting
<1>4. SpawnLoops /\ ScalingFlag /\ PoolCeiling /\ StopFlag /\ NoUseAfterStop
  BY LimitsAssumption
     DEF Init, SpawnLoops, ScalingFlag, PoolCeiling, StopFlag, NoUseAfterStop
<1>5. NoSleepAfterStop /\ NoLostWakeup
  BY <1>2 DEF NoSleepAfterStop, NoLostWakeup
<1>6. SingleOwner
  BY DEF Init, SingleOwner, Queued
<1>7. QED
  BY <1>1, <1>3, <1>4, <1>5, <1>6 DEF IInv

(* The invariant is preserved by every step and so always holds.           *)
LEMMA Invariance == Spec => []IInv
<1>1. IInv /\ [Next]_vars => IInv'
  BY TypeStep, SpawnStep, AccountingStep, CeilingStep, StopFlagStep, StopStep,
     WakeupStep, OwnerStep
     DEF IInv
<1>2. QED
  BY <1>1, InitInvariant, PTL DEF Spec

(* Every reachable state has the right types.                              *)
THEOREM TypeCorrect == Spec => []TypeOK
<1>1. IInv => TypeOK
  BY DEF IInv
<1>2. QED
  BY <1>1, Invariance, PTL

(* total_workers and active_workers count what exists.                     *)
THEOREM AccountingCorrect == Spec => []Accounting
<1>1. IInv => Accounting
  BY DEF IInv
<1>2. QED
  BY <1>1, Invariance, PTL

(* The pool never grows above max_threads_limit.                           *)
THEOREM CeilingCorrect == Spec => []PoolCeiling
<1>1. IInv => PoolCeiling
  BY DEF IInv
<1>2. QED
  BY <1>1, Invariance, PTL

(* The pool keeps min_threads_limit when no upscale fails half way.        *)
THEOREM FloorCorrect ==
  ASSUME "scale" \notin MayFail
  PROVE  Spec => []PoolFloor
<1>1. Init => spawn_failed = 0 /\ PoolFloor
  BY LimitsAssumption DEF Init, PoolFloor
<1>2. TypeOK /\ (spawn_failed = 0 /\ PoolFloor) /\ [Next]_vars
        => (spawn_failed = 0 /\ PoolFloor)'
  BY FloorStep
<1>3. QED
  BY <1>1, <1>2, TypeCorrect, PTL DEF Spec

(* No queued event waits while a worker sleeps through its wakeup.         *)
THEOREM WakeupCorrect == Spec => []NoLostWakeup
<1>1. IInv => NoLostWakeup
  BY DEF IInv
<1>2. QED
  BY <1>1, Invariance, PTL

(* The lock is destroyed only after the last worker has left.              *)
THEOREM StopCorrect == Spec => []NoUseAfterStop
<1>1. IInv => NoUseAfterStop
  BY DEF IInv
<1>2. QED
  BY <1>1, Invariance, PTL

(* No event is lost to, duplicated for or shared between two owners.       *)
THEOREM OwnerCorrect == Spec => []SingleOwner
<1>1. IInv => SingleOwner
  BY DEF IInv
<1>2. QED
  BY <1>1, Invariance, PTL

(* The counts are exact and below the ceiling, whatever fails.             *)
THEOREM PoolCountsCorrect == Spec => []PoolCounts
<1>1. Accounting /\ PoolCeiling => PoolCounts
  BY DEF PoolCounts
<1>2. QED
  BY <1>1, AccountingCorrect, CeilingCorrect, PTL

(* Events, wakeups and the queue itself pass safely between the threads.   *)
THEOREM HandoverCorrect == Spec => []Handover
<1>1. SingleOwner /\ NoLostWakeup /\ NoUseAfterStop => Handover
  BY DEF Handover
<1>2. QED
  BY <1>1, OwnerCorrect, WakeupCorrect, StopCorrect, PTL

(* The queue implements the bounded FIFO channel.                          *)
THEOREM Refinement == Spec => ChannelSpec
<1>1. Init => Channel!Init
  BY DEF Init, Channel!Init
<1>2. IInv /\ [Next]_vars => [Channel!Next]_(Channel!chanVars)
  BY ChannelStep DEF IInv
<1>3. QED
  BY <1>1, <1>2, Invariance, PTL DEF Spec, ChannelSpec, Channel!Spec
=============================================================================
