------------------------- MODULE ConnLifecycle_proofs -------------------------
(***************************************************************************)
(* Proofs about the life of a connection, for every set of descriptors and *)
(* workers, every bound and every choice of what clients ask for.          *)
(***************************************************************************)
EXTENDS ConnLifecycleProps, FiniteSetTheorems, TLAPS

(* A thread that has a job has a whole one. *)
LEMMA JobTyped ==
  ASSUME ThreadsOK, NEW t \in Thread, pc[t] \notin Resting
  PROVE  /\ job[t] \in Job /\ job[t].fd \in Fd
         /\ job[t].gen \in 0 .. GenModulus - 1 /\ job[t].conn \in 0 .. MaxConn
         /\ pc[t] \notin Unslotted => job[t].fd \in Slot
BY DEF ThreadsOK, Job

(* A thread takes a job, or drops the one it has. *)
LEMMA Turns ==
  ASSUME ThreadsOK, NEW t \in Thread, NEW p, NEW j \in Job \cup {NoJob},
         \/ t = Main /\ p \in MainPoint
         \/ t \in Worker /\ p \in WorkerPoint,
         j = NoJob <=> p \in Resting,
         j # NoJob /\ p \notin Unslotted => j.fd \in Slot,
         pc' = [pc EXCEPT ![t] = p],
         job' = [job EXCEPT ![t] = j]
  PROVE  ThreadsOK'
BY ThreadAssumption DEF ThreadsOK, Thread

LEMMA TurnsToEvent ==
  ASSUME TypeOK, NEW e \in batch, NEW g \in 0 .. GenModulus - 1,
         NEW p \in {"uncount", "del", "push"}, Handle(e, g, p)
  PROVE  ThreadsOK'
<1> DEFINE j == [fd |-> e.fd, gen |-> g, conn |-> e.conn]
<1>1. j \in Job /\ j.fd \in Slot /\ Main \in Thread
  BY DEF TypeOK, Job, Slot, Thread
<1>2. pc' = [pc EXCEPT ![Main] = p] /\ job' = [job EXCEPT ![Main] = j]
  BY DEF Handle, Goto
<1> QED
  BY <1>1, <1>2, NoJobAssumption, Turns DEF TypeOK, MainPoint, CleanupPoint,
     Resting, Unslotted

LEMMA ThreadsStep == TypeOK /\ [Next]_vars => ThreadsOK'
<1> SUFFICES ASSUME TypeOK, [Next]_vars
             PROVE  ThreadsOK'
  OBVIOUS
<1>0. ThreadsOK
  BY DEF TypeOK
<1> USE ThreadAssumption, NoJobAssumption, <1>0
    DEF MainPoint, WorkerPoint, CleanupPoint, Resting, Unslotted, Goto, Drop, threadVars
<1>1. CASE EpollWait
  BY <1>1 DEF EpollWait, Report, Armed, Thread, ThreadsOK
<1>2. CASE TakeListener
  BY <1>2 DEF TakeListener, Thread, ThreadsOK
<1>3. CASE AcceptEnds
  BY <1>3 DEF AcceptEnds, Thread, ThreadsOK
<1>4. CASE CountConnection
  BY <1>4 DEF CountConnection, Thread, ThreadsOK
<1>5. CASE Activate
  <2> DEFINE f == job[Main].fd
             g == (generation[f] + 1) % GenModulus
             j == [job[Main] EXCEPT !.gen = g]
  <2>1. f \in Slot /\ job[Main] \in Job /\ Main \in Thread
    BY <1>5, JobTyped DEF Activate, Thread
  <2>2. g \in 0 .. GenModulus - 1
    BY <2>1, BoundAssumption, SMTT(30) DEF TypeOK
  <2>3. /\ generation' = [generation EXCEPT ![f] = g]
        /\ job' = [job EXCEPT ![Main].gen = generation'[f]]
        /\ \E p \in {"refused", "add"} : pc' = [pc EXCEPT ![Main] = p]
    BY <1>5 DEF Activate
  <2> HIDE DEF g
  <2>4. generation'[f] = g
    BY <2>1, <2>3 DEF TypeOK
  <2>5. job' = [job EXCEPT ![Main] = j]
    BY <2>3, <2>4
  <2>6. j \in Job /\ j.fd = f
    BY <2>1, <2>2 DEF Job
  <2>7. PICK p \in {"refused", "add"} : pc' = [pc EXCEPT ![Main] = p]
    BY <2>3
  <2>8. j \in Job \cup {NoJob} /\ j # NoJob /\ p \in MainPoint /\ p \notin Resting
    BY <2>6
  <2> HIDE DEF f, j
  <2> QED
    BY <2>1, <2>5, <2>6, <2>7, <2>8, Turns
<1>6. CASE ActivateOutOfRange
  BY <1>6 DEF ActivateOutOfRange, Thread, ThreadsOK
<1>7. CASE Refuse
  BY <1>7 DEF Refuse, CloseFd, Drop, Thread, ThreadsOK
<1>8. CASE AddToEpoll
  BY <1>8 DEF AddToEpoll, Drop, Thread, ThreadsOK
<1>9. CASE AddFails
  BY <1>9 DEF AddFails, Thread, ThreadsOK
<1>10. CASE PushAccepted
  BY <1>10 DEF PushAccepted, Channel!Offer, Drop, Thread, ThreadsOK
<1>11. CASE PushFails
  BY <1>11 DEF PushFails, Thread, ThreadsOK
<1>12. CASE LoopEnds
  BY <1>12 DEF LoopEnds, Thread, ThreadsOK
<1>13. CASE WorkersGone
  BY <1>13 DEF WorkersGone, Thread, ThreadsOK
<1>14. CASE DiscardQueue
  BY <1>14 DEF DiscardQueue, Channel!Discard, Thread, ThreadsOK
<1>15. CASE Signal
  BY <1>15 DEF Signal, Channel!Close, Thread, ThreadsOK
<1>16. CASE ReapCollect
  BY <1>16 DEF ReapCollect, Thread, ThreadsOK
<1>17. ASSUME NEW f \in Fd, Accept(f)
       PROVE  ThreadsOK'
  <2> DEFINE j == [fd |-> f, gen |-> 0, conn |-> accepted + 1]
  <2>1. j \in Job /\ Main \in Thread
    BY <1>17, BoundAssumption DEF Accept, Job, TypeOK, Thread
  <2>2. pc' = [pc EXCEPT ![Main] = "count"] /\ job' = [job EXCEPT ![Main] = j]
    BY <1>17 DEF Accept
  <2> QED
    BY <2>1, <2>2, Turns
<1>18. ASSUME NEW e \in batch, HandleHup(e)
       PROVE  ThreadsOK'
  <2>1. PICK g \in 0 .. GenModulus - 1, p \in {"uncount", "del", "push"} : Handle(e, g, p)
    BY <1>18, BoundAssumption DEF HandleHup, TypeOK
  <2> QED
    BY <2>1, TurnsToEvent
<1>19. ASSUME NEW e \in batch, HandleIoStopping(e)
       PROVE  ThreadsOK'
  <2>1. PICK g \in 0 .. GenModulus - 1, p \in {"uncount", "del", "push"} : Handle(e, g, p)
    BY <1>19, BoundAssumption DEF HandleIoStopping, TypeOK
  <2> QED
    BY <2>1, TurnsToEvent
<1>20. ASSUME NEW e \in batch, HandleIoInactive(e)
       PROVE  ThreadsOK'
  BY <1>20 DEF HandleIoInactive, Thread, ThreadsOK
<1>21. ASSUME NEW e \in batch, HandleIo(e)
       PROVE  ThreadsOK'
  <2>1. PICK g \in 0 .. GenModulus - 1, p \in {"uncount", "del", "push"} : Handle(e, g, p)
    BY <1>21, BoundAssumption DEF HandleIo, TypeOK
  <2> QED
    BY <2>1, TurnsToEvent
<1>22. ASSUME NEW t \in Thread, Uncount(t)
       PROVE  ThreadsOK'
  BY <1>22 DEF Uncount, Thread, ThreadsOK
<1>23. ASSUME NEW t \in Thread, CleanupDel(t)
       PROVE  ThreadsOK'
  BY <1>23 DEF CleanupDel, Thread, ThreadsOK
<1>24. ASSUME NEW t \in Thread, CleanupLock(t)
       PROVE  ThreadsOK'
  BY <1>24 DEF CleanupLock, Thread, ThreadsOK
<1>25. ASSUME NEW t \in Thread, CleanupReset(t)
       PROVE  ThreadsOK'
  BY <1>25 DEF CleanupReset, Thread, ThreadsOK
<1>26. ASSUME NEW t \in Thread, CleanupClose(t)
       PROVE  ThreadsOK'
  BY <1>26 DEF CleanupClose, CloseFd, Thread, ThreadsOK
<1>27. ASSUME NEW t \in Thread, CleanupUnlock(t)
       PROVE  ThreadsOK'
  BY <1>27 DEF CleanupUnlock, CleanupEnd, Drop, Thread, ThreadsOK
<1>28. ASSUME NEW w \in Worker, PopJob(w)
       PROVE  ThreadsOK'
  <2>1. Head(queue) \in Job /\ Head(queue).fd \in Slot
    BY <1>28 DEF PopJob, Channel!Take, TypeOK
  <2> QED
    BY <1>28, <2>1, Turns DEF PopJob, Thread
<1>29. ASSUME NEW w \in Worker, WorkerExits(w)
       PROVE  ThreadsOK'
  BY <1>29 DEF WorkerExits, Thread, ThreadsOK
<1>30. ASSUME NEW w \in Worker, CheckActive(w)
       PROVE  ThreadsOK'
  BY <1>30 DEF CheckActive, Thread, ThreadsOK
<1>31. ASSUME NEW w \in Worker, CheckGeneration(w)
       PROVE  ThreadsOK'
  BY <1>31 DEF CheckGeneration, Thread, ThreadsOK
<1>32. ASSUME NEW w \in Worker, LockSlot(w)
       PROVE  ThreadsOK'
  BY <1>32 DEF LockSlot, Thread, ThreadsOK
<1>33. ASSUME NEW w \in Worker, Recheck(w)
       PROVE  ThreadsOK'
  BY <1>33 DEF Recheck, IsValid, Thread, ThreadsOK
<1>34. ASSUME NEW w \in Worker, Dispatch(w)
       PROVE  ThreadsOK'
  BY <1>34 DEF Dispatch, Thread, ThreadsOK
<1>35. ASSUME NEW w \in Worker, DispatchUpgrade(w)
       PROVE  ThreadsOK'
  BY <1>35 DEF DispatchUpgrade, Thread, ThreadsOK
<1>36. ASSUME NEW w \in Worker, DispatchFrames(w)
       PROVE  ThreadsOK'
  BY <1>36 DEF DispatchFrames, Thread, ThreadsOK
<1>37. ASSUME NEW w \in Worker, Rearm(w)
       PROVE  ThreadsOK'
  BY <1>37 DEF Rearm, Thread, ThreadsOK
<1>38. ASSUME NEW w \in Worker, UnlockSlot(w)
       PROVE  ThreadsOK'
  BY <1>38 DEF UnlockSlot, Thread, ThreadsOK
<1>39. ASSUME NEW w \in Worker, MarkIdle(w)
       PROVE  ThreadsOK'
  BY <1>39 DEF MarkIdle, Drop, Thread, ThreadsOK
<1>40. ASSUME NEW f \in Fd, ReapClose(f)
       PROVE  ThreadsOK'
  BY <1>40 DEF ReapClose, CloseFd, Thread, ThreadsOK
<1>41. ASSUME NEW f \in Fd, ReapRemove(f)
       PROVE  ThreadsOK'
  BY <1>41 DEF ReapRemove, Thread, ThreadsOK
<1>42. CASE UNCHANGED vars
  BY <1>42 DEF vars, Thread, ThreadsOK
<1> QED
  BY <1>1, <1>2, <1>3, <1>4, <1>5, <1>6, <1>7, <1>8, <1>9, <1>10, <1>11, <1>12,
     <1>13, <1>14, <1>15, <1>16, <1>17, <1>18, <1>19, <1>20, <1>21, <1>22, <1>23,
     <1>24, <1>25, <1>26, <1>27, <1>28, <1>29, <1>30, <1>31, <1>32, <1>33, <1>34,
     <1>35, <1>36, <1>37, <1>38, <1>39, <1>40, <1>41, <1>42
  DEF Next, MainStep, WorkerStep, ReaperStep, Cleanup, Thread

LEMMA TypeStep == TypeOK /\ [Next]_vars => TypeOK'
<1> SUFFICES ASSUME TypeOK, [Next]_vars
             PROVE  TypeOK'
  OBVIOUS
<1>0. ThreadsOK' /\ ThreadsOK
  BY ThreadsStep DEF TypeOK
<1> USE ThreadAssumption, BoundAssumption, NoJobAssumption, <1>0, JobTyped
    DEF TypeOK, Watch, Slot, NoConn, Resting, Unslotted, Thread,
        kernelVars, slotVars, flagVars, loopVars, wsVars, threadVars
<1>1. CASE EpollWait
  <2> DEFINE E(f, hup) == [fd |-> f, conn |-> sock[f], hup |-> f \in hup]
             R == [fd : Slot, conn : 0 .. MaxConn, hup : BOOLEAN]
  <2>1. PICK S \in SUBSET Armed, l \in {"quiet", "ready"} :
        Report(S, l) /\ watch' = [f \in Fd |-> IF f \in S THEN "silent" ELSE watch[f]]
    BY <1>1 DEF EpollWait
  <2>2. \A f \in S : f \in Fd \ OutOfRange
    BY <2>1 DEF Armed
  <2>3. PICK hup \in SUBSET S : batch' = {E(f, hup) : f \in S}
    BY <2>1 DEF Report
  <2>4. \A f \in S : E(f, hup) \in R
    BY <2>2
  <2> HIDE DEF E, R
  <2>5. batch' \subseteq R
    BY <2>3, <2>4
  <2>6. watch' \in [Fd -> Watch] /\ \A f \in OutOfRange : watch'[f] = "none"
    BY <2>1, <2>2
  <2> QED
    BY <2>1, <2>5, <2>6 DEF Report, R
<1>2. CASE TakeListener
  BY <1>2 DEF TakeListener
<1>3. CASE AcceptEnds
  BY <1>3 DEF AcceptEnds
<1>4. CASE CountConnection
  BY <1>4 DEF CountConnection
<1>5. CASE Activate
  <2>1. /\ job[Main].fd \in Slot /\ pc[Main] = "activate"
    BY <1>5 DEF Activate
  <2>2. \A g \in 0 .. GenModulus - 1 : (g + 1) % GenModulus \in 0 .. GenModulus - 1
    OBVIOUS
  <2>3. generation' \in [Slot -> 0 .. GenModulus - 1]
    BY <1>5, <2>1, <2>2 DEF Activate
  <2>4. active' \in [Slot -> BOOLEAN] /\ session' \in [Slot -> 0 .. MaxConn]
    BY <1>5, <2>1 DEF Activate
  <2>5. UNCHANGED <<sock, watch, accepted, io_lock, active_connections, flagVars, loopVars,
                    queue, wsVars>>
    BY <1>5 DEF Activate
  <2> QED
    BY <2>3, <2>4, <2>5
<1>6. CASE ActivateOutOfRange
  BY <1>6 DEF ActivateOutOfRange
<1>7. CASE Refuse
  <2>1. job[Main].fd \in Fd
    BY <1>7 DEF Refuse
  <2>2. sock' \in [Fd -> 0 .. MaxConn]
    BY <1>7, <2>1 DEF Refuse, CloseFd
  <2>3. watch' \in [Fd -> Watch] /\ \A f \in OutOfRange : watch'[f] = "none"
    BY <1>7, <2>1 DEF Refuse, CloseFd
  <2> QED
    BY <1>7, <2>2, <2>3 DEF Refuse
<1>8. CASE AddToEpoll
  <2>1. job[Main].fd \in Slot
    BY <1>8 DEF AddToEpoll
  <2> QED
    BY <1>8, <2>1 DEF AddToEpoll, Drop
<1>9. CASE AddFails
  BY <1>9 DEF AddFails
<1>10. CASE PushAccepted
  <2>1. job[Main] \in Job /\ job[Main].fd \in Slot
    BY <1>10 DEF PushAccepted
  <2>2. queue' = Append(queue, job[Main]) /\ is_running' = is_running
    BY <1>10 DEF PushAccepted, Channel!Offer
  <2>3. queue' \in Seq(Job) /\ \A i \in DOMAIN queue' : queue'[i].fd \in Slot
    BY <2>1, <2>2
  <2> QED
    BY <1>10, <2>2, <2>3 DEF PushAccepted
<1>11. CASE PushFails
  BY <1>11 DEF PushFails
<1>12. CASE LoopEnds
  BY <1>12 DEF LoopEnds
<1>13. CASE WorkersGone
  BY <1>13 DEF WorkersGone
<1>14. CASE DiscardQueue
  BY <1>14 DEF DiscardQueue, Channel!Discard
<1>15. CASE Signal
  BY <1>15 DEF Signal, Channel!Close
<1>16. CASE ReapCollect
  BY <1>16 DEF ReapCollect
<1>17. ASSUME NEW f \in Fd, Accept(f)
       PROVE  TypeOK'
  BY <1>17, SMTT(30) DEF Accept
<1>18. ASSUME NEW e \in batch, HandleHup(e)
       PROVE  TypeOK'
  BY <1>18 DEF HandleHup, Handle
<1>19. ASSUME NEW e \in batch, HandleIoStopping(e)
       PROVE  TypeOK'
  BY <1>19 DEF HandleIoStopping, Handle
<1>20. ASSUME NEW e \in batch, HandleIoInactive(e)
       PROVE  TypeOK'
  BY <1>20 DEF HandleIoInactive
<1>21. ASSUME NEW e \in batch, HandleIo(e)
       PROVE  TypeOK'
  BY <1>21 DEF HandleIo, Handle
<1>22. ASSUME NEW t \in Thread, Uncount(t)
       PROVE  TypeOK'
  BY <1>22 DEF Uncount
<1>23. ASSUME NEW t \in Thread, CleanupDel(t)
       PROVE  TypeOK'
  BY <1>23 DEF CleanupDel
<1>24. ASSUME NEW t \in Thread, CleanupLock(t)
       PROVE  TypeOK'
  BY <1>24 DEF CleanupLock
<1>25. ASSUME NEW t \in Thread, CleanupReset(t)
       PROVE  TypeOK'
  <2>1. job[t].fd \in Slot
    BY <1>25 DEF CleanupReset
  <2> DEFINE f == job[t].fd
  <2>2. /\ active' = [active EXCEPT ![f] = FALSE]
        /\ session' = [session EXCEPT ![f] = NoConn]
        /\ ws_fd_map' = [ws_fd_map EXCEPT ![f] = NoConn]
        /\ registry' = registry \/ registry' = [registry EXCEPT ![f] = NoConn]
        /\ UNCHANGED <<kernelVars, generation, io_lock, active_connections, flagVars,
                       loopVars, queue, victims, reaping>>
    BY <1>25 DEF CleanupReset
  <2>0. f \in Slot
    BY <2>1
  <2> HIDE DEF f
  <2>3. /\ active' \in [Slot -> BOOLEAN] /\ session' \in [Slot -> 0 .. MaxConn]
        /\ ws_fd_map' \in [Fd -> 0 .. MaxConn] /\ registry' \in [Fd -> 0 .. MaxConn]
    <3>1. active' \in [Slot -> BOOLEAN]
      BY <2>2
    <3>2. NoConn \in 0 .. MaxConn
      BY BoundAssumption DEF NoConn
    <3>3. session' \in [Slot -> 0 .. MaxConn]
      BY <2>2, <3>2
    <3>4. ws_fd_map' \in [Fd -> 0 .. MaxConn]
      BY <2>2, <3>2
    <3>5. registry' \in [Fd -> 0 .. MaxConn]
      BY <2>2, <3>2
    <3> QED
      BY <3>1, <3>3, <3>4, <3>5
  <2> QED
    BY <2>2, <2>3
<1>26. ASSUME NEW t \in Thread, CleanupClose(t)
       PROVE  TypeOK'
  <2>1. job[t].fd \in Slot
    BY <1>26 DEF CleanupClose
  <2>2. sock' \in [Fd -> 0 .. MaxConn]
    BY <1>26, <2>1 DEF CleanupClose, CloseFd
  <2>3. watch' \in [Fd -> Watch] /\ \A f \in OutOfRange : watch'[f] = "none"
    BY <1>26, <2>1 DEF CleanupClose, CloseFd
  <2> QED
    BY <1>26, <2>2, <2>3 DEF CleanupClose
<1>27. ASSUME NEW t \in Thread, CleanupUnlock(t)
       PROVE  TypeOK'
  BY <1>27 DEF CleanupUnlock, CleanupEnd, Drop
<1>28. ASSUME NEW w \in Worker, PopJob(w)
       PROVE  TypeOK'
  BY <1>28 DEF PopJob, Channel!Take
<1>29. ASSUME NEW w \in Worker, WorkerExits(w)
       PROVE  TypeOK'
  BY <1>29 DEF WorkerExits
<1>30. ASSUME NEW w \in Worker, CheckActive(w)
       PROVE  TypeOK'
  BY <1>30 DEF CheckActive
<1>31. ASSUME NEW w \in Worker, CheckGeneration(w)
       PROVE  TypeOK'
  BY <1>31 DEF CheckGeneration
<1>32. ASSUME NEW w \in Worker, LockSlot(w)
       PROVE  TypeOK'
  BY <1>32 DEF LockSlot
<1>33. ASSUME NEW w \in Worker, Recheck(w)
       PROVE  TypeOK'
  BY <1>33 DEF Recheck, IsValid
<1>34. ASSUME NEW w \in Worker, Dispatch(w)
       PROVE  TypeOK'
  BY <1>34 DEF Dispatch
<1>35. ASSUME NEW w \in Worker, DispatchUpgrade(w)
       PROVE  TypeOK'
  <2> DEFINE f == job[w].fd
  <2>1. /\ session' = session \/ session' = [session EXCEPT ![f] = sock[f]]
        /\ ws_fd_map' = [ws_fd_map EXCEPT ![f] = sock[f]]
        /\ registry' = registry \/ registry' = [registry EXCEPT ![f] = sock[f]]
        /\ UNCHANGED <<kernelVars, generation, active, io_lock, active_connections,
                       flagVars, loopVars, queue, victims, reaping>>
    BY <1>35 DEF DispatchUpgrade
  <2>2. f \in Fd
    BY <1>35 DEF DispatchUpgrade
  <2> HIDE DEF f
  <2>3. sock[f] \in 0 .. MaxConn
    BY <2>2
  <2> DEFINE c == sock[f]
  <2> HIDE DEF c
  <2>4. /\ session' \in [Slot -> 0 .. MaxConn] /\ ws_fd_map' \in [Fd -> 0 .. MaxConn]
        /\ registry' \in [Fd -> 0 .. MaxConn]
    BY <2>1, <2>3
  <2> QED
    BY <2>1, <2>4
<1>36. ASSUME NEW w \in Worker, DispatchFrames(w)
       PROVE  TypeOK'
  BY <1>36 DEF DispatchFrames
<1>37. ASSUME NEW w \in Worker, Rearm(w)
       PROVE  TypeOK'
  BY <1>37 DEF Rearm
<1>38. ASSUME NEW w \in Worker, UnlockSlot(w)
       PROVE  TypeOK'
  BY <1>38 DEF UnlockSlot
<1>39. ASSUME NEW w \in Worker, MarkIdle(w)
       PROVE  TypeOK'
  BY <1>39 DEF MarkIdle, Drop
<1>40. ASSUME NEW f \in Fd, ReapClose(f)
       PROVE  TypeOK'
  BY <1>40, SMTT(30) DEF ReapClose, CloseFd
<1>41. ASSUME NEW f \in Fd, ReapRemove(f)
       PROVE  TypeOK'
  BY <1>41, SMTT(30) DEF ReapRemove
<1>42. CASE UNCHANGED vars
  BY <1>42 DEF vars
<1> QED
  BY <1>1, <1>2, <1>3, <1>4, <1>5, <1>6, <1>7, <1>8, <1>9, <1>10, <1>11, <1>12,
     <1>13, <1>14, <1>15, <1>16, <1>17, <1>18, <1>19, <1>20, <1>21, <1>22, <1>23,
     <1>24, <1>25, <1>26, <1>27, <1>28, <1>29, <1>30, <1>31, <1>32, <1>33, <1>34,
     <1>35, <1>36, <1>37, <1>38, <1>39, <1>40, <1>41, <1>42
  DEF Next, MainStep, WorkerStep, ReaperStep, Cleanup, Thread

-----------------------------------------------------------------------------
(* The locks of the slots, the reaper included.                            *)
LEMMA LockStep == TypeOK /\ LockHolders /\ [Next]_vars => LockHolders'
<1> SUFFICES ASSUME TypeOK, LockHolders, [Next]_vars
             PROVE  LockHolders'
  OBVIOUS
<1>0. ThreadsOK /\ io_lock \in [Slot -> Thread \cup {NoThread}]
  BY DEF TypeOK
<1> USE ThreadAssumption, NoJobAssumption, <1>0, JobTyped
    DEF LockHolders, Region, ThreadsOK, Goto, Drop, CleanupPoint, MainPoint,
        WorkerPoint,
        Resting, Unslotted, Thread, slotVars, threadVars
<1>1. CASE EpollWait
  BY <1>1 DEF EpollWait, Report, Armed
<1>2. CASE TakeListener
  BY <1>2 DEF TakeListener
<1>3. CASE AcceptEnds
  BY <1>3 DEF AcceptEnds
<1>4. CASE CountConnection
  BY <1>4 DEF CountConnection
<1>5. CASE Activate
  BY <1>5 DEF Activate
<1>6. CASE ActivateOutOfRange
  BY <1>6 DEF ActivateOutOfRange
<1>7. CASE Refuse
  BY <1>7 DEF Refuse, CloseFd, Drop
<1>8. CASE AddToEpoll
  BY <1>8 DEF AddToEpoll, Drop
<1>9. CASE AddFails
  BY <1>9 DEF AddFails
<1>10. CASE PushAccepted
  BY <1>10 DEF PushAccepted, Channel!Offer, Drop
<1>11. CASE PushFails
  BY <1>11 DEF PushFails
<1>12. CASE LoopEnds
  BY <1>12 DEF LoopEnds
<1>13. CASE WorkersGone
  BY <1>13 DEF WorkersGone
<1>14. CASE DiscardQueue
  BY <1>14 DEF DiscardQueue, Channel!Discard
<1>15. CASE Signal
  BY <1>15 DEF Signal, Channel!Close
<1>16. CASE ReapCollect
  BY <1>16 DEF ReapCollect
<1>17. ASSUME NEW f \in Fd, Accept(f)
       PROVE  LockHolders'
  BY <1>17 DEF Accept
<1>18. ASSUME NEW e \in batch, HandleHup(e)
       PROVE  LockHolders'
  BY <1>18 DEF HandleHup, Handle
<1>19. ASSUME NEW e \in batch, HandleIoStopping(e)
       PROVE  LockHolders'
  BY <1>19 DEF HandleIoStopping, Handle
<1>20. ASSUME NEW e \in batch, HandleIoInactive(e)
       PROVE  LockHolders'
  BY <1>20 DEF HandleIoInactive
<1>21. ASSUME NEW e \in batch, HandleIo(e)
       PROVE  LockHolders'
  BY <1>21 DEF HandleIo, Handle
<1>22. ASSUME NEW t \in Thread, Uncount(t)
       PROVE  LockHolders'
  BY <1>22 DEF Uncount
<1>23. ASSUME NEW t \in Thread, CleanupDel(t)
       PROVE  LockHolders'
  BY <1>23 DEF CleanupDel
<1>24. ASSUME NEW t \in Thread, CleanupLock(t)
       PROVE  LockHolders'
  BY <1>24 DEF CleanupLock
<1>25. ASSUME NEW t \in Thread, CleanupReset(t)
       PROVE  LockHolders'
  BY <1>25 DEF CleanupReset
<1>26. ASSUME NEW t \in Thread, CleanupClose(t)
       PROVE  LockHolders'
  BY <1>26 DEF CleanupClose, CloseFd
<1>27. ASSUME NEW t \in Thread, CleanupUnlock(t)
       PROVE  LockHolders'
  BY <1>27 DEF CleanupUnlock, CleanupEnd, Drop
<1>28. ASSUME NEW w \in Worker, PopJob(w)
       PROVE  LockHolders'
  BY <1>28 DEF PopJob, Channel!Take
<1>29. ASSUME NEW w \in Worker, WorkerExits(w)
       PROVE  LockHolders'
  BY <1>29 DEF WorkerExits
<1>30. ASSUME NEW w \in Worker, CheckActive(w)
       PROVE  LockHolders'
  BY <1>30 DEF CheckActive
<1>31. ASSUME NEW w \in Worker, CheckGeneration(w)
       PROVE  LockHolders'
  BY <1>31 DEF CheckGeneration
<1>32. ASSUME NEW w \in Worker, LockSlot(w)
       PROVE  LockHolders'
  BY <1>32 DEF LockSlot
<1>33. ASSUME NEW w \in Worker, Recheck(w)
       PROVE  LockHolders'
  BY <1>33 DEF Recheck, IsValid
<1>34. ASSUME NEW w \in Worker, Dispatch(w)
       PROVE  LockHolders'
  BY <1>34 DEF Dispatch
<1>35. ASSUME NEW w \in Worker, DispatchUpgrade(w)
       PROVE  LockHolders'
  BY <1>35 DEF DispatchUpgrade
<1>36. ASSUME NEW w \in Worker, DispatchFrames(w)
       PROVE  LockHolders'
  BY <1>36 DEF DispatchFrames
<1>37. ASSUME NEW w \in Worker, Rearm(w)
       PROVE  LockHolders'
  BY <1>37 DEF Rearm
<1>38. ASSUME NEW w \in Worker, UnlockSlot(w)
       PROVE  LockHolders'
  BY <1>38 DEF UnlockSlot
<1>39. ASSUME NEW w \in Worker, MarkIdle(w)
       PROVE  LockHolders'
  BY <1>39 DEF MarkIdle, Drop
<1>40. ASSUME NEW f \in Fd, ReapClose(f)
       PROVE  LockHolders'
  BY <1>40 DEF ReapClose, CloseFd
<1>41. ASSUME NEW f \in Fd, ReapRemove(f)
       PROVE  LockHolders'
  BY <1>41 DEF ReapRemove
<1>42. CASE UNCHANGED vars
  BY <1>42 DEF vars
<1> QED
  BY <1>1, <1>2, <1>3, <1>4, <1>5, <1>6, <1>7, <1>8, <1>9, <1>10, <1>11, <1>12,
     <1>13, <1>14, <1>15, <1>16, <1>17, <1>18, <1>19, <1>20, <1>21, <1>22, <1>23,
     <1>24, <1>25, <1>26, <1>27, <1>28, <1>29, <1>30, <1>31, <1>32, <1>33, <1>34,
     <1>35, <1>36, <1>37, <1>38, <1>39, <1>40, <1>41, <1>42
  DEF Next, MainStep, WorkerStep, ReaperStep, Cleanup, Thread

(* Once the loop has ended main has no event, nothing is watched, and when *)
(* it throws the queue away every worker has left.                         *)
Ending == {"stopping", "discard", "stopped"}
ShuttingDown ==
  /\ pc[Main] \in Ending =>
       ~server_running /\ batch = {} /\ \A f \in Fd : watch[f] = "none"
  /\ pc[Main] \in {"discard", "stopped"} => \A w \in Worker : pc[w] = "exited"

LEMMA ShutdownStep == TypeOK /\ ShuttingDown /\ [Next]_vars => ShuttingDown'
<1> SUFFICES ASSUME TypeOK, ShuttingDown, [Next]_vars
             PROVE  ShuttingDown'
  OBVIOUS
<1>0. ThreadsOK /\ watch \in [Fd -> Watch]
  BY DEF TypeOK
<1> USE ThreadAssumption, <1>0, JobTyped
    DEF ShuttingDown, Ending, ThreadsOK, Goto, Drop, CleanupPoint, MainPoint,
        WorkerPoint,
        Resting, Unslotted, Thread, kernelVars, flagVars, loopVars, threadVars
<1>1. CASE EpollWait
  BY <1>1 DEF EpollWait, Report, Armed
<1>2. CASE TakeListener
  BY <1>2 DEF TakeListener
<1>3. CASE AcceptEnds
  BY <1>3 DEF AcceptEnds
<1>4. CASE CountConnection
  BY <1>4 DEF CountConnection
<1>5. CASE Activate
  BY <1>5 DEF Activate
<1>6. CASE ActivateOutOfRange
  BY <1>6 DEF ActivateOutOfRange
<1>7. CASE Refuse
  BY <1>7 DEF Refuse, CloseFd, Drop
<1>8. CASE AddToEpoll
  BY <1>8 DEF AddToEpoll, Drop
<1>9. CASE AddFails
  BY <1>9 DEF AddFails
<1>10. CASE PushAccepted
  BY <1>10 DEF PushAccepted, Channel!Offer, Drop
<1>11. CASE PushFails
  BY <1>11 DEF PushFails
<1>12. CASE LoopEnds
  BY <1>12 DEF LoopEnds
<1>13. CASE WorkersGone
  BY <1>13 DEF WorkersGone
<1>14. CASE DiscardQueue
  BY <1>14 DEF DiscardQueue, Channel!Discard
<1>15. CASE Signal
  BY <1>15 DEF Signal, Channel!Close
<1>16. CASE ReapCollect
  BY <1>16 DEF ReapCollect
<1>17. ASSUME NEW f \in Fd, Accept(f)
       PROVE  ShuttingDown'
  BY <1>17 DEF Accept
<1>18. ASSUME NEW e \in batch, HandleHup(e)
       PROVE  ShuttingDown'
  BY <1>18 DEF HandleHup, Handle
<1>19. ASSUME NEW e \in batch, HandleIoStopping(e)
       PROVE  ShuttingDown'
  BY <1>19 DEF HandleIoStopping, Handle
<1>20. ASSUME NEW e \in batch, HandleIoInactive(e)
       PROVE  ShuttingDown'
  BY <1>20 DEF HandleIoInactive
<1>21. ASSUME NEW e \in batch, HandleIo(e)
       PROVE  ShuttingDown'
  BY <1>21 DEF HandleIo, Handle
<1>22. ASSUME NEW t \in Thread, Uncount(t)
       PROVE  ShuttingDown'
  BY <1>22 DEF Uncount
<1>23. ASSUME NEW t \in Thread, CleanupDel(t)
       PROVE  ShuttingDown'
  BY <1>23 DEF CleanupDel
<1>24. ASSUME NEW t \in Thread, CleanupLock(t)
       PROVE  ShuttingDown'
  BY <1>24 DEF CleanupLock
<1>25. ASSUME NEW t \in Thread, CleanupReset(t)
       PROVE  ShuttingDown'
  BY <1>25 DEF CleanupReset
<1>26. ASSUME NEW t \in Thread, CleanupClose(t)
       PROVE  ShuttingDown'
  BY <1>26 DEF CleanupClose, CloseFd
<1>27. ASSUME NEW t \in Thread, CleanupUnlock(t)
       PROVE  ShuttingDown'
  BY <1>27 DEF CleanupUnlock, CleanupEnd, Drop
<1>28. ASSUME NEW w \in Worker, PopJob(w)
       PROVE  ShuttingDown'
  BY <1>28 DEF PopJob, Channel!Take
<1>29. ASSUME NEW w \in Worker, WorkerExits(w)
       PROVE  ShuttingDown'
  BY <1>29 DEF WorkerExits
<1>30. ASSUME NEW w \in Worker, CheckActive(w)
       PROVE  ShuttingDown'
  BY <1>30 DEF CheckActive
<1>31. ASSUME NEW w \in Worker, CheckGeneration(w)
       PROVE  ShuttingDown'
  BY <1>31 DEF CheckGeneration
<1>32. ASSUME NEW w \in Worker, LockSlot(w)
       PROVE  ShuttingDown'
  BY <1>32 DEF LockSlot
<1>33. ASSUME NEW w \in Worker, Recheck(w)
       PROVE  ShuttingDown'
  BY <1>33 DEF Recheck, IsValid
<1>34. ASSUME NEW w \in Worker, Dispatch(w)
       PROVE  ShuttingDown'
  BY <1>34 DEF Dispatch
<1>35. ASSUME NEW w \in Worker, DispatchUpgrade(w)
       PROVE  ShuttingDown'
  BY <1>35 DEF DispatchUpgrade
<1>36. ASSUME NEW w \in Worker, DispatchFrames(w)
       PROVE  ShuttingDown'
  BY <1>36 DEF DispatchFrames
<1>37. ASSUME NEW w \in Worker, Rearm(w)
       PROVE  ShuttingDown'
  BY <1>37 DEF Rearm
<1>38. ASSUME NEW w \in Worker, UnlockSlot(w)
       PROVE  ShuttingDown'
  BY <1>38 DEF UnlockSlot
<1>39. ASSUME NEW w \in Worker, MarkIdle(w)
       PROVE  ShuttingDown'
  BY <1>39 DEF MarkIdle, Drop
<1>40. ASSUME NEW f \in Fd, ReapClose(f)
       PROVE  ShuttingDown'
  BY <1>40 DEF ReapClose, CloseFd
<1>41. ASSUME NEW f \in Fd, ReapRemove(f)
       PROVE  ShuttingDown'
  BY <1>41 DEF ReapRemove
<1>42. CASE UNCHANGED vars
  BY <1>42 DEF vars
<1> QED
  BY <1>1, <1>2, <1>3, <1>4, <1>5, <1>6, <1>7, <1>8, <1>9, <1>10, <1>11, <1>12,
     <1>13, <1>14, <1>15, <1>16, <1>17, <1>18, <1>19, <1>20, <1>21, <1>22, <1>23,
     <1>24, <1>25, <1>26, <1>27, <1>28, <1>29, <1>30, <1>31, <1>32, <1>33, <1>34,
     <1>35, <1>36, <1>37, <1>38, <1>39, <1>40, <1>41, <1>42
  DEF Next, MainStep, WorkerStep, ReaperStep, Cleanup, Thread

LEMMA DispatchStep ==
  TypeOK /\ LockHolders /\ ShuttingDown /\ DispatchCurrent /\ [Next]_vars => DispatchCurrent'
<1> SUFFICES ASSUME TypeOK, LockHolders, ShuttingDown, DispatchCurrent, [Next]_vars
             PROVE  DispatchCurrent'
  OBVIOUS
<1>0. /\ ThreadsOK /\ io_lock \in [Slot -> Thread \cup {NoThread}]
      /\ active \in [Slot -> BOOLEAN] /\ generation \in [Slot -> 0 .. GenModulus - 1]
  BY DEF TypeOK
<1> USE ThreadAssumption, NoJobAssumption, <1>0, JobTyped
    DEF DispatchCurrent, ShuttingDown, IsValid, LockHolders, Region, ThreadsOK,
        Goto, Drop, CleanupPoint,
        MainPoint, WorkerPoint, Resting, Unslotted, Thread, slotVars, threadVars
<1>1. CASE EpollWait
  BY <1>1 DEF EpollWait, Report, Armed
<1>2. CASE TakeListener
  BY <1>2 DEF TakeListener
<1>3. CASE AcceptEnds
  BY <1>3 DEF AcceptEnds
<1>4. CASE CountConnection
  BY <1>4 DEF CountConnection
<1>5. CASE Activate
  BY <1>5 DEF Activate
<1>6. CASE ActivateOutOfRange
  BY <1>6 DEF ActivateOutOfRange
<1>7. CASE Refuse
  BY <1>7 DEF Refuse, CloseFd, Drop
<1>8. CASE AddToEpoll
  BY <1>8 DEF AddToEpoll, Drop
<1>9. CASE AddFails
  BY <1>9 DEF AddFails
<1>10. CASE PushAccepted
  BY <1>10 DEF PushAccepted, Channel!Offer, Drop
<1>11. CASE PushFails
  BY <1>11 DEF PushFails
<1>12. CASE LoopEnds
  BY <1>12 DEF LoopEnds
<1>13. CASE WorkersGone
  BY <1>13 DEF WorkersGone
<1>14. CASE DiscardQueue
  BY <1>14 DEF DiscardQueue, Channel!Discard
<1>15. CASE Signal
  BY <1>15 DEF Signal, Channel!Close
<1>16. CASE ReapCollect
  BY <1>16 DEF ReapCollect
<1>17. ASSUME NEW f \in Fd, Accept(f)
       PROVE  DispatchCurrent'
  BY <1>17 DEF Accept
<1>18. ASSUME NEW e \in batch, HandleHup(e)
       PROVE  DispatchCurrent'
  BY <1>18 DEF HandleHup, Handle
<1>19. ASSUME NEW e \in batch, HandleIoStopping(e)
       PROVE  DispatchCurrent'
  BY <1>19 DEF HandleIoStopping, Handle
<1>20. ASSUME NEW e \in batch, HandleIoInactive(e)
       PROVE  DispatchCurrent'
  BY <1>20 DEF HandleIoInactive
<1>21. ASSUME NEW e \in batch, HandleIo(e)
       PROVE  DispatchCurrent'
  BY <1>21 DEF HandleIo, Handle
<1>22. ASSUME NEW t \in Thread, Uncount(t)
       PROVE  DispatchCurrent'
  BY <1>22 DEF Uncount
<1>23. ASSUME NEW t \in Thread, CleanupDel(t)
       PROVE  DispatchCurrent'
  BY <1>23 DEF CleanupDel
<1>24. ASSUME NEW t \in Thread, CleanupLock(t)
       PROVE  DispatchCurrent'
  BY <1>24 DEF CleanupLock
<1>25. ASSUME NEW t \in Thread, CleanupReset(t)
       PROVE  DispatchCurrent'
  BY <1>25 DEF CleanupReset
<1>26. ASSUME NEW t \in Thread, CleanupClose(t)
       PROVE  DispatchCurrent'
  BY <1>26 DEF CleanupClose, CloseFd
<1>27. ASSUME NEW t \in Thread, CleanupUnlock(t)
       PROVE  DispatchCurrent'
  BY <1>27 DEF CleanupUnlock, CleanupEnd, Drop
<1>28. ASSUME NEW w \in Worker, PopJob(w)
       PROVE  DispatchCurrent'
  BY <1>28 DEF PopJob, Channel!Take
<1>29. ASSUME NEW w \in Worker, WorkerExits(w)
       PROVE  DispatchCurrent'
  BY <1>29 DEF WorkerExits
<1>30. ASSUME NEW w \in Worker, CheckActive(w)
       PROVE  DispatchCurrent'
  BY <1>30 DEF CheckActive
<1>31. ASSUME NEW w \in Worker, CheckGeneration(w)
       PROVE  DispatchCurrent'
  BY <1>31 DEF CheckGeneration
<1>32. ASSUME NEW w \in Worker, LockSlot(w)
       PROVE  DispatchCurrent'
  BY <1>32 DEF LockSlot
<1>33. ASSUME NEW w \in Worker, Recheck(w)
       PROVE  DispatchCurrent'
  BY <1>33 DEF Recheck, IsValid
<1>34. ASSUME NEW w \in Worker, Dispatch(w)
       PROVE  DispatchCurrent'
  BY <1>34 DEF Dispatch
<1>35. ASSUME NEW w \in Worker, DispatchUpgrade(w)
       PROVE  DispatchCurrent'
  BY <1>35 DEF DispatchUpgrade
<1>36. ASSUME NEW w \in Worker, DispatchFrames(w)
       PROVE  DispatchCurrent'
  BY <1>36 DEF DispatchFrames
<1>37. ASSUME NEW w \in Worker, Rearm(w)
       PROVE  DispatchCurrent'
  BY <1>37 DEF Rearm
<1>38. ASSUME NEW w \in Worker, UnlockSlot(w)
       PROVE  DispatchCurrent'
  BY <1>38 DEF UnlockSlot
<1>39. ASSUME NEW w \in Worker, MarkIdle(w)
       PROVE  DispatchCurrent'
  BY <1>39 DEF MarkIdle, Drop
<1>40. ASSUME NEW f \in Fd, ReapClose(f)
       PROVE  DispatchCurrent'
  BY <1>40 DEF ReapClose, CloseFd
<1>41. ASSUME NEW f \in Fd, ReapRemove(f)
       PROVE  DispatchCurrent'
  BY <1>41 DEF ReapRemove
<1>42. CASE UNCHANGED vars
  BY <1>42 DEF vars
<1> QED
  BY <1>1, <1>2, <1>3, <1>4, <1>5, <1>6, <1>7, <1>8, <1>9, <1>10, <1>11, <1>12,
     <1>13, <1>14, <1>15, <1>16, <1>17, <1>18, <1>19, <1>20, <1>21, <1>22, <1>23,
     <1>24, <1>25, <1>26, <1>27, <1>28, <1>29, <1>30, <1>31, <1>32, <1>33, <1>34,
     <1>35, <1>36, <1>37, <1>38, <1>39, <1>40, <1>41, <1>42
  DEF Next, MainStep, WorkerStep, ReaperStep, Cleanup, Thread

LEMMA ProtectedStep ==
  TypeOK /\ LockHolders /\ ShuttingDown /\ [Next]_vars => HolderChanges
<1> SUFFICES ASSUME TypeOK, LockHolders, ShuttingDown, [Next]_vars,
                    NEW s \in Slot, io_lock[s] # NoThread, io_lock'[s] = io_lock[s],
                    \/ generation[s] # generation'[s] \/ active[s] # active'[s] \/ session[s] # session'[s]
             PROVE  pc[io_lock[s]] # pc'[io_lock[s]]
  BY DEF HolderChanges
<1>0. /\ ThreadsOK /\ io_lock \in [Slot -> Thread \cup {NoThread}]
      /\ active \in [Slot -> BOOLEAN] /\ generation \in [Slot -> 0 .. GenModulus - 1]
      /\ session \in [Slot -> 0 .. MaxConn]
  BY DEF TypeOK
<1> USE ThreadAssumption, NoJobAssumption, <1>0, JobTyped
    DEF ShuttingDown, LockHolders, Region, ThreadsOK, Goto, Drop, CleanupPoint,
        MainPoint, WorkerPoint, Resting, Unslotted, Thread, slotVars, threadVars
<1>1. CASE EpollWait
  BY <1>1 DEF EpollWait, Report, Armed
<1>2. CASE TakeListener
  BY <1>2 DEF TakeListener
<1>3. CASE AcceptEnds
  BY <1>3 DEF AcceptEnds
<1>4. CASE CountConnection
  BY <1>4 DEF CountConnection
<1>5. CASE Activate
  <2>1. s # job[Main].fd
    BY <1>5 DEF Activate
  <2>2. generation'[s] = generation[s] /\ active'[s] = active[s] /\ session'[s] = session[s]
    BY <1>5, <2>1 DEF Activate
  <2> QED
    BY <2>2
<1>6. CASE ActivateOutOfRange
  BY <1>6 DEF ActivateOutOfRange
<1>7. CASE Refuse
  BY <1>7 DEF Refuse, CloseFd, Drop
<1>8. CASE AddToEpoll
  BY <1>8 DEF AddToEpoll, Drop
<1>9. CASE AddFails
  BY <1>9 DEF AddFails
<1>10. CASE PushAccepted
  BY <1>10 DEF PushAccepted, Channel!Offer, Drop
<1>11. CASE PushFails
  BY <1>11 DEF PushFails
<1>12. CASE LoopEnds
  BY <1>12 DEF LoopEnds
<1>13. CASE WorkersGone
  BY <1>13 DEF WorkersGone
<1>14. CASE DiscardQueue
  BY <1>14 DEF DiscardQueue, Channel!Discard
<1>15. CASE Signal
  BY <1>15 DEF Signal, Channel!Close
<1>16. CASE ReapCollect
  BY <1>16 DEF ReapCollect
<1>17. ASSUME NEW f \in Fd, Accept(f)
       PROVE  pc[io_lock[s]] # pc'[io_lock[s]]
  BY <1>17 DEF Accept
<1>18. ASSUME NEW e \in batch, HandleHup(e)
       PROVE  pc[io_lock[s]] # pc'[io_lock[s]]
  BY <1>18 DEF HandleHup, Handle
<1>19. ASSUME NEW e \in batch, HandleIoStopping(e)
       PROVE  pc[io_lock[s]] # pc'[io_lock[s]]
  BY <1>19 DEF HandleIoStopping, Handle
<1>20. ASSUME NEW e \in batch, HandleIoInactive(e)
       PROVE  pc[io_lock[s]] # pc'[io_lock[s]]
  BY <1>20 DEF HandleIoInactive
<1>21. ASSUME NEW e \in batch, HandleIo(e)
       PROVE  pc[io_lock[s]] # pc'[io_lock[s]]
  BY <1>21 DEF HandleIo, Handle
<1>22. ASSUME NEW t \in Thread, Uncount(t)
       PROVE  pc[io_lock[s]] # pc'[io_lock[s]]
  BY <1>22 DEF Uncount
<1>23. ASSUME NEW t \in Thread, CleanupDel(t)
       PROVE  pc[io_lock[s]] # pc'[io_lock[s]]
  BY <1>23 DEF CleanupDel
<1>24. ASSUME NEW t \in Thread, CleanupLock(t)
       PROVE  pc[io_lock[s]] # pc'[io_lock[s]]
  BY <1>24 DEF CleanupLock
<1>25. ASSUME NEW t \in Thread, CleanupReset(t)
       PROVE  pc[io_lock[s]] # pc'[io_lock[s]]
  <2>1. CASE s = job[t].fd
    <3>1. io_lock[s] = t
      BY <1>25, <2>1 DEF CleanupReset
    <3> QED
      BY <1>25, <3>1 DEF CleanupReset
  <2>2. CASE s # job[t].fd
    BY <1>25, <2>2 DEF CleanupReset
  <2> QED
    BY <2>1, <2>2
<1>26. ASSUME NEW t \in Thread, CleanupClose(t)
       PROVE  pc[io_lock[s]] # pc'[io_lock[s]]
  BY <1>26 DEF CleanupClose, CloseFd
<1>27. ASSUME NEW t \in Thread, CleanupUnlock(t)
       PROVE  pc[io_lock[s]] # pc'[io_lock[s]]
  BY <1>27 DEF CleanupUnlock, CleanupEnd, Drop
<1>28. ASSUME NEW w \in Worker, PopJob(w)
       PROVE  pc[io_lock[s]] # pc'[io_lock[s]]
  BY <1>28 DEF PopJob, Channel!Take
<1>29. ASSUME NEW w \in Worker, WorkerExits(w)
       PROVE  pc[io_lock[s]] # pc'[io_lock[s]]
  BY <1>29 DEF WorkerExits
<1>30. ASSUME NEW w \in Worker, CheckActive(w)
       PROVE  pc[io_lock[s]] # pc'[io_lock[s]]
  BY <1>30 DEF CheckActive
<1>31. ASSUME NEW w \in Worker, CheckGeneration(w)
       PROVE  pc[io_lock[s]] # pc'[io_lock[s]]
  BY <1>31 DEF CheckGeneration
<1>32. ASSUME NEW w \in Worker, LockSlot(w)
       PROVE  pc[io_lock[s]] # pc'[io_lock[s]]
  BY <1>32 DEF LockSlot
<1>33. ASSUME NEW w \in Worker, Recheck(w)
       PROVE  pc[io_lock[s]] # pc'[io_lock[s]]
  BY <1>33 DEF Recheck, IsValid
<1>34. ASSUME NEW w \in Worker, Dispatch(w)
       PROVE  pc[io_lock[s]] # pc'[io_lock[s]]
  BY <1>34 DEF Dispatch
<1>35. ASSUME NEW w \in Worker, DispatchUpgrade(w)
       PROVE  pc[io_lock[s]] # pc'[io_lock[s]]
  BY <1>35 DEF DispatchUpgrade
<1>36. ASSUME NEW w \in Worker, DispatchFrames(w)
       PROVE  pc[io_lock[s]] # pc'[io_lock[s]]
  BY <1>36 DEF DispatchFrames
<1>37. ASSUME NEW w \in Worker, Rearm(w)
       PROVE  pc[io_lock[s]] # pc'[io_lock[s]]
  BY <1>37 DEF Rearm
<1>38. ASSUME NEW w \in Worker, UnlockSlot(w)
       PROVE  pc[io_lock[s]] # pc'[io_lock[s]]
  BY <1>38 DEF UnlockSlot
<1>39. ASSUME NEW w \in Worker, MarkIdle(w)
       PROVE  pc[io_lock[s]] # pc'[io_lock[s]]
  BY <1>39 DEF MarkIdle, Drop
<1>40. ASSUME NEW f \in Fd, ReapClose(f)
       PROVE  pc[io_lock[s]] # pc'[io_lock[s]]
  BY <1>40 DEF ReapClose, CloseFd
<1>41. ASSUME NEW f \in Fd, ReapRemove(f)
       PROVE  pc[io_lock[s]] # pc'[io_lock[s]]
  BY <1>41 DEF ReapRemove
<1>42. CASE UNCHANGED vars
  BY <1>42 DEF vars
<1> QED
  BY <1>1, <1>2, <1>3, <1>4, <1>5, <1>6, <1>7, <1>8, <1>9, <1>10, <1>11, <1>12,
     <1>13, <1>14, <1>15, <1>16, <1>17, <1>18, <1>19, <1>20, <1>21, <1>22, <1>23,
     <1>24, <1>25, <1>26, <1>27, <1>28, <1>29, <1>30, <1>31, <1>32, <1>33, <1>34,
     <1>35, <1>36, <1>37, <1>38, <1>39, <1>40, <1>41, <1>42
  DEF Next, MainStep, WorkerStep, ReaperStep, Cleanup, Thread

-----------------------------------------------------------------------------
(* What holds of the locks whatever the clients and the reaper do.         *)
Locks == TypeOK /\ LockHolders /\ ShuttingDown /\ DispatchCurrent

LEMMA InitLocks == Init => Locks
<1> SUFFICES ASSUME Init PROVE Locks
  OBVIOUS
<1>1. ThreadsOK
  BY ThreadAssumption, NoJobAssumption
  DEF Init, ThreadsOK, Thread, MainPoint, WorkerPoint, Resting, Unslotted
<1>2. TypeOK
  BY <1>1, ThreadAssumption, BoundAssumption DEF Init, Channel!Init, TypeOK, Watch,
     Slot, NoConn
<1>3. LockHolders /\ ShuttingDown /\ DispatchCurrent
  BY ThreadAssumption
  DEF Init, LockHolders, ShuttingDown, Ending, DispatchCurrent, Thread
<1> QED
  BY <1>2, <1>3 DEF Locks

LEMMA LocksStep == Locks /\ [Next]_vars => Locks'
BY TypeStep, LockStep, ShutdownStep, DispatchStep DEF Locks

LEMMA LocksAlways == Spec => []Locks
BY InitLocks, LocksStep, PTL DEF Spec

(* Every variable keeps its type; a thread has a job exactly while it      *)
(* handles a descriptor, and only numbers with a slot are ever watched.    *)
THEOREM TypeCorrect == Spec => []TypeOK
<1>1. Locks => TypeOK
  BY DEF Locks
<1> QED
  BY <1>1, LocksAlways, PTL

(* io_lock of a slot is held by exactly the thread that is between lock    *)
(* and unlock, and a worker dispatches only an event of the lifetime the   *)
(* slot is in, under that lock, even while the reaper closes descriptors.  *)
THEOREM LockingCorrect == Spec => []Locking
<1>1. Locks => Locking
  BY DEF Locks, Locking
<1> QED
  BY <1>1, LocksAlways, PTL

(* Nobody but the holder of io_lock changes the generation, the active     *)
(* flag or the session of a slot.                                          *)
THEOREM SlotProtectedCorrect == Spec => SlotProtected
<1>1. Locks /\ [Next]_vars => [HolderChanges]_vars
  BY ProtectedStep DEF Locks
<1> QED
  BY <1>1, LocksAlways, PTL DEF Spec, SlotProtected

-------------------------------------------------------------------------------
(***************************************************************************)
(* The event of a descriptor is a token, and what the server keeps of a    *)
(* connection is true of it: proofs of Tokens and OwnSlot for a server     *)
(* whose maintenance thread closes nothing (ConnLifecycle_reaped.cfg shows *)
(* that the reaper breaks both).                                           *)
(***************************************************************************)

(* What is on its way somewhere is for a connection, and only a descriptor *)
(* with a connection behind it is watched.                                 *)
Real ==
  /\ \A e \in batch : e.conn # NoConn
  /\ \A i \in DOMAIN queue : queue[i].conn # NoConn
  /\ \A t \in Thread : job[t] # NoJob => job[t].conn # NoConn
  /\ \A f \in Fd : sock[f] = NoConn => watch[f] = "none"

(* The slot of a watched descriptor is active, and the event of one finds  *)
(* it as it was: so no event is dropped as stale, which would strand its   *)
(* connection.  A cleanup has taken its descriptor out of epoll.           *)
Checking == {"active?", "generation?", "lock", "recheck", "dispatch"}
Valid ==
  /\ \A f \in Slot : watch[f] # "none" => active[f]
  /\ \A e \in batch : active[e.fd]
  /\ \A i \in DOMAIN queue : IsValid(queue[i])
  /\ \A w \in Worker : pc[w] \in Checking => IsValid(job[w])
  /\ pc[Main] = "push" => IsValid(job[Main])
  /\ pc[Main] = "add" => active[job[Main].fd]
  /\ \A t \in Thread : pc[t] \in {"lockslot", "reset", "close"} => watch[job[t].fd] = "none"

(* Nobody works with the number of a connection that main has just         *)
(* accepted; a worker may be about to leave the last one.                  *)
New == {"count", "activate", "refused", "add"}
User(t, f) == job[t] # NoJob /\ job[t].fd = f /\ pc[t] \notin {"release", "idle"}
Fresh == pc[Main] \in New => \A w \in Worker : ~User(w, job[Main].fd)

NoReaper == victims = {} /\ reaping = {}

(* OneToken and NotStranded, said of the tokens one by one.                *)
Holds(t) == job[t] # NoJob /\ pc[t] \notin {"unlock", "release", "idle"}

Unique ==
  /\ \A d, e \in batch : d.fd = e.fd => d = e
  /\ \A i, j \in DOMAIN queue : queue[i].fd = queue[j].fd => i = j
  /\ \A s, t \in Thread : Holds(s) /\ Holds(t) /\ job[s].fd = job[t].fd => s = t

Apart ==
  /\ \A e \in batch, i \in DOMAIN queue : e.fd # queue[i].fd
  /\ \A e \in batch, t \in Thread : Holds(t) => e.fd # job[t].fd
  /\ \A i \in DOMAIN queue, t \in Thread : Holds(t) => queue[i].fd # job[t].fd

Unarmed ==
  /\ \A e \in batch : watch[e.fd] # "armed"
  /\ \A i \in DOMAIN queue : watch[queue[i].fd] # "armed"
  /\ \A t \in Thread : Holds(t) => watch[job[t].fd] # "armed"

Kept ==
  \A f \in Slot :
    sock[f] # NoConn /\ watch[f] = "silent" =>
      \/ \E e \in batch : e.fd = f
      \/ \E i \in DOMAIN queue : queue[i].fd = f
      \/ \E t \in Thread : Holds(t) /\ job[t].fd = f

TokenInv ==
  /\ Locks /\ NoReaper
  /\ Real /\ Valid /\ Fresh /\ Unique /\ Apart /\ Unarmed /\ Kept /\ NeverRecycled

(* What the queue is after a push, a pop and the end of the server. *)
LEMMA Offered ==
  ASSUME TypeOK, PushAccepted
  PROVE  \E n :
           /\ n \notin DOMAIN queue /\ DOMAIN queue' = DOMAIN queue \cup {n}
           /\ \A i \in DOMAIN queue : queue'[i] = queue[i]
           /\ queue'[n] = job[Main]
<1> DEFINE n == Len(queue) + 1
<1>1. job[Main] \in Job /\ queue \in Seq(Job)
  BY JobTyped DEF TypeOK, PushAccepted, Resting, Thread
<1>2. queue' = Append(queue, job[Main])
  BY DEF PushAccepted, Channel!Offer
<1>3. /\ n \notin DOMAIN queue /\ DOMAIN queue' = DOMAIN queue \cup {n}
      /\ \A i \in DOMAIN queue : queue'[i] = queue[i]
      /\ queue'[n] = job[Main]
  BY <1>1, <1>2
<1> QED
  BY <1>3

LEMMA Taken ==
  ASSUME TypeOK, NEW w \in Worker, PopJob(w)
  PROVE  /\ 1 \in DOMAIN queue /\ job' = [job EXCEPT ![w] = queue[1]] /\ queue[1] \in Job
         /\ \A i \in DOMAIN queue' : /\ i \in Int /\ i + 1 \in DOMAIN queue /\ i + 1 # 1
                                     /\ queue'[i] = queue[i + 1]
         /\ \A i \in DOMAIN queue \ {1} : \E j \in DOMAIN queue' : queue'[j] = queue[i]
<1>1. queue \in Seq(Job) /\ queue # <<>> /\ queue' = Tail(queue)
  BY DEF TypeOK, PopJob, Channel!Take
<1>2. Len(queue) \in Nat \ {0} /\ DOMAIN queue = 1 .. Len(queue) /\ Head(queue) = queue[1]
      /\ queue[1] \in Job
  BY <1>1
<1>3. /\ DOMAIN queue' = 1 .. Len(queue) - 1
      /\ \A i \in 1 .. Len(queue) - 1 : queue'[i] = queue[i + 1]
  BY <1>1, <1>2
<1>4. ASSUME NEW i \in DOMAIN queue \ {1}
      PROVE  i - 1 \in DOMAIN queue' /\ queue'[i - 1] = queue[i]
  BY <1>2, <1>3, <1>4
<1>5. \A i \in DOMAIN queue' : /\ i \in Int /\ i + 1 \in DOMAIN queue /\ i + 1 # 1
                               /\ queue'[i] = queue[i + 1]
  BY <1>2, <1>3
<1> QED
  BY <1>2, <1>4, <1>5 DEF PopJob

LEMMA Discarded ==
  ASSUME ShuttingDown, DiscardQueue
  PROVE  /\ queue' = <<>> /\ DOMAIN queue' = {} /\ batch = {} /\ batch' = {}
         /\ watch' = watch /\ \A f \in Fd : watch[f] = "none"
         /\ \A w \in Worker : pc[w] = "exited"
         /\ pc' = [pc EXCEPT ![Main] = "stopped"]
BY DEF ShuttingDown, Ending, DiscardQueue, Channel!Discard, loopVars, Goto

LEMMA BatchTyped ==
  ASSUME TypeOK, NEW e \in batch
  PROVE  e.fd \in Slot /\ e.conn \in 0 .. MaxConn
BY DEF TypeOK

(* Who holds a token holds the only one. *)
LEMMA Sole ==
  ASSUME TokenInv, NEW t \in Thread, pc[t] \notin Resting, pc[t] \notin {"unlock", "release", "idle"}
  PROVE  /\ \A e \in batch : e.fd # job[t].fd
         /\ \A i \in DOMAIN queue : queue[i].fd # job[t].fd
         /\ \A s \in Thread \ {t} : Holds(s) => job[s].fd # job[t].fd
         /\ watch[job[t].fd] # "armed"
BY DEF TokenInv, Locks, TypeOK, ThreadsOK, Holds, Unique, Apart, Unarmed

LEMMA RealStep ==
  ASSUME ~Reaping, TokenInv, [Next]_vars
  PROVE  Real'
<1>0. /\ TypeOK /\ ThreadsOK
      /\ sock \in [Fd -> 0 .. MaxConn] /\ watch \in [Fd -> Watch] /\ accepted \in Nat
      /\ active \in [Slot -> BOOLEAN] /\ generation \in [Slot -> 0 .. GenModulus - 1]
      /\ batch \subseteq [fd : Slot, conn : 0 .. MaxConn, hup : BOOLEAN]
      /\ \A i \in DOMAIN queue : queue[i].fd \in Slot
      /\ LockHolders /\ ShuttingDown /\ DispatchCurrent /\ NoReaper
      /\ Real /\ NeverRecycled
  BY DEF TokenInv, Locks, TypeOK
<1> USE ThreadAssumption, BoundAssumption, NoJobAssumption, <1>0, JobTyped
    DEF ThreadsOK, NoReaper, Goto, Drop, CleanupPoint, MainPoint, WorkerPoint,
        Resting, Unslotted,
        Thread, kernelVars, slotVars, flagVars, loopVars, wsVars, threadVars,
        Real, NoConn
<1>1. CASE EpollWait
  BY <1>1 DEF EpollWait, Report, Armed
<1>2. CASE TakeListener
  BY <1>2 DEF TakeListener
<1>3. CASE AcceptEnds
  BY <1>3 DEF AcceptEnds
<1>4. CASE CountConnection
  BY <1>4 DEF CountConnection
<1>5. CASE Activate
  BY <1>5 DEF Activate
<1>6. CASE ActivateOutOfRange
  BY <1>6 DEF ActivateOutOfRange
<1>7. CASE Refuse
  BY <1>7 DEF Refuse, CloseFd, Drop
<1>8. CASE AddToEpoll
  BY <1>8 DEF AddToEpoll, Drop
<1>9. CASE AddFails
  BY <1>9 DEF AddFails
<1>10. CASE PushAccepted
  <2>1. PICK n : /\ n \notin DOMAIN queue /\ DOMAIN queue' = DOMAIN queue \cup {n}
                 /\ \A i \in DOMAIN queue : queue'[i] = queue[i]
                 /\ queue'[n] = job[Main]
    BY <1>10, Offered
  <2> QED
    BY <1>10, <2>1 DEF PushAccepted, Drop
<1>11. CASE PushFails
  BY <1>11 DEF PushFails
<1>12. CASE LoopEnds
  BY <1>12 DEF LoopEnds
<1>13. CASE WorkersGone
  BY <1>13 DEF WorkersGone
<1>14. CASE DiscardQueue
  BY <1>14, Discarded DEF DiscardQueue
<1>15. CASE Signal
  BY <1>15 DEF Signal, Channel!Close
<1>16. CASE ReapCollect
  BY <1>16 DEF ReapCollect
<1>17. ASSUME NEW f \in Fd, Accept(f)
       PROVE  Real'
  BY <1>17 DEF Accept
<1>18. ASSUME NEW e \in batch, HandleHup(e)
       PROVE  Real'
  BY <1>18 DEF HandleHup, Handle
<1>19. ASSUME NEW e \in batch, HandleIoStopping(e)
       PROVE  Real'
  BY <1>19 DEF HandleIoStopping, Handle
<1>20. ASSUME NEW e \in batch, HandleIoInactive(e)
       PROVE  Real'
  BY <1>20 DEF HandleIoInactive
<1>21. ASSUME NEW e \in batch, HandleIo(e)
       PROVE  Real'
  BY <1>21 DEF HandleIo, Handle
<1>22. ASSUME NEW t \in Thread, Uncount(t)
       PROVE  Real'
  BY <1>22 DEF Uncount
<1>23. ASSUME NEW t \in Thread, CleanupDel(t)
       PROVE  Real'
  BY <1>23 DEF CleanupDel
<1>24. ASSUME NEW t \in Thread, CleanupLock(t)
       PROVE  Real'
  BY <1>24 DEF CleanupLock
<1>25. ASSUME NEW t \in Thread, CleanupReset(t)
       PROVE  Real'
  BY <1>25 DEF CleanupReset
<1>26. ASSUME NEW t \in Thread, CleanupClose(t)
       PROVE  Real'
  BY <1>26 DEF CleanupClose, CloseFd
<1>27. ASSUME NEW t \in Thread, CleanupUnlock(t)
       PROVE  Real'
  BY <1>27 DEF CleanupUnlock, CleanupEnd, Drop
<1>28. ASSUME NEW w \in Worker, PopJob(w)
       PROVE  Real'
  <2>1. /\ 1 \in DOMAIN queue /\ job' = [job EXCEPT ![w] = queue[1]] /\ queue[1] \in Job
        /\ \A i \in DOMAIN queue' : /\ i \in Int /\ i + 1 \in DOMAIN queue /\ i + 1 # 1
                                    /\ queue'[i] = queue[i + 1]
    BY <1>28, Taken
  <2> QED
    BY <1>28, <2>1 DEF PopJob
<1>29. ASSUME NEW w \in Worker, WorkerExits(w)
       PROVE  Real'
  BY <1>29 DEF WorkerExits
<1>30. ASSUME NEW w \in Worker, CheckActive(w)
       PROVE  Real'
  BY <1>30 DEF CheckActive
<1>31. ASSUME NEW w \in Worker, CheckGeneration(w)
       PROVE  Real'
  BY <1>31 DEF CheckGeneration
<1>32. ASSUME NEW w \in Worker, LockSlot(w)
       PROVE  Real'
  BY <1>32 DEF LockSlot
<1>33. ASSUME NEW w \in Worker, Recheck(w)
       PROVE  Real'
  BY <1>33 DEF Recheck, IsValid
<1>34. ASSUME NEW w \in Worker, Dispatch(w)
       PROVE  Real'
  BY <1>34 DEF Dispatch
<1>35. ASSUME NEW w \in Worker, DispatchUpgrade(w)
       PROVE  Real'
  BY <1>35 DEF DispatchUpgrade
<1>36. ASSUME NEW w \in Worker, DispatchFrames(w)
       PROVE  Real'
  BY <1>36 DEF DispatchFrames
<1>37. ASSUME NEW w \in Worker, Rearm(w)
       PROVE  Real'
  BY <1>37 DEF Rearm
<1>38. ASSUME NEW w \in Worker, UnlockSlot(w)
       PROVE  Real'
  BY <1>38 DEF UnlockSlot
<1>39. ASSUME NEW w \in Worker, MarkIdle(w)
       PROVE  Real'
  BY <1>39 DEF MarkIdle, Drop
<1>40. ASSUME NEW f \in Fd, ReapClose(f)
       PROVE  Real'
  BY <1>40 DEF ReapClose, CloseFd
<1>41. ASSUME NEW f \in Fd, ReapRemove(f)
       PROVE  Real'
  BY <1>41 DEF ReapRemove
<1>42. CASE UNCHANGED vars
  BY <1>42 DEF vars
<1> QED
  BY <1>1, <1>2, <1>3, <1>4, <1>5, <1>6, <1>7, <1>8, <1>9, <1>10, <1>11, <1>12,
     <1>13, <1>14, <1>15, <1>16, <1>17, <1>18, <1>19, <1>20, <1>21, <1>22, <1>23,
     <1>24, <1>25, <1>26, <1>27, <1>28, <1>29, <1>30, <1>31, <1>32, <1>33, <1>34,
     <1>35, <1>36, <1>37, <1>38, <1>39, <1>40, <1>41, <1>42
  DEF Next, MainStep, WorkerStep, ReaperStep, Cleanup, Thread

LEMMA FreshStep ==
  ASSUME ~Reaping, TokenInv, [Next]_vars
  PROVE  Fresh'
<1>0. /\ TypeOK /\ ThreadsOK
      /\ sock \in [Fd -> 0 .. MaxConn] /\ watch \in [Fd -> Watch] /\ accepted \in Nat
      /\ active \in [Slot -> BOOLEAN] /\ generation \in [Slot -> 0 .. GenModulus - 1]
      /\ batch \subseteq [fd : Slot, conn : 0 .. MaxConn, hup : BOOLEAN]
      /\ \A i \in DOMAIN queue : queue[i].fd \in Slot
      /\ LockHolders /\ ShuttingDown /\ DispatchCurrent /\ NoReaper
      /\ Fresh /\ Real /\ NeverRecycled /\ Apart
  BY DEF TokenInv, Locks, TypeOK
<1> USE ThreadAssumption, BoundAssumption, NoJobAssumption, <1>0, JobTyped
    DEF ThreadsOK, NoReaper, Goto, Drop, CleanupPoint, MainPoint, WorkerPoint,
        Resting, Unslotted,
        Thread, kernelVars, slotVars, flagVars, loopVars, wsVars, threadVars,
        Fresh, New, User
<1>1. CASE EpollWait
  BY <1>1 DEF EpollWait, Report, Armed
<1>2. CASE TakeListener
  BY <1>2 DEF TakeListener
<1>3. CASE AcceptEnds
  BY <1>3 DEF AcceptEnds
<1>4. CASE CountConnection
  BY <1>4 DEF CountConnection
<1>5. CASE Activate
  BY <1>5 DEF Activate
<1>6. CASE ActivateOutOfRange
  BY <1>6 DEF ActivateOutOfRange
<1>7. CASE Refuse
  BY <1>7 DEF Refuse, CloseFd, Drop
<1>8. CASE AddToEpoll
  BY <1>8 DEF AddToEpoll, Drop
<1>9. CASE AddFails
  BY <1>9 DEF AddFails
<1>10. CASE PushAccepted
  <2>1. PICK n : /\ n \notin DOMAIN queue /\ DOMAIN queue' = DOMAIN queue \cup {n}
                 /\ \A i \in DOMAIN queue : queue'[i] = queue[i]
                 /\ queue'[n] = job[Main]
    BY <1>10, Offered
  <2> QED
    BY <1>10, <2>1 DEF PushAccepted, Drop
<1>11. CASE PushFails
  BY <1>11 DEF PushFails
<1>12. CASE LoopEnds
  BY <1>12 DEF LoopEnds
<1>13. CASE WorkersGone
  BY <1>13 DEF WorkersGone
<1>14. CASE DiscardQueue
  BY <1>14, Discarded DEF DiscardQueue
<1>15. CASE Signal
  BY <1>15 DEF Signal, Channel!Close
<1>16. CASE ReapCollect
  BY <1>16 DEF ReapCollect
<1>17. ASSUME NEW f \in Fd, Accept(f)
       PROVE  Fresh'
  <2>1. \A w \in Worker : ~User(w, f)
    BY <1>17 DEF Accept, NeverRecycled, Real, NoConn
  <2> QED
    BY <1>17, <2>1 DEF Accept
<1>18. ASSUME NEW e \in batch, HandleHup(e)
       PROVE  Fresh'
  BY <1>18 DEF HandleHup, Handle
<1>19. ASSUME NEW e \in batch, HandleIoStopping(e)
       PROVE  Fresh'
  BY <1>19 DEF HandleIoStopping, Handle
<1>20. ASSUME NEW e \in batch, HandleIoInactive(e)
       PROVE  Fresh'
  BY <1>20 DEF HandleIoInactive
<1>21. ASSUME NEW e \in batch, HandleIo(e)
       PROVE  Fresh'
  BY <1>21 DEF HandleIo, Handle
<1>22. ASSUME NEW t \in Thread, Uncount(t)
       PROVE  Fresh'
  BY <1>22 DEF Uncount
<1>23. ASSUME NEW t \in Thread, CleanupDel(t)
       PROVE  Fresh'
  BY <1>23 DEF CleanupDel
<1>24. ASSUME NEW t \in Thread, CleanupLock(t)
       PROVE  Fresh'
  BY <1>24 DEF CleanupLock
<1>25. ASSUME NEW t \in Thread, CleanupReset(t)
       PROVE  Fresh'
  BY <1>25 DEF CleanupReset
<1>26. ASSUME NEW t \in Thread, CleanupClose(t)
       PROVE  Fresh'
  BY <1>26 DEF CleanupClose, CloseFd
<1>27. ASSUME NEW t \in Thread, CleanupUnlock(t)
       PROVE  Fresh'
  BY <1>27 DEF CleanupUnlock, CleanupEnd, Drop
<1>28. ASSUME NEW w \in Worker, PopJob(w)
       PROVE  Fresh'
  <2>1. /\ 1 \in DOMAIN queue /\ job' = [job EXCEPT ![w] = queue[1]] /\ queue[1] \in Job
        /\ \A i \in DOMAIN queue' : /\ i \in Int /\ i + 1 \in DOMAIN queue /\ i + 1 # 1
                                    /\ queue'[i] = queue[i + 1]
    BY <1>28, Taken
  <2>2. pc[Main] \in New => queue[1].fd # job[Main].fd
    BY <2>1 DEF Apart, Holds
  <2> QED
    BY <1>28, <2>1, <2>2 DEF PopJob
<1>29. ASSUME NEW w \in Worker, WorkerExits(w)
       PROVE  Fresh'
  BY <1>29 DEF WorkerExits
<1>30. ASSUME NEW w \in Worker, CheckActive(w)
       PROVE  Fresh'
  BY <1>30 DEF CheckActive
<1>31. ASSUME NEW w \in Worker, CheckGeneration(w)
       PROVE  Fresh'
  BY <1>31 DEF CheckGeneration
<1>32. ASSUME NEW w \in Worker, LockSlot(w)
       PROVE  Fresh'
  BY <1>32 DEF LockSlot
<1>33. ASSUME NEW w \in Worker, Recheck(w)
       PROVE  Fresh'
  BY <1>33 DEF Recheck, IsValid
<1>34. ASSUME NEW w \in Worker, Dispatch(w)
       PROVE  Fresh'
  BY <1>34 DEF Dispatch
<1>35. ASSUME NEW w \in Worker, DispatchUpgrade(w)
       PROVE  Fresh'
  BY <1>35 DEF DispatchUpgrade
<1>36. ASSUME NEW w \in Worker, DispatchFrames(w)
       PROVE  Fresh'
  BY <1>36 DEF DispatchFrames
<1>37. ASSUME NEW w \in Worker, Rearm(w)
       PROVE  Fresh'
  BY <1>37 DEF Rearm
<1>38. ASSUME NEW w \in Worker, UnlockSlot(w)
       PROVE  Fresh'
  BY <1>38 DEF UnlockSlot
<1>39. ASSUME NEW w \in Worker, MarkIdle(w)
       PROVE  Fresh'
  BY <1>39 DEF MarkIdle, Drop
<1>40. ASSUME NEW f \in Fd, ReapClose(f)
       PROVE  Fresh'
  BY <1>40 DEF ReapClose, CloseFd
<1>41. ASSUME NEW f \in Fd, ReapRemove(f)
       PROVE  Fresh'
  BY <1>41 DEF ReapRemove
<1>42. CASE UNCHANGED vars
  BY <1>42 DEF vars
<1> QED
  BY <1>1, <1>2, <1>3, <1>4, <1>5, <1>6, <1>7, <1>8, <1>9, <1>10, <1>11, <1>12,
     <1>13, <1>14, <1>15, <1>16, <1>17, <1>18, <1>19, <1>20, <1>21, <1>22, <1>23,
     <1>24, <1>25, <1>26, <1>27, <1>28, <1>29, <1>30, <1>31, <1>32, <1>33, <1>34,
     <1>35, <1>36, <1>37, <1>38, <1>39, <1>40, <1>41, <1>42
  DEF Next, MainStep, WorkerStep, ReaperStep, Cleanup, Thread

LEMMA ValidStep ==
  ASSUME ~Reaping, TokenInv, [Next]_vars
  PROVE  Valid'
<1>0. /\ TypeOK /\ ThreadsOK
      /\ sock \in [Fd -> 0 .. MaxConn] /\ watch \in [Fd -> Watch] /\ accepted \in Nat
      /\ active \in [Slot -> BOOLEAN] /\ generation \in [Slot -> 0 .. GenModulus - 1]
      /\ batch \subseteq [fd : Slot, conn : 0 .. MaxConn, hup : BOOLEAN]
      /\ \A i \in DOMAIN queue : queue[i].fd \in Slot
      /\ LockHolders /\ ShuttingDown /\ DispatchCurrent /\ NoReaper
      /\ Valid /\ Real
  BY DEF TokenInv, Locks, TypeOK
<1> USE ThreadAssumption, BoundAssumption, NoJobAssumption, <1>0, JobTyped
    DEF ThreadsOK, NoReaper, Goto, Drop, CleanupPoint, MainPoint, WorkerPoint,
        Resting, Unslotted,
        Thread, kernelVars, slotVars, flagVars, loopVars, wsVars, threadVars,
        Valid, Checking, IsValid
<1>1. CASE EpollWait
  <2>1. PICK S \in SUBSET Armed, l \in {"quiet", "ready"} :
        Report(S, l) /\ watch' = [f \in Fd |-> IF f \in S THEN "silent" ELSE watch[f]]
    BY <1>1 DEF EpollWait
  <2>2. \A e \in batch' : e.fd \in S
    BY <2>1 DEF Report
  <2>3. \A f \in Slot : watch'[f] # "none" => watch[f] # "none"
    BY <2>1 DEF Armed, Slot
  <2>4. \A e \in batch' : active[e.fd]
    <3>1. \A f \in S : f \in Slot /\ watch[f] = "armed"
      BY <2>1 DEF Armed, Slot, TypeOK
    <3> QED
      BY <2>2, <3>1
  <2>5. \A t \in Thread : pc[t] \in {"lockslot", "reset", "close"} => watch'[job[t].fd] = "none"
    BY <2>1 DEF Armed
  <2> QED
    BY <2>1, <2>3, <2>4, <2>5 DEF Report
<1>2. CASE TakeListener
  BY <1>2 DEF TakeListener
<1>3. CASE AcceptEnds
  BY <1>3 DEF AcceptEnds
<1>4. CASE CountConnection
  BY <1>4 DEF CountConnection
<1>5. CASE Activate
  <2> DEFINE f == job[Main].fd
  <2>1. pc[Main] = "activate" /\ f \in Slot
    BY <1>5 DEF Activate
  <2>2. /\ \A e \in batch : e.fd # f
        /\ \A i \in DOMAIN queue : queue[i].fd # f
        /\ \A s \in Thread \ {Main} : Holds(s) => job[s].fd # f
    BY <2>1, Sole
  <2>3. /\ active'[f] /\ \A g \in Slot : active[g] => active'[g]
        /\ \A g \in Slot \ {f} : active'[g] = active[g] /\ generation'[g] = generation[g]
    <3>1. /\ active' = [active EXCEPT ![f] = TRUE]
          /\ generation' = [generation EXCEPT ![f] = (@ + 1) % GenModulus]
      BY <1>5 DEF Activate
    <3>2. active \in [Slot -> BOOLEAN] /\ DOMAIN generation = Slot
      BY DEF TypeOK
    <3> HIDE DEF f
    <3> QED
      BY <2>1, <3>1, <3>2
  <2>4. /\ \A t \in Worker : job'[t] = job[t] /\ pc'[t] = pc[t]
        /\ job'[Main].fd = f /\ pc'[Main] \in {"refused", "add"}
    BY <1>5 DEF Activate
  <2>5. \A w \in Worker : pc[w] \in Checking => job[w].fd \in Slot \ {f}
    BY <2>2 DEF Holds
  <2> QED
    BY <1>5, <2>2, <2>3, <2>4, <2>5 DEF Activate
<1>6. CASE ActivateOutOfRange
  BY <1>6 DEF ActivateOutOfRange
<1>7. CASE Refuse
  BY <1>7 DEF Refuse, CloseFd, Drop
<1>8. CASE AddToEpoll
  <2>1. /\ pc[Main] = "add" /\ job[Main].fd \in Slot /\ active[job[Main].fd]
        /\ \A s \in Thread \ {Main} : Holds(s) => job[s].fd # job[Main].fd
    BY <1>8, Sole DEF AddToEpoll
  <2>2. \A t \in Worker :
          pc[t] \in {"lockslot", "reset", "close"} => watch'[job[t].fd] = watch[job[t].fd]
    BY <1>8, <2>1 DEF AddToEpoll, Holds
  <2> QED
    BY <1>8, <2>1, <2>2 DEF AddToEpoll, Slot
<1>9. CASE AddFails
  BY <1>9 DEF AddFails
<1>10. CASE PushAccepted
  <2>1. PICK n : /\ n \notin DOMAIN queue /\ DOMAIN queue' = DOMAIN queue \cup {n}
                 /\ \A i \in DOMAIN queue : queue'[i] = queue[i]
                 /\ queue'[n] = job[Main]
    BY <1>10, Offered
  <2> QED
    BY <1>10, <2>1 DEF PushAccepted, Drop
<1>11. CASE PushFails
  BY <1>11 DEF PushFails
<1>12. CASE LoopEnds
  BY <1>12 DEF LoopEnds, Slot
<1>13. CASE WorkersGone
  BY <1>13 DEF WorkersGone
<1>14. CASE DiscardQueue
  <2>1. /\ DOMAIN queue' = {} /\ batch' = {}
        /\ \A f \in Slot : watch'[f] = "none"
        /\ \A w \in Worker : pc'[w] = "exited"
        /\ pc'[Main] = "stopped"
    BY <1>14, Discarded DEF Slot
  <2>2. \A t \in Thread : pc'[t] \in {"exited", "stopped"}
    BY <2>1
  <2> QED
    BY <2>1, <2>2
<1>15. CASE Signal
  BY <1>15 DEF Signal, Channel!Close
<1>16. CASE ReapCollect
  BY <1>16 DEF ReapCollect
<1>17. ASSUME NEW f \in Fd, Accept(f)
       PROVE  Valid'
  BY <1>17 DEF Accept
<1>18. ASSUME NEW e \in batch, HandleHup(e)
       PROVE  Valid'
  BY <1>18 DEF HandleHup, Handle
<1>19. ASSUME NEW e \in batch, HandleIoStopping(e)
       PROVE  Valid'
  BY <1>19 DEF HandleIoStopping, Handle
<1>20. ASSUME NEW e \in batch, HandleIoInactive(e)
       PROVE  Valid'
  BY <1>20 DEF HandleIoInactive
<1>21. ASSUME NEW e \in batch, HandleIo(e)
       PROVE  Valid'
  BY <1>21 DEF HandleIo, Handle
<1>22. ASSUME NEW t \in Thread, Uncount(t)
       PROVE  Valid'
  BY <1>22 DEF Uncount
<1>23. ASSUME NEW t \in Thread, CleanupDel(t)
       PROVE  Valid'
  BY <1>23 DEF CleanupDel
<1>24. ASSUME NEW t \in Thread, CleanupLock(t)
       PROVE  Valid'
  BY <1>24 DEF CleanupLock
<1>25. ASSUME NEW t \in Thread, CleanupReset(t)
       PROVE  Valid'
  <2> DEFINE f == job[t].fd
  <2>1. pc[t] = "reset" /\ f \in Slot /\ watch[f] = "none"
    BY <1>25 DEF CleanupReset
  <2>2. /\ \A e \in batch : e.fd # f
        /\ \A i \in DOMAIN queue : queue[i].fd # f
        /\ \A s \in Thread \ {t} : Holds(s) => job[s].fd # f
    BY <2>1, Sole
  <2>3. \A g \in Slot \ {f} : active'[g] = active[g]
    BY <1>25, <2>1 DEF CleanupReset
  <2>4. pc'[t] = "close" /\ \A s \in Thread \ {t} : pc'[s] = pc[s]
    BY <1>25 DEF CleanupReset
  <2>5. \A w \in Worker \ {t} : pc[w] \in Checking => job[w].fd \in Slot \ {f}
    BY <2>2 DEF Holds
  <2>6. Main # t /\ pc[Main] \in {"push", "add"} => job[Main].fd \in Slot \ {f}
    BY <2>2 DEF Holds
  <2>7. \A e \in batch : e.fd \in Slot \ {f}
    BY <2>2, BatchTyped
  <2> QED
    BY <1>25, <2>1, <2>2, <2>3, <2>4, <2>5, <2>6, <2>7 DEF CleanupReset
<1>26. ASSUME NEW t \in Thread, CleanupClose(t)
       PROVE  Valid'
  BY <1>26 DEF CleanupClose, CloseFd
<1>27. ASSUME NEW t \in Thread, CleanupUnlock(t)
       PROVE  Valid'
  BY <1>27 DEF CleanupUnlock, CleanupEnd, Drop
<1>28. ASSUME NEW w \in Worker, PopJob(w)
       PROVE  Valid'
  <2>1. /\ 1 \in DOMAIN queue /\ job' = [job EXCEPT ![w] = queue[1]] /\ queue[1] \in Job
        /\ \A i \in DOMAIN queue' : /\ i \in Int /\ i + 1 \in DOMAIN queue /\ i + 1 # 1
                                    /\ queue'[i] = queue[i + 1]
    BY <1>28, Taken
  <2> QED
    BY <1>28, <2>1 DEF PopJob
<1>29. ASSUME NEW w \in Worker, WorkerExits(w)
       PROVE  Valid'
  BY <1>29 DEF WorkerExits
<1>30. ASSUME NEW w \in Worker, CheckActive(w)
       PROVE  Valid'
  BY <1>30 DEF CheckActive
<1>31. ASSUME NEW w \in Worker, CheckGeneration(w)
       PROVE  Valid'
  BY <1>31 DEF CheckGeneration
<1>32. ASSUME NEW w \in Worker, LockSlot(w)
       PROVE  Valid'
  BY <1>32 DEF LockSlot
<1>33. ASSUME NEW w \in Worker, Recheck(w)
       PROVE  Valid'
  BY <1>33 DEF Recheck, IsValid
<1>34. ASSUME NEW w \in Worker, Dispatch(w)
       PROVE  Valid'
  BY <1>34 DEF Dispatch
<1>35. ASSUME NEW w \in Worker, DispatchUpgrade(w)
       PROVE  Valid'
  BY <1>35 DEF DispatchUpgrade
<1>36. ASSUME NEW w \in Worker, DispatchFrames(w)
       PROVE  Valid'
  BY <1>36 DEF DispatchFrames
<1>37. ASSUME NEW w \in Worker, Rearm(w)
       PROVE  Valid'
  BY <1>37 DEF Rearm
<1>38. ASSUME NEW w \in Worker, UnlockSlot(w)
       PROVE  Valid'
  BY <1>38 DEF UnlockSlot
<1>39. ASSUME NEW w \in Worker, MarkIdle(w)
       PROVE  Valid'
  BY <1>39 DEF MarkIdle, Drop
<1>40. ASSUME NEW f \in Fd, ReapClose(f)
       PROVE  Valid'
  BY <1>40 DEF ReapClose, CloseFd
<1>41. ASSUME NEW f \in Fd, ReapRemove(f)
       PROVE  Valid'
  BY <1>41 DEF ReapRemove
<1>42. CASE UNCHANGED vars
  BY <1>42 DEF vars
<1> QED
  BY <1>1, <1>2, <1>3, <1>4, <1>5, <1>6, <1>7, <1>8, <1>9, <1>10, <1>11, <1>12,
     <1>13, <1>14, <1>15, <1>16, <1>17, <1>18, <1>19, <1>20, <1>21, <1>22, <1>23,
     <1>24, <1>25, <1>26, <1>27, <1>28, <1>29, <1>30, <1>31, <1>32, <1>33, <1>34,
     <1>35, <1>36, <1>37, <1>38, <1>39, <1>40, <1>41, <1>42
  DEF Next, MainStep, WorkerStep, ReaperStep, Cleanup, Thread

LEMMA RecycledStep ==
  ASSUME ~Reaping, TokenInv, [Next]_vars
  PROVE  NeverRecycled'
<1>0. /\ TypeOK /\ ThreadsOK
      /\ sock \in [Fd -> 0 .. MaxConn] /\ watch \in [Fd -> Watch] /\ accepted \in Nat
      /\ active \in [Slot -> BOOLEAN] /\ generation \in [Slot -> 0 .. GenModulus - 1]
      /\ batch \subseteq [fd : Slot, conn : 0 .. MaxConn, hup : BOOLEAN]
      /\ \A i \in DOMAIN queue : queue[i].fd \in Slot
      /\ LockHolders /\ ShuttingDown /\ DispatchCurrent /\ NoReaper
      /\ NeverRecycled /\ Real /\ Fresh
  BY DEF TokenInv, Locks, TypeOK
<1> USE ThreadAssumption, BoundAssumption, NoJobAssumption, <1>0, JobTyped
    DEF ThreadsOK, NoReaper, Goto, Drop, CleanupPoint, MainPoint, WorkerPoint,
        Resting, Unslotted,
        Thread, kernelVars, slotVars, flagVars, loopVars, wsVars, threadVars,
        NeverRecycled, User, New, NoConn
<1>1. CASE EpollWait
  BY <1>1 DEF EpollWait, Report, Armed
<1>2. CASE TakeListener
  BY <1>2 DEF TakeListener
<1>3. CASE AcceptEnds
  BY <1>3 DEF AcceptEnds
<1>4. CASE CountConnection
  BY <1>4 DEF CountConnection
<1>5. CASE Activate
  BY <1>5 DEF Activate
<1>6. CASE ActivateOutOfRange
  BY <1>6 DEF ActivateOutOfRange
<1>7. CASE Refuse
  <2> DEFINE f == job[Main].fd
  <2>1. pc[Main] = "refused" /\ f \in Fd
    BY <1>7 DEF Refuse
  <2>2. /\ \A e \in batch : e.fd # f
        /\ \A i \in DOMAIN queue : queue[i].fd # f
        /\ \A w \in Worker : ~User(w, f)
    BY <2>1, Sole DEF Fresh
  <2>3. sock' = [sock EXCEPT ![f] = NoConn]
    BY <1>7 DEF Refuse, CloseFd
  <2> QED
    BY <1>7, <2>1, <2>2, <2>3 DEF Refuse
<1>8. CASE AddToEpoll
  BY <1>8 DEF AddToEpoll, Drop
<1>9. CASE AddFails
  BY <1>9 DEF AddFails
<1>10. CASE PushAccepted
  <2>1. PICK n : /\ n \notin DOMAIN queue /\ DOMAIN queue' = DOMAIN queue \cup {n}
                 /\ \A i \in DOMAIN queue : queue'[i] = queue[i]
                 /\ queue'[n] = job[Main]
    BY <1>10, Offered
  <2> QED
    BY <1>10, <2>1 DEF PushAccepted, Drop
<1>11. CASE PushFails
  BY <1>11 DEF PushFails
<1>12. CASE LoopEnds
  BY <1>12 DEF LoopEnds
<1>13. CASE WorkersGone
  BY <1>13 DEF WorkersGone
<1>14. CASE DiscardQueue
  BY <1>14, Discarded DEF DiscardQueue
<1>15. CASE Signal
  BY <1>15 DEF Signal, Channel!Close
<1>16. CASE ReapCollect
  BY <1>16 DEF ReapCollect
<1>17. ASSUME NEW f \in Fd, Accept(f)
       PROVE  NeverRecycled'
  <2>1. /\ \A e \in batch : e.fd # f
        /\ \A i \in DOMAIN queue : queue[i].fd # f
        /\ \A s \in Thread : ~User(s, f)
    <3>1. sock[f] = NoConn
      BY <1>17 DEF Accept
    <3> QED
      BY <3>1 DEF Real
  <2>2. sock' = [sock EXCEPT ![f] = accepted + 1]
    BY <1>17 DEF Accept
  <2> QED
    BY <1>17, <2>1, <2>2 DEF Accept
<1>18. ASSUME NEW e \in batch, HandleHup(e)
       PROVE  NeverRecycled'
  BY <1>18 DEF HandleHup, Handle
<1>19. ASSUME NEW e \in batch, HandleIoStopping(e)
       PROVE  NeverRecycled'
  BY <1>19 DEF HandleIoStopping, Handle
<1>20. ASSUME NEW e \in batch, HandleIoInactive(e)
       PROVE  NeverRecycled'
  BY <1>20 DEF HandleIoInactive
<1>21. ASSUME NEW e \in batch, HandleIo(e)
       PROVE  NeverRecycled'
  BY <1>21 DEF HandleIo, Handle
<1>22. ASSUME NEW t \in Thread, Uncount(t)
       PROVE  NeverRecycled'
  BY <1>22 DEF Uncount
<1>23. ASSUME NEW t \in Thread, CleanupDel(t)
       PROVE  NeverRecycled'
  BY <1>23 DEF CleanupDel
<1>24. ASSUME NEW t \in Thread, CleanupLock(t)
       PROVE  NeverRecycled'
  BY <1>24 DEF CleanupLock
<1>25. ASSUME NEW t \in Thread, CleanupReset(t)
       PROVE  NeverRecycled'
  BY <1>25 DEF CleanupReset
<1>26. ASSUME NEW t \in Thread, CleanupClose(t)
       PROVE  NeverRecycled'
  <2> DEFINE f == job[t].fd
  <2>1. pc[t] = "close" /\ f \in Slot
    BY <1>26 DEF CleanupClose
  <2>2. /\ \A e \in batch : e.fd # f
        /\ \A i \in DOMAIN queue : queue[i].fd # f
        /\ \A s \in Thread \ {t} : Holds(s) => job[s].fd # f
    BY <2>1, Sole
  <2>3. \A s \in Thread \ {t} : User(s, f) => pc[s] # "unlock"
    BY <2>1 DEF LockHolders, Region
  <2>4. \A s \in Thread \ {t} : ~User(s, f)
    BY <2>2, <2>3 DEF Holds
  <2>5. sock' = [sock EXCEPT ![f] = NoConn] /\ pc' = [pc EXCEPT ![t] = "release"]
    BY <1>26 DEF CleanupClose, CloseFd
  <2> QED
    BY <1>26, <2>1, <2>2, <2>4, <2>5 DEF CleanupClose
<1>27. ASSUME NEW t \in Thread, CleanupUnlock(t)
       PROVE  NeverRecycled'
  BY <1>27 DEF CleanupUnlock, CleanupEnd, Drop
<1>28. ASSUME NEW w \in Worker, PopJob(w)
       PROVE  NeverRecycled'
  <2>1. /\ 1 \in DOMAIN queue /\ job' = [job EXCEPT ![w] = queue[1]] /\ queue[1] \in Job
        /\ \A i \in DOMAIN queue' : /\ i \in Int /\ i + 1 \in DOMAIN queue /\ i + 1 # 1
                                    /\ queue'[i] = queue[i + 1]
    BY <1>28, Taken
  <2> QED
    BY <1>28, <2>1 DEF PopJob
<1>29. ASSUME NEW w \in Worker, WorkerExits(w)
       PROVE  NeverRecycled'
  BY <1>29 DEF WorkerExits
<1>30. ASSUME NEW w \in Worker, CheckActive(w)
       PROVE  NeverRecycled'
  BY <1>30 DEF CheckActive
<1>31. ASSUME NEW w \in Worker, CheckGeneration(w)
       PROVE  NeverRecycled'
  BY <1>31 DEF CheckGeneration
<1>32. ASSUME NEW w \in Worker, LockSlot(w)
       PROVE  NeverRecycled'
  BY <1>32 DEF LockSlot
<1>33. ASSUME NEW w \in Worker, Recheck(w)
       PROVE  NeverRecycled'
  BY <1>33 DEF Recheck, IsValid
<1>34. ASSUME NEW w \in Worker, Dispatch(w)
       PROVE  NeverRecycled'
  BY <1>34 DEF Dispatch
<1>35. ASSUME NEW w \in Worker, DispatchUpgrade(w)
       PROVE  NeverRecycled'
  BY <1>35 DEF DispatchUpgrade
<1>36. ASSUME NEW w \in Worker, DispatchFrames(w)
       PROVE  NeverRecycled'
  BY <1>36 DEF DispatchFrames
<1>37. ASSUME NEW w \in Worker, Rearm(w)
       PROVE  NeverRecycled'
  BY <1>37 DEF Rearm
<1>38. ASSUME NEW w \in Worker, UnlockSlot(w)
       PROVE  NeverRecycled'
  BY <1>38 DEF UnlockSlot
<1>39. ASSUME NEW w \in Worker, MarkIdle(w)
       PROVE  NeverRecycled'
  BY <1>39 DEF MarkIdle, Drop
<1>40. ASSUME NEW f \in Fd, ReapClose(f)
       PROVE  NeverRecycled'
  BY <1>40 DEF ReapClose, CloseFd
<1>41. ASSUME NEW f \in Fd, ReapRemove(f)
       PROVE  NeverRecycled'
  BY <1>41 DEF ReapRemove
<1>42. CASE UNCHANGED vars
  BY <1>42 DEF vars
<1> QED
  BY <1>1, <1>2, <1>3, <1>4, <1>5, <1>6, <1>7, <1>8, <1>9, <1>10, <1>11, <1>12,
     <1>13, <1>14, <1>15, <1>16, <1>17, <1>18, <1>19, <1>20, <1>21, <1>22, <1>23,
     <1>24, <1>25, <1>26, <1>27, <1>28, <1>29, <1>30, <1>31, <1>32, <1>33, <1>34,
     <1>35, <1>36, <1>37, <1>38, <1>39, <1>40, <1>41, <1>42
  DEF Next, MainStep, WorkerStep, ReaperStep, Cleanup, Thread

(* What a step may do to the tokens.  Most leave all of them where they are. *)
Circulates == Unique /\ Apart /\ Unarmed /\ Kept

LEMMA Quiet ==
  ASSUME Circulates, ThreadsOK, TypeOK, batch' = batch, queue' = queue, sock' = sock,
         \A t \in Thread : Holds(t)' <=> Holds(t),
         \A t \in Thread : Holds(t) => job'[t].fd = job[t].fd,
         \A f \in Fd : watch'[f] \in {"none", watch[f]}
  PROVE  Circulates'
<1>1. \A e \in batch : e.fd \in Fd
  BY BatchTyped DEF Slot
<1>2. \A i \in DOMAIN queue : queue[i].fd \in Fd
  BY DEF TypeOK, Slot
<1>3. \A t \in Thread : Holds(t) => job[t].fd \in Fd
  BY DEF ThreadsOK, Holds, Job
<1>4. Unique' /\ Apart'
  BY DEF Circulates, Unique, Apart
<1>5. Unarmed'
  BY <1>1, <1>2, <1>3 DEF Circulates, Unarmed
<1>6. Kept'
  BY DEF Circulates, Kept, Slot
<1> QED
  BY <1>4, <1>5, <1>6 DEF Circulates

(* Or the thread u gives its token back: it arms the descriptor or leaves  *)
(* it unwatched or closed.                                                 *)
LEMMA GivenBack ==
  ASSUME TokenInv, NEW u \in Thread, Holds(u), batch' = batch, queue' = queue,
         ~Holds(u)',
         \A t \in Thread \ {u} : Holds(t)' <=> Holds(t),
         \A t \in Thread \ {u} : job'[t] = job[t],
         \A f \in Fd \ {job[u].fd} : sock'[f] = sock[f],
         \A f \in Fd \ {job[u].fd} : watch'[f] = watch[f],
         sock'[job[u].fd] = NoConn \/ watch'[job[u].fd] # "silent"
  PROVE  Circulates'
<1> DEFINE g == job[u].fd
<1>0. TypeOK /\ ThreadsOK /\ Unique /\ Apart /\ Unarmed /\ Kept
  BY DEF TokenInv, Locks, TypeOK
<1>1. \A e \in batch : e.fd \in Fd \ {g}
  BY <1>0, BatchTyped DEF Slot, Apart
<1>2. \A i \in DOMAIN queue : queue[i].fd \in Fd \ {g}
  BY <1>0 DEF TypeOK, Slot, Apart
<1>3. \A t \in Thread \ {u} : Holds(t) => job[t].fd \in Fd \ {g}
  BY <1>0 DEF ThreadsOK, Holds, Job, Unique
<1>4. Unique' /\ Apart'
  BY <1>0 DEF Unique, Apart
<1>5. Unarmed'
  BY <1>0, <1>1, <1>2, <1>3 DEF Unarmed
<1>6. Kept'
  BY <1>0 DEF Kept, Slot
<1> QED
  BY <1>4, <1>5, <1>6 DEF Circulates

(* A new connection brings the token of its descriptor to main.            *)
LEMMA Arrives ==
  ASSUME TokenInv, NEW f \in Fd, Accept(f)
  PROVE  Circulates'
<1>0. TypeOK /\ ThreadsOK /\ Unique /\ Apart /\ Unarmed /\ Kept /\ Real /\ NeverRecycled
  BY DEF TokenInv, Locks, TypeOK
<1>1. /\ sock[f] = NoConn /\ watch[f] = "none"
      /\ pc' = [pc EXCEPT ![Main] = "count"] /\ job'[Main].fd = f
      /\ \A t \in Worker : job'[t] = job[t]
      /\ \A g \in Fd \ {f} : sock'[g] = sock[g]
      /\ batch' = batch /\ queue' = queue /\ watch' = watch
  BY <1>0, ThreadAssumption DEF Accept, Goto, Real, loopVars, TypeOK, ThreadsOK, Thread
<1>2. /\ \A e \in batch : e.fd # f
      /\ \A i \in DOMAIN queue : queue[i].fd # f
      /\ \A s \in Thread : Holds(s) => job[s].fd # f
  BY <1>0, <1>1 DEF NeverRecycled, Real, Holds
<1>3. /\ \A t \in Worker : Holds(t)' <=> Holds(t)
      /\ pc[Main] = "accept"
  BY <1>0, <1>1, ThreadAssumption DEF Accept, Holds, Thread, ThreadsOK
<1>4. Unique' /\ Apart'
  BY <1>0, <1>1, <1>2, <1>3 DEF Unique, Apart, Thread
<1>5. Unarmed'
  BY <1>0, <1>1, <1>2, <1>3 DEF Unarmed, Thread
<1>6. Kept'
  BY <1>0, <1>1, <1>2, <1>3 DEF Kept, Slot, Thread, Holds, ThreadsOK, Resting
<1> QED
  BY <1>4, <1>5, <1>6 DEF Circulates

(* epoll_wait turns armed descriptors into events.                         *)
LEMMA Reported ==
  ASSUME TokenInv, EpollWait
  PROVE  Circulates'
<1>0. TypeOK /\ ThreadsOK /\ Unique /\ Apart /\ Unarmed /\ Kept
  BY DEF TokenInv, Locks, TypeOK
<1>1. PICK S \in SUBSET Armed, l \in {"quiet", "ready"} :
        Report(S, l) /\ watch' = [f \in Fd |-> IF f \in S THEN "silent" ELSE watch[f]]
  BY DEF EpollWait
<1>2. PICK hup \in SUBSET S :
        batch' = {[fd |-> f, conn |-> sock[f], hup |-> f \in hup] : f \in S}
  BY <1>1 DEF Report
<1> DEFINE E(f) == [fd |-> f, conn |-> sock[f], hup |-> f \in hup]
<1>3. /\ \A d, e \in batch' : d.fd = e.fd => d = e
      /\ \A e \in batch' : e.fd \in S
      /\ \A f \in S : \E e \in batch' : e.fd = f
  <2>1. \A f \in S : E(f).fd = f
    OBVIOUS
  <2>2. batch' = {E(f) : f \in S}
    BY <1>2
  <2> HIDE DEF E
  <2> QED
    BY <2>1, <2>2
<1> HIDE DEF E
<1>4. /\ \A f \in S : f \in Fd /\ watch[f] = "armed" /\ watch'[f] = "silent"
      /\ \A f \in Fd \ S : watch'[f] = watch[f]
      /\ UNCHANGED <<queue, pc, job, sock>>
      /\ batch = {}
  BY <1>1 DEF Report, Armed, threadVars
<1>5. \A t \in Thread : Holds(t)' <=> Holds(t)
  BY <1>4 DEF Holds
<1>6. \A i \in DOMAIN queue : queue[i].fd \in Fd \ S
  BY <1>0, <1>4 DEF TypeOK, Slot, Unarmed
<1>7. \A t \in Thread : Holds(t) => job[t].fd \in Fd \ S
  BY <1>0, <1>4 DEF ThreadsOK, Job, Holds, Unarmed
<1>8. Unique' /\ Apart'
  BY <1>0, <1>3, <1>4, <1>5, <1>6, <1>7 DEF Unique, Apart
<1>9. Unarmed'
  BY <1>0, <1>3, <1>4, <1>5, <1>6, <1>7 DEF Unarmed
<1>10. Kept'
  BY <1>0, <1>3, <1>4, <1>5 DEF Kept, Slot
<1> QED
  BY <1>8, <1>9, <1>10 DEF Circulates

(* Main takes an event out of its batch.                                   *)
LEMMA Picked ==
  ASSUME TokenInv, NEW e \in batch, NEW g \in 0 .. GenModulus - 1,
         NEW p \in {"uncount", "del", "push"}, Handle(e, g, p)
  PROVE  Circulates'
<1>0. TypeOK /\ ThreadsOK /\ Unique /\ Apart /\ Unarmed /\ Kept
  BY DEF TokenInv, Locks, TypeOK
<1>1. /\ job'[Main].fd = e.fd /\ pc' = [pc EXCEPT ![Main] = p] /\ pc[Main] = "loop"
      /\ \A t \in Worker : job'[t] = job[t]
      /\ batch' = batch \ {e}
      /\ UNCHANGED <<queue, sock, watch>>
  BY <1>0, ThreadAssumption DEF Handle, Goto, ThreadsOK, Thread, kernelVars
<1>2. /\ \A t \in Worker : Holds(t)' <=> Holds(t)
      /\ ~Holds(Main) /\ \A d \in batch' : d.fd # e.fd
  BY <1>0, <1>1, ThreadAssumption DEF Holds, ThreadsOK, Thread, Resting, Unique
<1>3. Unique'
  BY <1>0, <1>1, <1>2 DEF Unique, Apart, Thread
<1>4. Apart'
  BY <1>0, <1>1, <1>2 DEF Apart, Thread
<1>5. Unarmed'
  BY <1>0, <1>1, <1>2 DEF Unarmed, Thread
<1>6. Holds(Main)'
  <2>1. e.fd \in Fd /\ e.conn \in 0 .. MaxConn
    BY <1>0, BatchTyped DEF Slot
  <2>2. [fd |-> e.fd, gen |-> g, conn |-> e.conn] \in Job
    BY <2>1 DEF Job
  <2> QED
    BY <1>0, <1>1, <2>2, NoJobAssumption, ThreadAssumption DEF Holds, Handle,
       Thread, ThreadsOK
<1>7. Kept'
  BY <1>0, <1>1, <1>2, <1>6 DEF Kept, Thread
<1> QED
  BY <1>3, <1>4, <1>5, <1>7 DEF Circulates

(* A push and a pop pass a token on.                                       *)
LEMMA OfferedToken ==
  ASSUME TokenInv, PushAccepted
  PROVE  Circulates'
<1>0. TypeOK /\ ThreadsOK /\ Unique /\ Apart /\ Unarmed /\ Kept
  BY DEF TokenInv, Locks, TypeOK
<1>1. PICK n : /\ n \notin DOMAIN queue /\ DOMAIN queue' = DOMAIN queue \cup {n}
               /\ \A i \in DOMAIN queue : queue'[i] = queue[i]
               /\ queue'[n] = job[Main]
  BY <1>0, Offered
<1>2. /\ pc[Main] = "push" /\ pc' = [pc EXCEPT ![Main] = "loop"]
      /\ job' = [job EXCEPT ![Main] = NoJob]
      /\ UNCHANGED <<batch, sock, watch>>
  BY DEF PushAccepted, Drop, Goto, loopVars, kernelVars
<1>3. /\ \A t \in Worker : job'[t] = job[t] /\ (Holds(t)' <=> Holds(t))
      /\ ~Holds(Main)'
      /\ Holds(Main)
  BY <1>0, <1>2, ThreadAssumption DEF ThreadsOK, Thread, Holds, Resting
<1>4. Unique'
  BY <1>0, <1>1, <1>2, <1>3 DEF Unique, Apart, Thread
<1>5. Apart'
  BY <1>0, <1>1, <1>2, <1>3 DEF Unique, Apart, Thread
<1>6. Unarmed'
  BY <1>0, <1>1, <1>2, <1>3 DEF Unarmed, Thread
<1>7. Kept'
  BY <1>0, <1>1, <1>2, <1>3 DEF Kept, Thread
<1> QED
  BY <1>4, <1>5, <1>6, <1>7 DEF Circulates

LEMMA TakenToken ==
  ASSUME TokenInv, NEW w \in Worker, PopJob(w)
  PROVE  Circulates'
<1>0. TypeOK /\ ThreadsOK /\ Unique /\ Apart /\ Unarmed /\ Kept
  BY DEF TokenInv, Locks, TypeOK
<1>1. /\ 1 \in DOMAIN queue /\ job' = [job EXCEPT ![w] = queue[1]] /\ queue[1] \in Job
      /\ \A i \in DOMAIN queue' : /\ i \in Int /\ i + 1 \in DOMAIN queue /\ i + 1 # 1
                                  /\ queue'[i] = queue[i + 1]
      /\ \A i \in DOMAIN queue \ {1} : \E j \in DOMAIN queue' : queue'[j] = queue[i]
  BY <1>0, Taken
<1>2. /\ pc[w] = "pop" /\ pc' = [pc EXCEPT ![w] = "active?"]
      /\ UNCHANGED <<batch, sock, watch>>
  BY DEF PopJob, Goto, loopVars, kernelVars
<1>3. /\ \A t \in Thread \ {w} : job'[t] = job[t] /\ (Holds(t)' <=> Holds(t))
      /\ ~Holds(w)
      /\ Holds(w)' /\ job'[w] = queue[1]
  BY <1>0, <1>1, <1>2, NoJobAssumption DEF ThreadsOK, Thread, Holds, Resting
<1>4. Unique'
  BY <1>0, <1>1, <1>2, <1>3 DEF Unique, Apart
<1>5. Apart'
  BY <1>0, <1>1, <1>2, <1>3 DEF Unique, Apart
<1>6. Unarmed'
  BY <1>0, <1>1, <1>2, <1>3 DEF Unarmed
<1>7. Kept'
  BY <1>0, <1>1, <1>2, <1>3 DEF Kept, Thread
<1> QED
  BY <1>4, <1>5, <1>6, <1>7 DEF Circulates

LEMMA CirculatesStep ==
  ASSUME ~Reaping, TokenInv, [Next]_vars
  PROVE  Circulates'
<1>0. /\ TypeOK /\ ThreadsOK /\ Circulates
      /\ sock \in [Fd -> 0 .. MaxConn] /\ watch \in [Fd -> Watch] /\ accepted \in Nat
      /\ batch \subseteq [fd : Slot, conn : 0 .. MaxConn, hup : BOOLEAN]
      /\ \A i \in DOMAIN queue : queue[i].fd \in Slot
      /\ NoReaper /\ ShuttingDown /\ Valid
  BY DEF TokenInv, Locks, TypeOK, Circulates
<1> USE ThreadAssumption, NoJobAssumption, <1>0, JobTyped
    DEF ThreadsOK, NoReaper, Goto, Drop, CleanupPoint, MainPoint, WorkerPoint,
        Resting, Unslotted,
        Holds, Thread, kernelVars, slotVars, flagVars, loopVars, wsVars, threadVars
<1>1. CASE EpollWait
  BY <1>1, Reported
<1>2. CASE TakeListener
  BY <1>2, Quiet DEF TakeListener
<1>3. CASE AcceptEnds
  BY <1>3, Quiet DEF AcceptEnds
<1>4. CASE CountConnection
  BY <1>4, Quiet DEF CountConnection
<1>5. CASE Activate
  <2>1. /\ pc[Main] = "activate" /\ pc'[Main] \in {"refused", "add"}
        /\ job'[Main].fd = job[Main].fd /\ job'[Main] # NoJob
        /\ \A t \in Worker : job'[t] = job[t] /\ pc'[t] = pc[t]
        /\ UNCHANGED <<batch, queue, sock, watch>>
    <3>1. job[Main] \in Job /\ generation'[job[Main].fd] \in 0 .. GenModulus - 1
      BY <1>5, TypeStep DEF Activate, TypeOK
    <3>2. [job[Main] EXCEPT !.gen = generation'[job[Main].fd]] \in Job
      BY <3>1 DEF Job
    <3> QED
      BY <1>5, <3>1, <3>2 DEF Activate
  <2> QED
    BY <2>1, Quiet
<1>6. CASE ActivateOutOfRange
  BY <1>6, Quiet DEF ActivateOutOfRange
<1>7. CASE Refuse
  <2>1. Main \in Thread /\ Holds(Main) /\ ~Holds(Main)'
    BY <1>7 DEF Refuse, CloseFd, Drop
  <2> QED
    BY <1>7, <2>1, GivenBack DEF Refuse, CloseFd, Drop
<1>8. CASE AddToEpoll
  <2>1. Main \in Thread /\ Holds(Main) /\ ~Holds(Main)'
    BY <1>8 DEF AddToEpoll, Drop
  <2> QED
    BY <1>8, <2>1, GivenBack DEF AddToEpoll, Drop
<1>9. CASE AddFails
  BY <1>9, Quiet DEF AddFails
<1>10. CASE PushAccepted
  BY <1>10, OfferedToken
<1>11. CASE PushFails
  BY <1>11, Quiet DEF PushFails
<1>12. CASE LoopEnds
  BY <1>12, Quiet DEF LoopEnds
<1>13. CASE WorkersGone
  BY <1>13, Quiet DEF WorkersGone
<1>14. CASE DiscardQueue
  <2>1. /\ DOMAIN queue' = {} /\ batch' = {}
        /\ \A f \in Fd : watch'[f] = "none"
        /\ \A t \in Thread : ~Holds(t)'
    BY <1>14, Discarded DEF DiscardQueue
  <2> QED
    BY <2>1 DEF Circulates, Unique, Apart, Unarmed, Kept, Slot
<1>15. CASE Signal
  BY <1>15, Quiet DEF Signal, Channel!Close
<1>16. CASE ReapCollect
  BY <1>16, Quiet DEF ReapCollect
<1>17. ASSUME NEW f \in Fd, Accept(f)
       PROVE  Circulates'
  BY <1>17, Arrives
<1>18. ASSUME NEW e \in batch, HandleHup(e)
       PROVE  Circulates'
  BY <1>18, Picked, BoundAssumption DEF HandleHup
<1>19. ASSUME NEW e \in batch, HandleIoStopping(e)
       PROVE  Circulates'
  BY <1>19, Picked, BoundAssumption DEF HandleIoStopping
<1>20. ASSUME NEW e \in batch, HandleIoInactive(e)
       PROVE  Circulates'
  BY <1>20 DEF HandleIoInactive, Valid
<1>21. ASSUME NEW e \in batch, HandleIo(e)
       PROVE  Circulates'
  <2>1. e.fd \in Slot /\ generation \in [Slot -> 0 .. GenModulus - 1]
    BY BatchTyped DEF TypeOK
  <2> QED
    BY <1>21, <2>1, Picked DEF HandleIo
<1>22. ASSUME NEW t \in Thread, Uncount(t)
       PROVE  Circulates'
  BY <1>22, Quiet DEF Uncount
<1>23. ASSUME NEW t \in Thread, CleanupDel(t)
       PROVE  Circulates'
  BY <1>23, Quiet DEF CleanupDel
<1>24. ASSUME NEW t \in Thread, CleanupLock(t)
       PROVE  Circulates'
  BY <1>24, Quiet DEF CleanupLock
<1>25. ASSUME NEW t \in Thread, CleanupReset(t)
       PROVE  Circulates'
  BY <1>25, Quiet DEF CleanupReset
<1>26. ASSUME NEW t \in Thread, CleanupClose(t)
       PROVE  Circulates'
  <2>1. t \in Thread /\ Holds(t) /\ ~Holds(t)'
    BY <1>26 DEF CleanupClose, CloseFd
  <2> QED
    BY <1>26, <2>1, GivenBack DEF CleanupClose, CloseFd
<1>27. ASSUME NEW t \in Thread, CleanupUnlock(t)
       PROVE  Circulates'
  BY <1>27, Quiet DEF CleanupUnlock, CleanupEnd, Drop
<1>28. ASSUME NEW w \in Worker, PopJob(w)
       PROVE  Circulates'
  BY <1>28, TakenToken
<1>29. ASSUME NEW w \in Worker, WorkerExits(w)
       PROVE  Circulates'
  BY <1>29, Quiet DEF WorkerExits
<1>30. ASSUME NEW w \in Worker, CheckActive(w)
       PROVE  Circulates'
  <2>1. IsValid(job[w])
    BY <1>30 DEF CheckActive, Valid, Checking
  <2> QED
    BY <1>30, <2>1, Quiet DEF CheckActive, IsValid
<1>31. ASSUME NEW w \in Worker, CheckGeneration(w)
       PROVE  Circulates'
  <2>1. IsValid(job[w])
    BY <1>31 DEF CheckGeneration, Valid, Checking
  <2> QED
    BY <1>31, <2>1, Quiet DEF CheckGeneration, IsValid
<1>32. ASSUME NEW w \in Worker, LockSlot(w)
       PROVE  Circulates'
  BY <1>32, Quiet DEF LockSlot
<1>33. ASSUME NEW w \in Worker, Recheck(w)
       PROVE  Circulates'
  <2>1. IsValid(job[w])
    BY <1>33 DEF Recheck, Valid, Checking
  <2> QED
    BY <1>33, <2>1, Quiet DEF Recheck, IsValid
<1>34. ASSUME NEW w \in Worker, Dispatch(w)
       PROVE  Circulates'
  BY <1>34, Quiet DEF Dispatch
<1>35. ASSUME NEW w \in Worker, DispatchUpgrade(w)
       PROVE  Circulates'
  BY <1>35, Quiet DEF DispatchUpgrade
<1>36. ASSUME NEW w \in Worker, DispatchFrames(w)
       PROVE  Circulates'
  BY <1>36, Quiet DEF DispatchFrames
<1>37. ASSUME NEW w \in Worker, Rearm(w)
       PROVE  Circulates'
  <2>1. w \in Thread /\ Holds(w) /\ ~Holds(w)'
    BY <1>37 DEF Rearm
  <2> QED
    BY <1>37, <2>1, GivenBack DEF Rearm
<1>38. ASSUME NEW w \in Worker, UnlockSlot(w)
       PROVE  Circulates'
  BY <1>38, Quiet DEF UnlockSlot
<1>39. ASSUME NEW w \in Worker, MarkIdle(w)
       PROVE  Circulates'
  BY <1>39, Quiet DEF MarkIdle, Drop
<1>40. ASSUME NEW f \in Fd, ReapClose(f)
       PROVE  Circulates'
  BY <1>40, Quiet DEF ReapClose, CloseFd
<1>41. ASSUME NEW f \in Fd, ReapRemove(f)
       PROVE  Circulates'
  BY <1>41, Quiet DEF ReapRemove
<1>42. CASE UNCHANGED vars
  BY <1>42, Quiet DEF vars
<1> QED
  BY <1>1, <1>2, <1>3, <1>4, <1>5, <1>6, <1>7, <1>8, <1>9, <1>10, <1>11, <1>12,
     <1>13, <1>14, <1>15, <1>16, <1>17, <1>18, <1>19, <1>20, <1>21, <1>22, <1>23,
     <1>24, <1>25, <1>26, <1>27, <1>28, <1>29, <1>30, <1>31, <1>32, <1>33, <1>34,
     <1>35, <1>36, <1>37, <1>38, <1>39, <1>40, <1>41, <1>42
  DEF Next, MainStep, WorkerStep, ReaperStep, Cleanup, Thread

LEMMA NoReaperStep ==
  ASSUME ~Reaping, TokenInv, [Next]_vars
  PROVE  NoReaper'
BY DEF TokenInv, NoReaper, Next, vars, MainStep, WorkerStep, ReaperStep, Cleanup,
   Signal,
       EpollWait, Report, TakeListener, AcceptEnds, Accept, CountConnection, Activate,
       ActivateOutOfRange, Refuse, AddToEpoll, AddFails, Handle, HandleHup,
       HandleIoStopping,
       HandleIoInactive, HandleIo, PushAccepted, PushFails, LoopEnds, WorkersGone,
       DiscardQueue, Uncount, CleanupDel, CleanupLock, CleanupReset, CleanupClose,
       CleanupUnlock, PopJob, WorkerExits, CheckActive, CheckGeneration,
       LockSlot, Recheck,
       Dispatch, DispatchUpgrade, DispatchFrames, Rearm, UnlockSlot, MarkIdle,
       ReapCollect,
       ReapClose, ReapRemove, wsVars

LEMMA InitTokens == Init => TokenInv
<1> SUFFICES ASSUME Init PROVE TokenInv
  OBVIOUS
<1>1. Locks
  BY InitLocks
<1>2. /\ DOMAIN queue = {} /\ batch = {} /\ victims = {} /\ reaping = {}
      /\ \A t \in Thread : job[t] = NoJob /\ pc[t] \in {"loop", "pop"}
      /\ \A f \in Fd : watch[f] = "none"
  BY DEF Init, Channel!Init, Thread
<1>3. Main \in Thread /\ Worker \subseteq Thread
  BY DEF Thread
<1> QED
  BY <1>1, <1>2, <1>3
  DEF TokenInv, NoReaper, Real, Valid, Checking, Fresh, New, Unique, Apart, Unarmed,
      Kept, Holds,
      NeverRecycled, Slot

LEMMA TokenStep ==
  ASSUME ~Reaping
  PROVE  TokenInv /\ [Next]_vars => TokenInv'
<1> SUFFICES ASSUME TokenInv, [Next]_vars
             PROVE  TokenInv'
  OBVIOUS
<1>1. Locks'
  BY LocksStep DEF TokenInv
<1>2. NoReaper'
  BY NoReaperStep
<1>3. Real' /\ Valid' /\ Fresh' /\ NeverRecycled'
  BY RealStep, ValidStep, FreshStep, RecycledStep
<1>4. Circulates'
  BY CirculatesStep
<1> QED
  BY <1>1, <1>2, <1>3, <1>4 DEF TokenInv, Circulates

(* The tokens counted one by one are the sets that OneToken compares. *)
LEMMA TokenInvTokens == TokenInv => Tokens
<1> SUFFICES ASSUME TokenInv PROVE Tokens
  OBVIOUS
<1>1. Unique /\ Apart /\ Unarmed /\ Kept /\ NeverRecycled
  BY DEF TokenInv
<1>2. OneToken
  <2> SUFFICES ASSUME NEW f \in Slot
               PROVE  /\ \A d, e \in Batched(f) : d = e
                      /\ \A i, j \in Tasks(f) : i = j
                      /\ \A s, t \in Handling(f) : s = t
                      /\ Batched(f) # {} => Tasks(f) = {} /\ Handling(f) = {}
                      /\ Tasks(f) # {} => Handling(f) = {}
                      /\ watch[f] = "armed" => Batched(f) \cup Tasks(f) \cup Handling(f) = {}
    BY DEF OneToken
  <2>1. /\ \A e \in Batched(f) : e \in batch /\ e.fd = f
        /\ \A i \in Tasks(f) : i \in DOMAIN queue /\ queue[i].fd = f
        /\ \A t \in Handling(f) : t \in Thread /\ Holds(t) /\ job[t].fd = f
    BY DEF Batched, Tasks, Handling, Holds
  <2>2. \A d, e \in Batched(f) : d = e
    BY <1>1, <2>1 DEF Unique
  <2>3. \A i, j \in Tasks(f) : i = j
    BY <1>1, <2>1 DEF Unique
  <2>4. \A s, t \in Handling(f) : s = t
    BY <1>1, <2>1 DEF Unique
  <2>5. Batched(f) # {} => Tasks(f) = {} /\ Handling(f) = {}
    BY <1>1, <2>1 DEF Apart
  <2>6. Tasks(f) # {} => Handling(f) = {}
    BY <1>1, <2>1 DEF Apart
  <2>7. watch[f] = "armed" => Batched(f) \cup Tasks(f) \cup Handling(f) = {}
    BY <1>1, <2>1 DEF Unarmed
  <2> QED
    BY <2>2, <2>3, <2>4, <2>5, <2>6, <2>7
<1>3. NotStranded
  BY <1>1 DEF Kept, NotStranded, Open, Batched, Tasks, Handling, Holds
<1> QED
  BY <1>1, <1>2, <1>3 DEF Tokens

LEMMA TokensAlways ==
  ASSUME ~Reaping
  PROVE  Spec => []TokenInv
BY InitTokens, TokenStep, PTL DEF Spec

(* The event of a descriptor is a token that one of main's batch, the      *)
(* queue and the threads has, that is never lost while its connection is   *)
(* open, and that is never about a connection that has gone, for as long   *)
(* as the reaper closes no descriptor beside the loop.                     *)
THEOREM TokensCorrect ==
  ASSUME ~Reaping
  PROVE  Spec => []Tokens
BY TokenInvTokens, TokensAlways, PTL

(* What the slot of a descriptor keeps is of the connection behind it or   *)
(* of none, and of none where main has just accepted and where a cleanup   *)
(* is about to close.  (The discard at the end leaves the websocket marks  *)
(* of what it closes.)                                                     *)
Own ==
  \A f \in Slot :
    /\ session[f] \in {NoConn, sock[f]}
    /\ Open(f) \/ pc[Main] # "stopped" => ws_fd_map[f] \in {NoConn, sock[f]}

Blank ==
  /\ \A t \in Thread :
       pc[t] = "close" => session[job[t].fd] = NoConn /\ ws_fd_map[job[t].fd] = NoConn
  /\ pc[Main] \in New /\ job[Main].fd \in Slot =>
       session[job[Main].fd] = NoConn /\ ws_fd_map[job[Main].fd] = NoConn

OwnInv == TokenInv /\ Own /\ Blank /\ CounterExact

LEMMA OwnStep ==
  ASSUME ~Reaping, OwnInv, [Next]_vars
  PROVE  Own'
<1>0. /\ TypeOK /\ ThreadsOK
      /\ sock \in [Fd -> 0 .. MaxConn] /\ accepted \in Nat
      /\ session \in [Slot -> 0 .. MaxConn] /\ ws_fd_map \in [Fd -> 0 .. MaxConn]
      /\ ShuttingDown /\ NoReaper /\ NeverRecycled /\ Real /\ Own /\ Blank
  BY DEF OwnInv, TokenInv, Locks, TypeOK
<1> USE ThreadAssumption, BoundAssumption, NoJobAssumption, <1>0, JobTyped
    DEF ThreadsOK, NoReaper, Goto, Drop, CleanupPoint, MainPoint, WorkerPoint,
        Resting, Unslotted,
        Thread, kernelVars, slotVars, flagVars, loopVars, wsVars, threadVars,
        Own, Open, Slot, NoConn,
        New, Ending
<1>1. CASE EpollWait
  BY <1>1 DEF EpollWait, Report, Armed
<1>2. CASE TakeListener
  BY <1>2 DEF TakeListener
<1>3. CASE AcceptEnds
  BY <1>3 DEF AcceptEnds
<1>4. CASE CountConnection
  BY <1>4 DEF CountConnection
<1>5. CASE Activate
  BY <1>5 DEF Activate
<1>6. CASE ActivateOutOfRange
  BY <1>6 DEF ActivateOutOfRange
<1>7. CASE Refuse
  BY <1>7 DEF Refuse, CloseFd, Blank
<1>8. CASE AddToEpoll
  BY <1>8 DEF AddToEpoll, Drop
<1>9. CASE AddFails
  BY <1>9 DEF AddFails
<1>10. CASE PushAccepted
  BY <1>10 DEF PushAccepted, Channel!Offer, Drop
<1>11. CASE PushFails
  BY <1>11 DEF PushFails
<1>12. CASE LoopEnds
  BY <1>12 DEF LoopEnds
<1>13. CASE WorkersGone
  BY <1>13 DEF WorkersGone
<1>14. CASE DiscardQueue
  BY <1>14 DEF DiscardQueue, Channel!Discard
<1>15. CASE Signal
  BY <1>15 DEF Signal, Channel!Close
<1>16. CASE ReapCollect
  BY <1>16 DEF ReapCollect
<1>17. ASSUME NEW f \in Fd, Accept(f)
       PROVE  Own'
  BY <1>17 DEF Accept
<1>18. ASSUME NEW e \in batch, HandleHup(e)
       PROVE  Own'
  BY <1>18 DEF HandleHup, Handle
<1>19. ASSUME NEW e \in batch, HandleIoStopping(e)
       PROVE  Own'
  BY <1>19 DEF HandleIoStopping, Handle
<1>20. ASSUME NEW e \in batch, HandleIoInactive(e)
       PROVE  Own'
  BY <1>20 DEF HandleIoInactive
<1>21. ASSUME NEW e \in batch, HandleIo(e)
       PROVE  Own'
  BY <1>21 DEF HandleIo, Handle
<1>22. ASSUME NEW t \in Thread, Uncount(t)
       PROVE  Own'
  BY <1>22 DEF Uncount
<1>23. ASSUME NEW t \in Thread, CleanupDel(t)
       PROVE  Own'
  BY <1>23 DEF CleanupDel
<1>24. ASSUME NEW t \in Thread, CleanupLock(t)
       PROVE  Own'
  BY <1>24 DEF CleanupLock
<1>25. ASSUME NEW t \in Thread, CleanupReset(t)
       PROVE  Own'
  BY <1>25 DEF CleanupReset
<1>26. ASSUME NEW t \in Thread, CleanupClose(t)
       PROVE  Own'
  BY <1>26 DEF CleanupClose, CloseFd, Blank
<1>27. ASSUME NEW t \in Thread, CleanupUnlock(t)
       PROVE  Own'
  BY <1>27 DEF CleanupUnlock, CleanupEnd, Drop
<1>28. ASSUME NEW w \in Worker, PopJob(w)
       PROVE  Own'
  BY <1>28 DEF PopJob, Channel!Take
<1>29. ASSUME NEW w \in Worker, WorkerExits(w)
       PROVE  Own'
  BY <1>29 DEF WorkerExits
<1>30. ASSUME NEW w \in Worker, CheckActive(w)
       PROVE  Own'
  BY <1>30 DEF CheckActive
<1>31. ASSUME NEW w \in Worker, CheckGeneration(w)
       PROVE  Own'
  BY <1>31 DEF CheckGeneration
<1>32. ASSUME NEW w \in Worker, LockSlot(w)
       PROVE  Own'
  BY <1>32 DEF LockSlot
<1>33. ASSUME NEW w \in Worker, Recheck(w)
       PROVE  Own'
  BY <1>33 DEF Recheck, IsValid
<1>34. ASSUME NEW w \in Worker, Dispatch(w)
       PROVE  Own'
  BY <1>34 DEF Dispatch
<1>35. ASSUME NEW w \in Worker, DispatchUpgrade(w)
       PROVE  Own'
  BY <1>35 DEF DispatchUpgrade
<1>36. ASSUME NEW w \in Worker, DispatchFrames(w)
       PROVE  Own'
  BY <1>36 DEF DispatchFrames
<1>37. ASSUME NEW w \in Worker, Rearm(w)
       PROVE  Own'
  BY <1>37 DEF Rearm
<1>38. ASSUME NEW w \in Worker, UnlockSlot(w)
       PROVE  Own'
  BY <1>38 DEF UnlockSlot
<1>39. ASSUME NEW w \in Worker, MarkIdle(w)
       PROVE  Own'
  BY <1>39 DEF MarkIdle, Drop
<1>40. ASSUME NEW f \in Fd, ReapClose(f)
       PROVE  Own'
  BY <1>40 DEF ReapClose, CloseFd
<1>41. ASSUME NEW f \in Fd, ReapRemove(f)
       PROVE  Own'
  BY <1>41 DEF ReapRemove
<1>42. CASE UNCHANGED vars
  BY <1>42 DEF vars
<1> QED
  BY <1>1, <1>2, <1>3, <1>4, <1>5, <1>6, <1>7, <1>8, <1>9, <1>10, <1>11, <1>12,
     <1>13, <1>14, <1>15, <1>16, <1>17, <1>18, <1>19, <1>20, <1>21, <1>22, <1>23,
     <1>24, <1>25, <1>26, <1>27, <1>28, <1>29, <1>30, <1>31, <1>32, <1>33, <1>34,
     <1>35, <1>36, <1>37, <1>38, <1>39, <1>40, <1>41, <1>42
  DEF Next, MainStep, WorkerStep, ReaperStep, Cleanup, Thread

LEMMA BlankStep ==
  ASSUME ~Reaping, OwnInv, [Next]_vars
  PROVE  Blank'
<1>0. /\ TypeOK /\ ThreadsOK
      /\ sock \in [Fd -> 0 .. MaxConn] /\ accepted \in Nat
      /\ session \in [Slot -> 0 .. MaxConn] /\ ws_fd_map \in [Fd -> 0 .. MaxConn]
      /\ ShuttingDown /\ NoReaper /\ Fresh /\ LockHolders /\ Own /\ Blank /\ TokenInv
  BY DEF OwnInv, TokenInv, Locks, TypeOK
<1> USE ThreadAssumption, BoundAssumption, NoJobAssumption, <1>0, JobTyped
    DEF ThreadsOK, NoReaper, Goto, Drop, CleanupPoint, MainPoint, WorkerPoint,
        Resting, Unslotted,
        Thread, kernelVars, slotVars, flagVars, loopVars, wsVars, threadVars,
        Blank, Open, Slot, NoConn,
        New
<1>1. CASE EpollWait
  BY <1>1 DEF EpollWait, Report, Armed
<1>2. CASE TakeListener
  BY <1>2 DEF TakeListener
<1>3. CASE AcceptEnds
  BY <1>3 DEF AcceptEnds
<1>4. CASE CountConnection
  BY <1>4 DEF CountConnection
<1>5. CASE Activate
  BY <1>5 DEF Activate
<1>6. CASE ActivateOutOfRange
  BY <1>6 DEF ActivateOutOfRange
<1>7. CASE Refuse
  BY <1>7 DEF Refuse, CloseFd, Drop
<1>8. CASE AddToEpoll
  BY <1>8 DEF AddToEpoll, Drop
<1>9. CASE AddFails
  BY <1>9 DEF AddFails
<1>10. CASE PushAccepted
  BY <1>10 DEF PushAccepted, Channel!Offer, Drop
<1>11. CASE PushFails
  BY <1>11 DEF PushFails
<1>12. CASE LoopEnds
  BY <1>12 DEF LoopEnds
<1>13. CASE WorkersGone
  BY <1>13 DEF WorkersGone
<1>14. CASE DiscardQueue
  BY <1>14 DEF DiscardQueue, Channel!Discard
<1>15. CASE Signal
  BY <1>15 DEF Signal, Channel!Close
<1>16. CASE ReapCollect
  BY <1>16 DEF ReapCollect
<1>17. ASSUME NEW f \in Fd, Accept(f)
       PROVE  Blank'
  BY <1>17 DEF Accept, Own
<1>18. ASSUME NEW e \in batch, HandleHup(e)
       PROVE  Blank'
  BY <1>18 DEF HandleHup, Handle
<1>19. ASSUME NEW e \in batch, HandleIoStopping(e)
       PROVE  Blank'
  BY <1>19 DEF HandleIoStopping, Handle
<1>20. ASSUME NEW e \in batch, HandleIoInactive(e)
       PROVE  Blank'
  BY <1>20 DEF HandleIoInactive
<1>21. ASSUME NEW e \in batch, HandleIo(e)
       PROVE  Blank'
  BY <1>21 DEF HandleIo, Handle
<1>22. ASSUME NEW t \in Thread, Uncount(t)
       PROVE  Blank'
  BY <1>22 DEF Uncount
<1>23. ASSUME NEW t \in Thread, CleanupDel(t)
       PROVE  Blank'
  BY <1>23 DEF CleanupDel
<1>24. ASSUME NEW t \in Thread, CleanupLock(t)
       PROVE  Blank'
  BY <1>24 DEF CleanupLock
<1>25. ASSUME NEW t \in Thread, CleanupReset(t)
       PROVE  Blank'
  BY <1>25 DEF CleanupReset
<1>26. ASSUME NEW t \in Thread, CleanupClose(t)
       PROVE  Blank'
  BY <1>26 DEF CleanupClose, CloseFd
<1>27. ASSUME NEW t \in Thread, CleanupUnlock(t)
       PROVE  Blank'
  BY <1>27 DEF CleanupUnlock, CleanupEnd, Drop
<1>28. ASSUME NEW w \in Worker, PopJob(w)
       PROVE  Blank'
  BY <1>28 DEF PopJob, Channel!Take
<1>29. ASSUME NEW w \in Worker, WorkerExits(w)
       PROVE  Blank'
  BY <1>29 DEF WorkerExits
<1>30. ASSUME NEW w \in Worker, CheckActive(w)
       PROVE  Blank'
  BY <1>30 DEF CheckActive
<1>31. ASSUME NEW w \in Worker, CheckGeneration(w)
       PROVE  Blank'
  BY <1>31 DEF CheckGeneration
<1>32. ASSUME NEW w \in Worker, LockSlot(w)
       PROVE  Blank'
  BY <1>32 DEF LockSlot
<1>33. ASSUME NEW w \in Worker, Recheck(w)
       PROVE  Blank'
  BY <1>33 DEF Recheck, IsValid
<1>34. ASSUME NEW w \in Worker, Dispatch(w)
       PROVE  Blank'
  <2>1. \A t \in Thread \ {w} : pc[t] \in {"close", "refused", "add", "count", "activate"} => job[t].fd # job[w].fd
    BY <1>34, Sole DEF Dispatch, Holds
  <2> QED
    BY <1>34, <2>1 DEF Dispatch
<1>35. ASSUME NEW w \in Worker, DispatchUpgrade(w)
       PROVE  Blank'
  <2>1. \A t \in Thread \ {w} : pc[t] \in {"close", "refused", "add", "count", "activate"} => job[t].fd # job[w].fd
    BY <1>35, Sole DEF DispatchUpgrade, Holds
  <2> QED
    BY <1>35, <2>1 DEF DispatchUpgrade
<1>36. ASSUME NEW w \in Worker, DispatchFrames(w)
       PROVE  Blank'
  BY <1>36 DEF DispatchFrames
<1>37. ASSUME NEW w \in Worker, Rearm(w)
       PROVE  Blank'
  BY <1>37 DEF Rearm
<1>38. ASSUME NEW w \in Worker, UnlockSlot(w)
       PROVE  Blank'
  BY <1>38 DEF UnlockSlot
<1>39. ASSUME NEW w \in Worker, MarkIdle(w)
       PROVE  Blank'
  BY <1>39 DEF MarkIdle, Drop
<1>40. ASSUME NEW f \in Fd, ReapClose(f)
       PROVE  Blank'
  BY <1>40 DEF ReapClose, CloseFd
<1>41. ASSUME NEW f \in Fd, ReapRemove(f)
       PROVE  Blank'
  BY <1>41 DEF ReapRemove
<1>42. CASE UNCHANGED vars
  BY <1>42 DEF vars
<1> QED
  BY <1>1, <1>2, <1>3, <1>4, <1>5, <1>6, <1>7, <1>8, <1>9, <1>10, <1>11, <1>12,
     <1>13, <1>14, <1>15, <1>16, <1>17, <1>18, <1>19, <1>20, <1>21, <1>22, <1>23,
     <1>24, <1>25, <1>26, <1>27, <1>28, <1>29, <1>30, <1>31, <1>32, <1>33, <1>34,
     <1>35, <1>36, <1>37, <1>38, <1>39, <1>40, <1>41, <1>42
  DEF Next, MainStep, WorkerStep, ReaperStep, Cleanup, Thread

(* The three counts of CounterExact.                                       *)
Closers == {t \in Thread : pc[t] \in {"del", "lockslot", "reset", "close"}}
Uncounted == {t \in {Main} : pc[t] = "count"}
OpenFds == {f \in Fd : Open(f)}

LEMMA CountsFinite ==
  /\ IsFiniteSet(Closers) /\ IsFiniteSet(Uncounted) /\ IsFiniteSet(OpenFds)
  /\ Cardinality(Closers) \in Nat /\ Cardinality(Uncounted) \in Nat /\ Cardinality(OpenFds) \in Nat
<1>1. IsFiniteSet(Thread)
  BY ThreadAssumption, FS_AddElement DEF Thread
<1>2. Closers \subseteq Thread /\ Uncounted \subseteq Thread /\ OpenFds \subseteq Fd
  BY DEF Closers, Uncounted, OpenFds, Thread
<1> QED
  BY <1>1, <1>2, BoundAssumption, FS_Subset, FS_CardinalityType

LEMMA CountersAre ==
  CounterExact <=>
    (server_running =>
       active_connections + Cardinality(Closers) + Cardinality(Uncounted) = Cardinality(OpenFds))
BY DEF CounterExact, Closers, Uncounted, OpenFds

LEMMA NoneOrMain == Cardinality({}) = 0 /\ Cardinality({Main}) = 1
BY FS_EmptySet, FS_Singleton

LEMMA OneLess ==
  ASSUME NEW S, IsFiniteSet(S), NEW x \in S
  PROVE  Cardinality(S \ {x}) = Cardinality(S) - 1
BY FS_RemoveElement

(* A step that changes the counter as it changes the counts. *)
LEMMA Balanced ==
  ASSUME CounterExact, active_connections \in Int, server_running' => server_running,
         NEW c \in Int, NEW u \in Int, NEW o \in Int,
         Cardinality(Closers)' = Cardinality(Closers) + c,
         Cardinality(Uncounted)' = Cardinality(Uncounted) + u,
         Cardinality(OpenFds)' = Cardinality(OpenFds) + o,
         active_connections' = active_connections + o - c - u
  PROVE  CounterExact'
<1> DEFINE Exact == server_running =>
             active_connections + Cardinality(Closers) + Cardinality(Uncounted) = Cardinality(OpenFds)
<1>1. Exact /\ (Exact' => CounterExact')
  BY DEF CounterExact, Closers, Uncounted, OpenFds
<1>2. Exact'
  BY <1>1, CountsFinite
<1> QED
  BY <1>1, <1>2

(* A step that moves nobody in or out of the counts. *)
LEMMA SameCounts ==
  ASSUME CounterExact, server_running' => server_running,
         active_connections' = active_connections,
         \A t \in Thread : t \in Closers' <=> t \in Closers,
         pc'[Main] = "count" <=> pc[Main] = "count",
         \A f \in Fd : sock'[f] = NoConn <=> sock[f] = NoConn
  PROVE  CounterExact'
<1>1. Closers' = Closers /\ Uncounted' = Uncounted /\ OpenFds' = OpenFds
  BY DEF Closers, Uncounted, OpenFds, Open
<1> QED
  BY <1>1 DEF CounterExact, Closers, Uncounted, OpenFds

LEMMA CounterStep ==
  ASSUME ~Reaping, OwnInv, [Next]_vars
  PROVE  CounterExact'
<1>0. /\ TypeOK /\ ThreadsOK
      /\ sock \in [Fd -> 0 .. MaxConn] /\ accepted \in Nat /\ active_connections \in Int
      /\ ShuttingDown /\ NoReaper /\ NeverRecycled /\ Real /\ CounterExact
  BY DEF OwnInv, TokenInv, Locks, TypeOK
<1> USE ThreadAssumption, NoJobAssumption, <1>0, JobTyped
    DEF ThreadsOK, NoReaper, Goto, Drop, CleanupPoint, MainPoint, WorkerPoint, Resting,
        Thread, kernelVars, slotVars, flagVars, loopVars, wsVars, threadVars, Closers
<1>1. CASE EpollWait
  BY <1>1, SameCounts DEF EpollWait, Report, Armed
<1>2. CASE TakeListener
  BY <1>2, SameCounts DEF TakeListener
<1>3. CASE AcceptEnds
  BY <1>3, SameCounts DEF AcceptEnds
<1>4. CASE CountConnection
  <2>1. /\ pc[Main] = "count" /\ active_connections' = active_connections + 1 /\ sock' = sock
        /\ pc' = [pc EXCEPT ![Main] = "activate"] /\ server_running' = server_running
    BY <1>4 DEF CountConnection
  <2>2. /\ Closers' = Closers
        /\ Uncounted = {Main} /\ Uncounted' = {}
        /\ OpenFds' = OpenFds
    BY <2>1 DEF Uncounted, OpenFds, Open
  <2> HIDE DEF Closers
  <2>3. Cardinality(Closers)' = Cardinality(Closers)
    BY <2>2
  <2>4. Cardinality(Uncounted)' = Cardinality(Uncounted) - 1
    BY <2>2, NoneOrMain
  <2>5. Cardinality(OpenFds)' = Cardinality(OpenFds)
    BY <2>2
  <2> QED
    BY <2>1, <2>3, <2>4, <2>5, CountsFinite, Balanced
<1>5. CASE Activate
  BY <1>5, SameCounts DEF Activate
<1>6. CASE ActivateOutOfRange
  BY <1>6, SameCounts DEF ActivateOutOfRange
<1>7. CASE Refuse
  <2>1. /\ pc[Main] = "refused" /\ active_connections' = active_connections - 1
        /\ sock' = [sock EXCEPT ![job[Main].fd] = NoConn]
        /\ pc' = [pc EXCEPT ![Main] = "loop"] /\ server_running' = server_running
    BY <1>7 DEF Refuse, CloseFd
  <2>2. job[Main].fd \in Fd /\ sock[job[Main].fd] # NoConn
    BY <2>1 DEF NeverRecycled, Real
  <2>3. /\ Closers' = Closers
        /\ Uncounted = {} /\ Uncounted' = {}
        /\ job[Main].fd \in OpenFds /\ OpenFds' = OpenFds \ {job[Main].fd}
    BY <2>1, <2>2 DEF Uncounted, OpenFds, Open
  <2> HIDE DEF Closers
  <2>4. Cardinality(Closers)' = Cardinality(Closers)
    BY <2>3
  <2>5. Cardinality(Uncounted)' = Cardinality(Uncounted)
    BY <2>3
  <2>6. Cardinality(OpenFds)' = Cardinality(OpenFds) - 1
    BY <2>3, CountsFinite, OneLess
  <2> QED
    BY <2>1, <2>4, <2>5, <2>6, CountsFinite, Balanced, SMTT(30)
<1>8. CASE AddToEpoll
  BY <1>8, SameCounts DEF AddToEpoll, Drop
<1>9. CASE AddFails
  BY <1>9, SameCounts DEF AddFails
<1>10. CASE PushAccepted
  BY <1>10, SameCounts DEF PushAccepted, Channel!Offer, Drop
<1>11. CASE PushFails
  BY <1>11, SameCounts DEF PushFails
<1>12. CASE LoopEnds
  BY <1>12, SameCounts DEF LoopEnds
<1>13. CASE WorkersGone
  BY <1>13, SameCounts DEF WorkersGone
<1>14. CASE DiscardQueue
  BY <1>14 DEF DiscardQueue, ShuttingDown, Ending, CounterExact
<1>15. CASE Signal
  BY <1>15, SameCounts DEF Signal, Channel!Close
<1>16. CASE ReapCollect
  BY <1>16, SameCounts DEF ReapCollect
<1>17. ASSUME NEW f \in Fd, Accept(f)
       PROVE  CounterExact'
  <2>1. /\ pc[Main] = "accept" /\ sock[f] = NoConn /\ active_connections' = active_connections
        /\ sock' = [sock EXCEPT ![f] = accepted + 1] /\ accepted + 1 # NoConn
        /\ pc' = [pc EXCEPT ![Main] = "count"] /\ server_running' = server_running
    BY <1>17 DEF Accept, NoConn
  <2>2. /\ Closers' = Closers
        /\ Uncounted = {} /\ Uncounted' = {Main}
        /\ f \notin OpenFds /\ OpenFds' = OpenFds \cup {f}
    BY <2>1 DEF Uncounted, OpenFds, Open
  <2> HIDE DEF Closers
  <2>3. Cardinality(Closers)' = Cardinality(Closers)
    BY <2>2
  <2>4. Cardinality(Uncounted)' = Cardinality(Uncounted) + 1
    BY <2>2, NoneOrMain
  <2>5. Cardinality(OpenFds)' = Cardinality(OpenFds) + 1
    BY <2>2, CountsFinite, FS_AddElement
  <2> QED
    BY <2>1, <2>3, <2>4, <2>5, CountsFinite, Balanced
<1>18. ASSUME NEW e \in batch, HandleHup(e)
       PROVE  CounterExact'
  BY <1>18, SameCounts DEF HandleHup, Handle
<1>19. ASSUME NEW e \in batch, HandleIoStopping(e)
       PROVE  CounterExact'
  BY <1>19 DEF HandleIoStopping, Handle, CounterExact
<1>20. ASSUME NEW e \in batch, HandleIoInactive(e)
       PROVE  CounterExact'
  BY <1>20, SameCounts DEF HandleIoInactive
<1>21. ASSUME NEW e \in batch, HandleIo(e)
       PROVE  CounterExact'
  BY <1>21, SameCounts DEF HandleIo, Handle
<1>22. ASSUME NEW t \in Thread, Uncount(t)
       PROVE  CounterExact'
  <2>1. /\ pc[t] = "uncount" /\ active_connections' = active_connections - 1 /\ sock' = sock
        /\ pc' = [pc EXCEPT ![t] = "del"] /\ server_running' = server_running
    BY <1>22 DEF Uncount
  <2>2. /\ t \notin Closers /\ Closers' = Closers \cup {t}
        /\ Uncounted' = Uncounted /\ OpenFds' = OpenFds
    BY <2>1 DEF Uncounted, OpenFds, Open
  <2> HIDE DEF Closers
  <2>3. Cardinality(Closers)' = Cardinality(Closers) + 1
    BY <2>2, CountsFinite, FS_AddElement
  <2>4. Cardinality(Uncounted)' = Cardinality(Uncounted)
    BY <2>2
  <2>5. Cardinality(OpenFds)' = Cardinality(OpenFds)
    BY <2>2
  <2> QED
    BY <2>1, <2>3, <2>4, <2>5, CountsFinite, Balanced
<1>23. ASSUME NEW t \in Thread, CleanupDel(t)
       PROVE  CounterExact'
  BY <1>23, SameCounts DEF CleanupDel
<1>24. ASSUME NEW t \in Thread, CleanupLock(t)
       PROVE  CounterExact'
  BY <1>24, SameCounts DEF CleanupLock
<1>25. ASSUME NEW t \in Thread, CleanupReset(t)
       PROVE  CounterExact'
  BY <1>25, SameCounts DEF CleanupReset
<1>26. ASSUME NEW t \in Thread, CleanupClose(t)
       PROVE  CounterExact'
  <2>1. /\ pc[t] = "close" /\ active_connections' = active_connections
        /\ sock' = [sock EXCEPT ![job[t].fd] = NoConn]
        /\ pc' = [pc EXCEPT ![t] = "release"] /\ server_running' = server_running
    BY <1>26 DEF CleanupClose, CloseFd
  <2>2. job[t].fd \in Fd /\ sock[job[t].fd] # NoConn
    BY <2>1 DEF NeverRecycled, Real
  <2>3. /\ t \in Closers /\ Closers' = Closers \ {t}
        /\ Uncounted' = Uncounted
        /\ job[t].fd \in OpenFds /\ OpenFds' = OpenFds \ {job[t].fd}
    BY <2>1, <2>2 DEF Uncounted, OpenFds, Open
  <2> HIDE DEF Closers
  <2>4. Cardinality(Closers)' = Cardinality(Closers) - 1
    BY <2>3, CountsFinite, OneLess
  <2>5. Cardinality(Uncounted)' = Cardinality(Uncounted)
    BY <2>3
  <2>6. Cardinality(OpenFds)' = Cardinality(OpenFds) - 1
    BY <2>3, CountsFinite, OneLess
  <2>7. /\ Cardinality(Closers)' = Cardinality(Closers) + (-1)
         /\ Cardinality(Uncounted)' = Cardinality(Uncounted) + 0
         /\ Cardinality(OpenFds)' = Cardinality(OpenFds) + (-1)
         /\ active_connections' = active_connections + (-1) - (-1) - 0
    BY <2>1, <2>4, <2>5, <2>6, CountsFinite
  <2>8. -1 \in Int /\ 0 \in Int
    OBVIOUS
  <2>9. server_running' => server_running
    BY <2>1
  <2> QED
    BY <2>7, <2>8, <2>9, Balanced
<1>27. ASSUME NEW t \in Thread, CleanupUnlock(t)
       PROVE  CounterExact'
  BY <1>27, SameCounts DEF CleanupUnlock, CleanupEnd, Drop
<1>28. ASSUME NEW w \in Worker, PopJob(w)
       PROVE  CounterExact'
  BY <1>28, SameCounts DEF PopJob, Channel!Take
<1>29. ASSUME NEW w \in Worker, WorkerExits(w)
       PROVE  CounterExact'
  BY <1>29, SameCounts DEF WorkerExits
<1>30. ASSUME NEW w \in Worker, CheckActive(w)
       PROVE  CounterExact'
  BY <1>30, SameCounts DEF CheckActive
<1>31. ASSUME NEW w \in Worker, CheckGeneration(w)
       PROVE  CounterExact'
  BY <1>31, SameCounts DEF CheckGeneration
<1>32. ASSUME NEW w \in Worker, LockSlot(w)
       PROVE  CounterExact'
  BY <1>32, SameCounts DEF LockSlot
<1>33. ASSUME NEW w \in Worker, Recheck(w)
       PROVE  CounterExact'
  BY <1>33, SameCounts DEF Recheck, IsValid
<1>34. ASSUME NEW w \in Worker, Dispatch(w)
       PROVE  CounterExact'
  BY <1>34, SameCounts DEF Dispatch
<1>35. ASSUME NEW w \in Worker, DispatchUpgrade(w)
       PROVE  CounterExact'
  BY <1>35, SameCounts DEF DispatchUpgrade
<1>36. ASSUME NEW w \in Worker, DispatchFrames(w)
       PROVE  CounterExact'
  BY <1>36, SameCounts DEF DispatchFrames
<1>37. ASSUME NEW w \in Worker, Rearm(w)
       PROVE  CounterExact'
  BY <1>37, SameCounts DEF Rearm
<1>38. ASSUME NEW w \in Worker, UnlockSlot(w)
       PROVE  CounterExact'
  BY <1>38, SameCounts DEF UnlockSlot
<1>39. ASSUME NEW w \in Worker, MarkIdle(w)
       PROVE  CounterExact'
  BY <1>39, SameCounts DEF MarkIdle, Drop
<1>40. ASSUME NEW f \in Fd, ReapClose(f)
       PROVE  CounterExact'
  BY <1>40, SameCounts DEF ReapClose, CloseFd
<1>41. ASSUME NEW f \in Fd, ReapRemove(f)
       PROVE  CounterExact'
  BY <1>41, SameCounts DEF ReapRemove
<1>42. CASE UNCHANGED vars
  BY <1>42, SameCounts DEF vars
<1> QED
  BY <1>1, <1>2, <1>3, <1>4, <1>5, <1>6, <1>7, <1>8, <1>9, <1>10, <1>11, <1>12,
     <1>13, <1>14, <1>15, <1>16, <1>17, <1>18, <1>19, <1>20, <1>21, <1>22, <1>23,
     <1>24, <1>25, <1>26, <1>27, <1>28, <1>29, <1>30, <1>31, <1>32, <1>33, <1>34,
     <1>35, <1>36, <1>37, <1>38, <1>39, <1>40, <1>41, <1>42
  DEF Next, MainStep, WorkerStep, ReaperStep, Cleanup, Thread

LEMMA InitOwn == Init => OwnInv
<1> SUFFICES ASSUME Init PROVE OwnInv
  OBVIOUS
<1>1. /\ \A f \in Slot : session[f] = NoConn /\ ws_fd_map[f] = NoConn
      /\ \A t \in Thread : pc[t] \in {"loop", "pop"}
      /\ \A f \in Fd : sock[f] = NoConn
      /\ active_connections = 0
      /\ Main \in Thread
  BY DEF Init, Slot, Thread
<1>2. Own /\ Blank
  BY <1>1 DEF Own, Blank, New
<1>3. Closers = {} /\ Uncounted = {} /\ OpenFds = {}
  BY <1>1 DEF Closers, Uncounted, OpenFds, Open
<1>4. CounterExact
  BY <1>1, <1>3, FS_EmptySet, CountersAre
<1> QED
  BY <1>2, <1>4, InitTokens DEF OwnInv

LEMMA OwnInvStep ==
  ASSUME ~Reaping
  PROVE  OwnInv /\ [Next]_vars => OwnInv'
BY TokenStep, OwnStep, BlankStep, CounterStep DEF OwnInv

LEMMA OwnInvOwnSlot == OwnInv => OwnSlot
<1> SUFFICES ASSUME OwnInv PROVE OwnSlot
  OBVIOUS
<1>1. OwnState
  BY DEF OwnInv, Own, OwnState
<1>2. SocketStays
  BY DEF OwnInv, TokenInv, Locks, TypeOK, ThreadsOK, Thread, Resting, NeverRecycled,
     SocketStays
<1> QED
  BY <1>1, <1>2 DEF OwnInv, OwnSlot

(* A slot has the session and the websocket mark of the connection behind  *)
(* its descriptor, a worker keeps the socket it locked the slot for, and   *)
(* active_connections is exactly the number of open client sockets, up to  *)
(* those that main and the cleanups are just counting.                     *)
THEOREM OwnSlotCorrect ==
  ASSUME ~Reaping
  PROVE  Spec => []OwnSlot
BY InitOwn, OwnInvStep, OwnInvOwnSlot, PTL DEF Spec
=============================================================================
