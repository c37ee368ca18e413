-------------------------- MODULE ConnLifecycleProps --------------------------
(***************************************************************************)
(* What holds of a connection between accept and close.                    *)
(***************************************************************************)
EXTENDS ConnLifecycle

Open(f) == sock[f] # NoConn

(* Where the event of f is: main has it in its batch, it is queued, or a   *)
(* thread handles it and has neither rearmed nor closed the descriptor.    *)
Batched(f)  == {e \in batch : e.fd = f}
Tasks(f)    == {i \in DOMAIN queue : queue[i].fd = f}
Handling(f) == {t \in Thread : /\ job[t] # NoJob /\ job[t].fd = f
                               /\ pc[t] \notin {"unlock", "release", "idle"}}

(* A thread has a job exactly while it handles a descriptor, and only main *)
(* ever handles a number without a slot, before it refuses it.             *)
Resting == {"loop", "accept", "stopping", "discard", "stopped", "pop", "exited"}
Unslotted == {"count", "activate", "refused"}
ThreadsOK ==
  /\ pc \in [Thread -> MainPoint \cup WorkerPoint]
  /\ pc[Main] \in MainPoint
  /\ \A w \in Worker : pc[w] \in WorkerPoint
  /\ job \in [Thread -> Job \cup {NoJob}]
  /\ \A t \in Thread : job[t] = NoJob <=> pc[t] \in Resting
  /\ \A t \in Thread :
       job[t] # NoJob /\ pc[t] \notin Unslotted => job[t].fd \in Slot

(* Every variable keeps its type, and only a number with a slot is ever    *)
(* watched.                                                                *)
TypeOK ==
  /\ sock \in [Fd -> 0 .. MaxConn]
  /\ watch \in [Fd -> Watch]
  /\ \A f \in OutOfRange : watch[f] = "none"
  /\ accepted \in 0 .. MaxConn
  /\ generation \in [Slot -> 0 .. GenModulus - 1]
  /\ active \in [Slot -> BOOLEAN]
  /\ session \in [Slot -> 0 .. MaxConn]
  /\ io_lock \in [Slot -> Thread \cup {NoThread}]
  /\ active_connections \in Int
  /\ server_running \in BOOLEAN
  /\ is_running \in BOOLEAN
  /\ batch \subseteq [fd : Slot, conn : 0 .. MaxConn, hup : BOOLEAN]
  /\ listener \in {"quiet", "ready", "accepting"}
  /\ queue \in Seq(Job)
  /\ \A i \in DOMAIN queue : queue[i].fd \in Slot
  /\ ThreadsOK
  /\ ws_fd_map \in [Fd -> 0 .. MaxConn]
  /\ registry \in [Fd -> 0 .. MaxConn]
  /\ victims \subseteq Fd
  /\ reaping \subseteq Fd

(* io_lock is held by exactly the threads that are inside its region.      *)
Region == {"recheck", "dispatch", "rearm", "unlock", "unlockclose",
           "reset", "close", "release"}
LockHolders ==
  \A f \in Slot, t \in Thread :
    io_lock[f] = t <=> job[t] # NoJob /\ job[t].fd = f /\ pc[t] \in Region

(* A worker enters http_bridge_dispatch only with the lock of the slot and *)
(* an event of the lifetime the slot is in: the unlocked check alone would *)
(* let a cleanup or an accept come between.                                *)
DispatchCurrent ==
  \A w \in Worker :
    pc[w] = "dispatch" => io_lock[job[w].fd] = w /\ IsValid(job[w])

(* EPOLLONESHOT makes the event of a descriptor a token: one of main's     *)
(* batch, the queue and the threads has it, nobody while the descriptor is *)
(* armed; so no two workers ever serve one connection.                     *)
OneToken ==
  \A f \in Slot :
    /\ \A d, e \in Batched(f) : d = e
    /\ \A i, j \in Tasks(f) : i = j
    /\ \A s, t \in Handling(f) : s = t
    /\ Batched(f) # {} => Tasks(f) = {} /\ Handling(f) = {}
    /\ Tasks(f) # {} => Handling(f) = {}
    /\ watch[f] = "armed" => Batched(f) \cup Tasks(f) \cup Handling(f) = {}

(* An open connection that is not armed is not forgotten: somebody has its *)
(* token.                                                                  *)
NotStranded ==
  \A f \in Slot :
    Open(f) /\ watch[f] = "silent" =>
      Batched(f) # {} \/ Tasks(f) # {} \/ Handling(f) # {}

(* Whatever is on its way for a descriptor is for the connection that is   *)
(* still behind it: without the reaper nothing closes a descriptor whose   *)
(* event somebody holds, so its number cannot be reused meanwhile.         *)
NeverRecycled ==
  /\ \A e \in batch : sock[e.fd] = e.conn
  /\ \A i \in DOMAIN queue : sock[queue[i].fd] = queue[i].conn
  /\ \A t \in Thread :
       job[t] # NoJob /\ pc[t] \notin {"release", "idle"} =>
         sock[job[t].fd] = job[t].conn

(* The token of a descriptor is unique, never lost, and never outlives the  *)
(* connection it is for.                                                   *)
Tokens == OneToken /\ NotStranded /\ NeverRecycled

(* The state kept for a descriptor belongs to the connection behind it:    *)
(* its protocol session, and the mark that it speaks websocket.            *)
OwnState ==
  \A f \in Slot :
    Open(f) /\ active[f] =>
      /\ session[f] \in {NoConn, sock[f]}
      /\ ws_fd_map[f] \in {NoConn, sock[f]}

(* active_connections counts the open client sockets; main has counted and *)
(* a cleaning thread uncounted the one it is at.  (Once server_running is  *)
(* 0, core_event_loop_run cleans up without uncounting.)                   *)
CounterExact ==
  server_running =>
    active_connections
      + Cardinality({t \in Thread : pc[t] \in {"del", "lockslot", "reset", "close"}})
      + Cardinality({t \in {Main} : pc[t] = "count"})
    = Cardinality({f \in Fd : Open(f)})

(* While a thread holds io_lock no other thread changes the slot.          *)
HolderChanges ==
  \A f \in Slot :
    io_lock[f] # NoThread /\ io_lock'[f] = io_lock[f]
      /\ (generation[f] # generation'[f] \/ active[f] # active'[f]
            \/ session[f] # session'[f])
    => pc[io_lock[f]] # pc'[io_lock[f]]

SlotProtected == [][HolderChanges]_vars

(* The socket a worker talks to under io_lock is not closed by another     *)
(* thread: it stays the connection the worker locked the slot for.         *)
SocketStays ==
  \A w \in Worker :
    pc[w] \in {"dispatch", "rearm", "unlock", "unlockclose"} =>
      sock[job[w].fd] = job[w].conn

(* What the server keeps of a connection is true of it: the slot has its    *)
(* state, the worker its socket, and the counter counts it.                *)
OwnSlot == OwnState /\ SocketStays /\ CounterExact

(* The lock is where the code says, and a dispatch runs under it on a slot  *)
(* that is current.                                                        *)
Locking == LockHolders /\ DispatchCurrent

(* A thread closes the connection it decided to close, not one that got    *)
(* the number since: a stale event is noticed.                             *)
CloseOwn ==
  \A t \in Thread :
    pc[t] = "close" => sock[job[t].fd] \in {NoConn, job[t].conn}

(***************************************************************************)
(* Liveness.  Main and every worker are scheduled again; a dispatch need   *)
(* not end (see TaskQueueProps).                                           *)
(***************************************************************************)
Fairness ==
  /\ WF_vars(MainStep)
  /\ \A w \in Worker : WF_vars(WorkerStep(w) /\ pc[w] # "dispatch")

FairSpec == Spec /\ Fairness

(* No dispatch lasts for ever, with io_lock held. *)
DispatchesEnd == \A w \in Worker : []<>(pc[w] # "dispatch")

(* A reported connection is rearmed or closed: no client waits forever     *)
(* behind a descriptor that is not armed.                                  *)
Served ==
  \A f \in Slot : watch[f] = "silent" ~> watch[f] # "silent"

(* After the signal the loop and the workers end.                          *)
Stops == ~server_running ~> pc[Main] = "stopped"

(* Around the dispatches nobody waits for ever, neither a client nor the   *)
(* shutdown: as long as every dispatch ends, both are reached.             *)
Ended == DispatchesEnd => Served /\ Stops
=============================================================================
