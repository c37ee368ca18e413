--------------------------- MODULE WsRegistry_proofs ---------------------------
(***************************************************************************)
(* The registry of WebSocket clients for every number of threads, clients, *)
(* topics and names.                                                       *)
(*                                                                         *)
(* The argument goes up in layers.  Shape: types, and what a thread has at *)
(* hand at each of its steps.  LocksInv: a mutex is held exactly at the    *)
(* steps that hold it.  Tidy: the slots, the descriptors and the           *)
(* connections behind them agree.  Books is the three together; the tables *)
(* and the lock hierarchy follow from it, the reaper included.  Names adds *)
(* user_map, if what is kept of a name is found under the name.  NoReap    *)
(* and Subs add the topics, if no client falls silent and a client has     *)
(* room for every topic: a removal by the reaper beside a subscription, or *)
(* a topic that was not recorded, breaks them.                             *)
(***************************************************************************)
EXTENDS WsRegistryProps, FiniteSetTheorems, WellFoundedInduction, SequenceTheorems, TLAPS

MemState == [st : {"none", "live", "freed", "reaped"}, fd : Fd \cup {None},
             is_active : BOOLEAN, seen : BOOLEAN,
             user_id : Name \cup {None}, topics : SUBSET Topic]
ThreadState == [pc : Step, op : Step \cup {None}, fd : Fd \cup {None},
                cl : Client \cup {0}, key : Key,
                todo : SUBSET (Client \cup Topic), dead : SUBSET Fd]

Removal     == {"deactivate", "forget", "unhash", "unsubscribe"}
Subscribing == {"subscribe", "insert", "record"}
Walking     == {"walk", "send"}
OnFd == {"add", "flag", "pong", "auth", "sub", "close", "remove", "unflag", "shut"}
          \cup Subscribing \cup Removal
OnClient == {"add", "send", "validate", "write"} \cup Subscribing \cup Removal

(* TypeOK without the number of slots, which takes the tables to prove.    *)
Types ==
  /\ mem \in [Client -> MemState]
  /\ clients \subseteq Client
  /\ fd_map \in [Fd -> Client \cup {None}]
  /\ current_count \in Int
  /\ buckets \in [Bucket -> SUBSET Client]
  /\ user_map \in [Place -> Seq(Client)]
  /\ ws_fd_map \in [Fd -> BOOLEAN]
  /\ conn \in [Fd -> Client \cup {0}]
  /\ accepted \in 0 .. MaxConn
  /\ upgraded \subseteq Client /\ snatched \subseteq Client
  /\ registry_lock \in Thread \cup {None} /\ hash_lock \in Thread \cup {None}
  /\ topic_lock \in [Bucket -> Thread \cup {None}]
  /\ client_lock \in [Client -> Thread \cup {None}]
  /\ th \in [Thread -> ThreadState]

(* What a thread has at hand at each step.                                 *)
Placed(t) ==
  LET s == th[t]
  IN  /\ s.pc = "idle" => s = Resting
      /\ s.pc \in OnFd => s.fd \in Fd
      /\ s.pc \in OnClient => s.cl \in Client
      /\ s.pc \in {"sub", "pub", "publish"} \cup Subscribing \/ s.op = "pub" => s.key \in Topic
      /\ s.pc \in {"auth", "private", "ipc"} => s.key \in Name
      /\ s.pc \in {"add", "pub", "heartbeat"} => s.op = s.pc
      /\ s.pc = "publish" => s.op = "pub"
      /\ s.pc = "broadcast" => s.op \in {"add", "broadcast"}
      /\ s.pc \in Walking => /\ s.op \in {"add", "broadcast", "heartbeat", "pub"}
                             /\ s.todo \subseteq Client
      /\ s.pc = "send" => s.cl \in s.todo
      /\ s.pc = "unsubscribe" => s.todo \subseteq Topic
      /\ t \in Worker => /\ s.pc # "idle" => s.fd \in Fd
                         /\ s.pc \notin {"heartbeat", "reap", "reaping"}
                         /\ s.op # "heartbeat"
      /\ t = Bridge => /\ s.pc \in {"idle", "auth", "ipc", "validate", "write", "broadcast"}
                                     \cup Walking
                       /\ s.op \notin {"add", "pub", "heartbeat"}
      /\ t = Maint => /\ s.pc \in {"idle", "heartbeat", "reap", "reaping", "remove"}
                                    \cup Walking \cup Removal
                      /\ s.op \in {None, "heartbeat"}

(* A client in a slot has a descriptor.                                    *)
Lent == \A c \in clients : mem[c].fd \in Fd

Shape == Types /\ Lent /\ \A t \in Thread : Placed(t)

LEMMA RestTyped == Resting \in ThreadState /\ Unborn \in MemState
BY DEF Resting, ThreadState, Step, Key, Unborn, MemState, Client

(* Names of operations are steps, and their keys are what they are about.  *)
LEMMA KeysTyped ==
  /\ \A op \in ClientOps \cup BridgeOps : \A k \in KeysOf(op) : k \in Key
  /\ \A op \in {"pub", "sub"} : KeysOf(op) = Topic
  /\ \A op \in {"auth", "private", "ipc", "identity"} : KeysOf(op) = Name
BY DEF KeysOf, Key, ClientOps, BridgeOps

LEMMA HashTyped ==
  /\ \A k \in Topic : Hash[k] \in Bucket
  /\ \A n \in Name : Slot[n] \in Place /\ CutSlot[n] \in Place
BY DEF Bucket, Place


(* Steps of a thread: the others keep their state.                         *)
Moved(t) == /\ th' \in [Thread -> ThreadState]
            /\ \A u \in Thread : u # t => th'[u] = th[u]
Kept(t) == /\ th'[t].op = th[t].op /\ th'[t].fd = th[t].fd
           /\ th'[t].key = th[t].key /\ th'[t].dead = th[t].dead
KeptAll(t) == Kept(t) /\ th'[t].cl = th[t].cl /\ th'[t].todo = th[t].todo
Rested(t) == th'[t] = Resting

LEMMA RestingFields ==
  /\ Resting.pc = "idle" /\ Resting.op = None /\ Resting.fd = None /\ Resting.cl = 0
  /\ Resting.key = None /\ Resting.todo = {} /\ Resting.dead = {}
  /\ Unborn.st = "none" /\ Unborn.topics = {} /\ Unborn.user_id = None
BY DEF Resting, Unborn

LEMMA GotoMoves ==
  ASSUME Types, NEW t \in Thread, NEW p \in Step, Goto(t, p)
  PROVE  Moved(t) /\ KeptAll(t) /\ th'[t].pc = p
<1>1. th \in [Thread -> ThreadState] /\ th[t] \in ThreadState
  BY DEF Types
<1> DEFINE s == [th[t] EXCEPT !.pc = p]
<1>2. s \in ThreadState /\ s.pc = p /\ s.op = th[t].op /\ s.fd = th[t].fd /\ s.cl = th[t].cl
      /\ s.key = th[t].key /\ s.todo = th[t].todo /\ s.dead = th[t].dead
  BY <1>1 DEF ThreadState
<1>3. th' = [th EXCEPT ![t] = s]
  BY <1>1 DEF Goto
<1> HIDE DEF s
<1> QED
  BY <1>1, <1>2, <1>3 DEF Moved, Kept, KeptAll

LEMMA RestMoves ==
  ASSUME Types, NEW t \in Thread, Rest(t)
  PROVE  Moved(t) /\ Rested(t)
BY RestTyped DEF Types, Rest, Moved, Rested

LEMMA TurnMoves ==
  ASSUME Types, NEW t \in Thread, NEW f \in Fd \cup {None}, NEW c \in Client \cup {0},
         NEW op \in Step, NEW k \in Key, Turn(t, f, c, op, k)
  PROVE  /\ Moved(t)
         /\ th'[t].pc = op /\ th'[t].op = op /\ th'[t].fd = f /\ th'[t].cl = c
         /\ th'[t].key = k /\ th'[t].todo = {} /\ th'[t].dead = {}
<1> DEFINE s == [Resting EXCEPT !.pc = op, !.op = op, !.fd = f, !.cl = c, !.key = k]
<1>1. s \in ThreadState /\ s.pc = op /\ s.op = op /\ s.fd = f /\ s.cl = c /\ s.key = k
      /\ s.todo = {} /\ s.dead = {}
  BY DEF ThreadState, Resting
<1>2. th' = [th EXCEPT ![t] = s]
  BY DEF Turn
<1> HIDE DEF s
<1> QED
  BY <1>1, <1>2 DEF Moved, Types

LEMMA ClientMoves ==
  ASSUME Types, NEW t \in Thread, NEW p \in Step, NEW c \in Client,
         th' = [th EXCEPT ![t].cl = c, ![t].pc = p]
  PROVE  Moved(t) /\ Kept(t) /\ th'[t].todo = th[t].todo /\ th'[t].cl = c /\ th'[t].pc = p
<1>1. th \in [Thread -> ThreadState] /\ th[t] \in ThreadState
  BY DEF Types
<1> DEFINE s == [th[t] EXCEPT !.cl = c, !.pc = p]
<1>2. s \in ThreadState /\ s.pc = p /\ s.op = th[t].op /\ s.fd = th[t].fd /\ s.cl = c
      /\ s.key = th[t].key /\ s.todo = th[t].todo /\ s.dead = th[t].dead
  BY <1>1 DEF ThreadState
<1>3. th' = [th EXCEPT ![t] = s]
  BY <1>1
<1> HIDE DEF s
<1> QED
  BY <1>1, <1>2, <1>3 DEF Moved, Kept

LEMMA TodoMoves ==
  ASSUME Types, NEW t \in Thread, NEW p \in Step, NEW S \in SUBSET (Client \cup Topic),
         th' = [th EXCEPT ![t].todo = S, ![t].pc = p]
  PROVE  Moved(t) /\ Kept(t) /\ th'[t].cl = th[t].cl /\ th'[t].todo = S /\ th'[t].pc = p
<1>1. th \in [Thread -> ThreadState] /\ th[t] \in ThreadState
  BY DEF Types
<1> DEFINE s == [th[t] EXCEPT !.todo = S, !.pc = p]
<1>2. s \in ThreadState /\ s.pc = p /\ s.op = th[t].op /\ s.fd = th[t].fd /\ s.cl = th[t].cl
      /\ s.key = th[t].key /\ s.todo = S /\ s.dead = th[t].dead
  BY <1>1 DEF ThreadState
<1>3. th' = [th EXCEPT ![t] = s]
  BY <1>1
<1> HIDE DEF s
<1> QED
  BY <1>1, <1>2, <1>3 DEF Moved, Kept

LEMMA LeftMoves ==
  ASSUME Types, NEW t \in Thread, NEW x, th' = [th EXCEPT ![t].todo = @ \ {x}]
  PROVE  /\ Moved(t) /\ Kept(t) /\ th'[t].cl = th[t].cl /\ th'[t].pc = th[t].pc
         /\ th'[t].todo = th[t].todo \ {x}
<1>1. th \in [Thread -> ThreadState] /\ th[t] \in ThreadState
  BY DEF Types
<1> DEFINE s == [th[t] EXCEPT !.todo = @ \ {x}]
<1>2. s \in ThreadState /\ s.pc = th[t].pc /\ s.op = th[t].op /\ s.fd = th[t].fd
      /\ s.cl = th[t].cl /\ s.key = th[t].key /\ s.todo = th[t].todo \ {x} /\ s.dead = th[t].dead
  BY <1>1 DEF ThreadState
<1>3. th' = [th EXCEPT ![t] = s]
  BY <1>1
<1> HIDE DEF s
<1> QED
  BY <1>1, <1>2, <1>3 DEF Moved, Kept

(* What each step does, field by field.                                    *)
LEMMA MessageEffect ==
  ASSUME Shape, NEW t \in Worker, NEW f \in Fd, Message(t, f)
  PROVE  /\ Moved(t) /\ th[t].pc = "idle" /\ conn[f] # 0 /\ ws_fd_map[f]
         /\ \A u \in Worker : th[u].fd # f
         /\ th'[t].pc \in Ops \cap ClientOps /\ th'[t].op = th'[t].pc /\ th'[t].fd = f
         /\ th'[t].cl = 0 /\ th'[t].key \in KeysOf(th'[t].pc)
         /\ th'[t].todo = {} /\ th'[t].dead = {}
<1>0. PICK op \in Ops \cap ClientOps : \E k \in KeysOf(op) : Turn(t, f, 0, op, k)
  BY DEF Message
<1>1. PICK k \in KeysOf(op) : Turn(t, f, 0, op, k)
  BY <1>0
<1>2. op \in Step /\ k \in Key /\ t \in Thread
  BY KeysTyped DEF ClientOps, Step, Thread
<1> QED
  BY <1>1, <1>2, TurnMoves DEF Shape, Message, CanServe, At

LEMMA InternalEffect ==
  ASSUME Shape, Internal
  PROVE  /\ Moved(Bridge) /\ th[Bridge].pc = "idle"
         /\ th'[Bridge].pc \in {"ipc", "broadcast", "auth"} /\ th'[Bridge].op = th'[Bridge].pc
         /\ th'[Bridge].fd \in Fd \cup {None} /\ (th'[Bridge].pc = "auth" => th'[Bridge].fd \in Fd)
         /\ th'[Bridge].cl = 0 /\ th'[Bridge].key \in KeysOf(th'[Bridge].pc)
         /\ th'[Bridge].todo = {} /\ th'[Bridge].dead = {}
<1>0. th[Bridge].pc = "idle" /\ Bridge \in Thread /\ Types
  BY DEF Internal, Shape, At, Thread
<1>1. PICK op \in Ops \cap BridgeOps : \E k \in KeysOf(op) :
         IF op = "identity" THEN \E f \in Fd : Turn(Bridge, f, 0, "auth", k)
                            ELSE Turn(Bridge, None, 0, op, k)
  BY DEF Internal
<1>2. PICK k \in KeysOf(op) :
         IF op = "identity" THEN \E f \in Fd : Turn(Bridge, f, 0, "auth", k)
                            ELSE Turn(Bridge, None, 0, op, k)
  BY <1>1
<1>3. CASE op = "identity"
  <2>1. PICK f \in Fd : Turn(Bridge, f, 0, "auth", k)
    BY <1>2, <1>3
  <2>2. k \in Key /\ k \in KeysOf("auth") /\ "auth" \in Step
    BY <1>3, KeysTyped DEF BridgeOps, Step
  <2> QED
    BY <1>0, <2>1, <2>2, TurnMoves
<1>4. CASE op # "identity"
  <2>1. op \in {"ipc", "broadcast"} /\ Turn(Bridge, None, 0, op, k)
    BY <1>2, <1>4 DEF BridgeOps
  <2>2. k \in Key /\ op \in Step
    BY <2>1, KeysTyped DEF BridgeOps, Step
  <2> QED
    BY <1>0, <2>1, <2>2, TurnMoves
<1> QED
  BY <1>3, <1>4

LEMMA HttpEffect ==
  ASSUME Shape, NEW t \in Worker, NEW f \in Fd, Http(t, f)
  PROVE  /\ Moved(t) /\ th[t].pc = "idle" /\ conn[f] \in Client /\ ~ws_fd_map[f]
         /\ \A u \in Worker : th[u].fd # f
         /\ th'[t].pc \in {"add", "flag", "close"} /\ th'[t].op = th'[t].pc /\ th'[t].fd = f
         /\ th'[t].pc # "close" => th'[t].cl = conn[f] /\ upgraded' = upgraded \cup {conn[f]}
         /\ th'[t].pc = "close" => UNCHANGED upgraded
         /\ th'[t].key = None /\ th'[t].todo = {} /\ th'[t].dead = {}
<1>0. /\ th[t].pc = "idle" /\ conn[f] \in Client /\ ~ws_fd_map[f] /\ t \in Thread /\ Types
      /\ None \in Key /\ {"add", "flag", "close"} \subseteq Step
      /\ \A u \in Worker : th[u].fd # f
  BY DEF Http, CanServe, Shape, Types, At, Thread, Key, Step
<1>1. CASE \E p \in {"add", "flag"} : Turn(t, f, conn[f], p, None)
  <2>1. PICK p \in {"add", "flag"} : Turn(t, f, conn[f], p, None)
    BY <1>1
  <2>2. /\ Moved(t) /\ th'[t].pc = p /\ th'[t].op = p /\ th'[t].fd = f /\ th'[t].cl = conn[f]
        /\ th'[t].key = None /\ th'[t].todo = {} /\ th'[t].dead = {}
    BY <1>0, <2>1, TurnMoves
  <2>3. upgraded' = upgraded \cup {conn[f]}
    <3>1. SUFFICES ASSUME Turn(t, f, 0, "close", None) PROVE FALSE
      BY DEF Http
    <3>2. th'[t].pc = "close"
      BY <1>0, <3>1, TurnMoves
    <3> QED
      BY <2>2, <3>2
  <2> QED
    BY <1>0, <2>2, <2>3
<1>2. CASE Turn(t, f, 0, "close", None) /\ UNCHANGED upgraded
  <2>1. /\ Moved(t) /\ th'[t].pc = "close" /\ th'[t].op = "close" /\ th'[t].fd = f
        /\ th'[t].key = None /\ th'[t].todo = {} /\ th'[t].dead = {}
    BY <1>0, <1>2, TurnMoves
  <2> QED
    BY <1>0, <1>2, <2>1
<1> QED
  BY <1>1, <1>2 DEF Http

LEMMA AddEffect ==
  ASSUME Shape, NEW t \in Thread, Add(t)
  PROVE  /\ Moved(t) /\ KeptAll(t) /\ th[t].pc = "add" /\ registry_lock = None
         /\ th[t].cl \in Client /\ th[t].fd \in Fd
         /\ \/ /\ th'[t].pc = "broadcast" /\ Cardinality(clients) < MaxClients
               /\ mem' \in [Client -> MemState]
               /\ mem'[th[t].cl] = [Unborn EXCEPT !.st = "live", !.fd = th[t].fd,
                                                  !.is_active = TRUE, !.seen = TRUE]
               /\ \A d \in Client : d # th[t].cl => mem'[d] = mem[d]
               /\ clients' = clients \cup {th[t].cl}
               /\ fd_map' \in [Fd -> Client \cup {None}]
               /\ fd_map'[th[t].fd] = th[t].cl
               /\ \A f \in Fd : f # th[t].fd => fd_map'[f] = fd_map[f]
               /\ current_count' = current_count + 1
            \/ th'[t].pc = "flag" /\ UNCHANGED <<mem, clients, fd_map, current_count>>
<1>0. Types /\ th[t].pc = "add" /\ registry_lock = None /\ th[t].cl \in Client /\ th[t].fd \in Fd
  BY DEF Add, Shape, Placed, OnFd, OnClient, At, Free
<1>1. CASE Cardinality(clients) < MaxClients
  <2> DEFINE m == [Unborn EXCEPT !.st = "live", !.fd = th[t].fd, !.is_active = TRUE, !.seen = TRUE]
  <2>1. m \in MemState
    BY <1>0 DEF MemState, Unborn
  <2>2. /\ mem' = [mem EXCEPT ![th[t].cl] = m] /\ Goto(t, "broadcast")
        /\ clients' = clients \cup {th[t].cl} /\ current_count' = current_count + 1
        /\ fd_map' = [fd_map EXCEPT ![th[t].fd] = th[t].cl]
    BY <1>1 DEF Add
  <2>3. "broadcast" \in Step
    BY DEF Step
  <2>4. Moved(t) /\ KeptAll(t) /\ th'[t].pc = "broadcast"
    BY <1>0, <2>2, <2>3, GotoMoves
  <2> HIDE DEF m
  <2>5. /\ mem' \in [Client -> MemState] /\ mem'[th[t].cl] = m
        /\ \A d \in Client : d # th[t].cl => mem'[d] = mem[d]
    BY <1>0, <2>1, <2>2 DEF Types
  <2>6. /\ fd_map' \in [Fd -> Client \cup {None}]
        /\ fd_map'[th[t].fd] = th[t].cl
        /\ \A f \in Fd : f # th[t].fd => fd_map'[f] = fd_map[f]
    BY <1>0, <2>2 DEF Types
  <2> QED
    BY <1>0, <1>1, <2>2, <2>4, <2>5, <2>6 DEF m
<1>2. CASE ~(Cardinality(clients) < MaxClients)
  <2>1. Goto(t, "flag") /\ UNCHANGED <<mem, clients, fd_map, current_count>> /\ "flag" \in Step
    BY <1>2 DEF Add, Step
  <2> QED
    BY <1>0, <2>1, GotoMoves
<1> QED
  BY <1>1, <1>2

LEMMA SetFlagEffect ==
  ASSUME Shape, NEW t \in Thread, SetFlag(t)
  PROVE  /\ Moved(t) /\ Rested(t) /\ th[t].pc = "flag" /\ th[t].fd \in Fd
         /\ ws_fd_map' \in [Fd -> BOOLEAN] /\ ws_fd_map'[th[t].fd] = TRUE
         /\ \A f \in Fd : f # th[t].fd => ws_fd_map'[f] = ws_fd_map[f]
BY RestMoves DEF SetFlag, Shape, Types, Placed, OnFd, At

LEMMA UpdateActivityEffect ==
  ASSUME Shape, NEW t \in Thread, UpdateActivity(t)
  PROVE  /\ Moved(t) /\ Rested(t) /\ th[t].pc = "pong" /\ mem' \in [Client -> MemState]
         /\ \A c \in Client : /\ mem'[c].st = mem[c].st /\ mem'[c].fd = mem[c].fd
                              /\ mem'[c].is_active = mem[c].is_active
                              /\ mem'[c].user_id = mem[c].user_id
                              /\ mem'[c].topics = mem[c].topics
                              /\ mem[c].seen => mem'[c].seen
<1>1. Moved(t) /\ Rested(t) /\ th[t].pc = "pong" /\ mem \in [Client -> MemState]
      /\ (Found(t) = None \/ Found(t) \in Client)
  BY RestMoves DEF UpdateActivity, Shape, Types, Placed, OnFd, At, Found
<1>2. CASE mem' = mem
  BY <1>1, <1>2
<1>3. ASSUME NEW c \in Client, mem' = [mem EXCEPT ![c].seen = TRUE]
      PROVE  /\ mem' \in [Client -> MemState]
             /\ \A d \in Client : /\ mem'[d].st = mem[d].st /\ mem'[d].fd = mem[d].fd
                                  /\ mem'[d].is_active = mem[d].is_active
                                  /\ mem'[d].user_id = mem[d].user_id
                                  /\ mem'[d].topics = mem[d].topics
                                  /\ mem[d].seen => mem'[d].seen
  BY <1>1, <1>3 DEF MemState
<1> QED
  BY <1>1, <1>2, <1>3 DEF UpdateActivity

LEMMA SubFindEffect ==
  ASSUME Shape, NEW t \in Thread, SubFind(t)
  PROVE  /\ Moved(t) /\ th[t].pc = "sub" /\ th[t].fd \in Fd /\ th[t].key \in Topic
         /\ registry_lock = None
         /\ \/ Rested(t)
            \/ /\ Kept(t) /\ th'[t].todo = th[t].todo /\ th'[t].pc = "subscribe"
               /\ th'[t].cl = fd_map[th[t].fd] /\ fd_map[th[t].fd] \in Client
<1>1. Types /\ th[t].pc = "sub" /\ th[t].fd \in Fd /\ th[t].key \in Topic /\ registry_lock = None
      /\ "subscribe" \in Step
  BY DEF SubFind, Shape, Placed, OnFd, At, Free, Step
<1>2. CASE Active(Found(t))
  <2>1. th' = [th EXCEPT ![t].cl = Found(t), ![t].pc = "subscribe"] /\ Found(t) \in Client
        /\ Found(t) = fd_map[th[t].fd]
    BY <1>1, <1>2 DEF SubFind, Active, Found, Types
  <2> QED
    BY <1>1, <2>1, ClientMoves
<1>3. CASE ~Active(Found(t))
  BY <1>1, <1>3, RestMoves DEF SubFind
<1> QED
  BY <1>2, <1>3

LEMMA SubBucketEffect ==
  ASSUME Shape, NEW t \in Thread, SubBucket(t)
  PROVE  Moved(t) /\ KeptAll(t) /\ th[t].pc = "subscribe" /\ th'[t].pc = "insert"
BY GotoMoves DEF SubBucket, Shape, At, Step

LEMMA SubInsertEffect ==
  ASSUME Shape, NEW t \in Thread, SubInsert(t)
  PROVE  /\ Moved(t) /\ th[t].pc = "insert" /\ th[t].cl \in Client /\ th[t].key \in Topic
         /\ Hash[th[t].key] \in Bucket /\ topic_lock[Hash[th[t].key]] = None
         /\ buckets' \in [Bucket -> SUBSET Client]
         /\ \/ Rested(t) /\ UNCHANGED buckets
            \/ /\ KeptAll(t) /\ th'[t].pc = "record"
               /\ buckets'[Hash[th[t].key]] = buckets[Hash[th[t].key]] \cup {th[t].cl}
               /\ \A b \in Bucket : b # Hash[th[t].key] => buckets'[b] = buckets[b]
<1>1. /\ Types /\ th[t].pc = "insert" /\ th[t].cl \in Client /\ th[t].key \in Topic
      /\ Hash[th[t].key] \in Bucket /\ topic_lock[Hash[th[t].key]] = None
      /\ "record" \in Step
  BY HashTyped DEF SubInsert, Shape, Placed, OnClient, Subscribing, At, Free, Step
<1>2. CASE Rest(t) /\ UNCHANGED buckets
  BY <1>1, <1>2, RestMoves DEF Types
<1>3. CASE /\ buckets' = [buckets EXCEPT ![Hash[th[t].key]] = @ \cup {th[t].cl}]
           /\ Goto(t, "record")
  <2>1. Moved(t) /\ KeptAll(t) /\ th'[t].pc = "record"
    BY <1>1, <1>3, GotoMoves
  <2> QED
    BY <1>1, <1>3, <2>1 DEF Types
<1> QED
  BY <1>2, <1>3 DEF SubInsert

LEMMA SubRecordEffect ==
  ASSUME Shape, NEW t \in Thread, SubRecord(t)
  PROVE  /\ Moved(t) /\ Rested(t) /\ th[t].pc = "record" /\ th[t].cl \in Client
         /\ th[t].key \in Topic /\ mem' \in [Client -> MemState]
         /\ \A c \in Client : /\ mem'[c].st = mem[c].st /\ mem'[c].fd = mem[c].fd
                              /\ mem'[c].is_active = mem[c].is_active
                              /\ mem'[c].user_id = mem[c].user_id
                              /\ mem'[c].seen = mem[c].seen
                              /\ c # th[t].cl => mem'[c].topics = mem[c].topics
         /\ mem'[th[t].cl].topics =
              IF Cardinality(mem[th[t].cl].topics) < MaxTopics
              THEN mem[th[t].cl].topics \cup {th[t].key} ELSE mem[th[t].cl].topics
<1>1. Moved(t) /\ Rested(t) /\ th[t].pc = "record" /\ th[t].cl \in Client /\ th[t].key \in Topic
      /\ mem \in [Client -> MemState]
  BY RestMoves DEF SubRecord, Shape, Types, Placed, OnClient, Subscribing, At
<1> DEFINE c == th[t].cl
<1>2. mem' = IF Cardinality(mem[c].topics) < MaxTopics
             THEN [mem EXCEPT ![c].topics = @ \cup {th[t].key}] ELSE mem
  BY DEF SubRecord
<1> DEFINE m == [mem[c] EXCEPT !.topics = @ \cup {th[t].key}]
<1>3. /\ m \in MemState /\ m.st = mem[c].st /\ m.fd = mem[c].fd /\ m.is_active = mem[c].is_active
      /\ m.user_id = mem[c].user_id /\ m.seen = mem[c].seen
      /\ m.topics = mem[c].topics \cup {th[t].key}
  BY <1>1 DEF MemState
<1>4. mem' = IF Cardinality(mem[c].topics) < MaxTopics THEN [mem EXCEPT ![c] = m] ELSE mem
  BY <1>1, <1>2
<1> HIDE DEF m
<1> QED
  BY <1>1, <1>3, <1>4

LEMMA MinMember ==
  ASSUME NEW S \in SUBSET Nat, S # {}
  PROVE  Min(S) \in S /\ \A y \in S : Min(S) <= y
<1> DEFINE R == {ss \in Nat \X Nat : ss[1] < ss[2]}
<1>1. IsWellFoundedOn(R, Nat)
  BY NatLessThanWellFounded DEF OpToRel
<1>2. \E x \in S : \A y \in S : ~ (<<y, x>> \in R)
  <2> HIDE DEF R
  <2> QED
    BY <1>1, WFMin
<1>3. PICK x \in S : \A y \in S : ~ (<<y, x>> \in R)
  BY <1>2
<1>4. \A y \in S : x <= y
  <2>1. TAKE y \in S
  <2>2. x \in Nat /\ y \in Nat
    OBVIOUS
  <2>3. y < x => <<y, x>> \in R
    BY <2>2
  <2>4. QED
    BY <1>3, <2>2, <2>3
<1>5. QED
  BY <1>4 DEF Min

(* A list without a node of a client: the first that it has.               *)
LEMMA WithoutEffect ==
  ASSUME NEW list \in Seq(Client), NEW c \in Client
  PROVE  /\ Without(list, c) \in Seq(Client)
         /\ \/ Without(list, c) = list /\ \A i \in DOMAIN list : list[i] # c
            \/ \E n \in DOMAIN list :
                 /\ list[n] = c
                 /\ Len(Without(list, c)) = Len(list) - 1
                 /\ \A i \in DOMAIN Without(list, c) :
                      Without(list, c)[i] = list[IF i < n THEN i ELSE i + 1]
<1>1. CASE \A i \in DOMAIN list : list[i] # c
  <2>1. ~\E i \in 1 .. Len(list) : list[i] = c
    BY <1>1
  <2> QED
    BY <1>1, <2>1 DEF Without, RemoveFirst
<1>2. CASE \E i \in DOMAIN list : list[i] = c
  <2> DEFINE I == {i \in 1 .. Len(list) : list[i] = c}
             n == Min(I)
  <2>1. I \in SUBSET Nat /\ I # {}
    BY <1>2
  <2>2. n \in I
    <3> HIDE DEF I
    <3> QED
      BY <2>1, MinMember
  <2>3. n \in 1 .. Len(list) /\ list[n] = c /\ Len(list) \in Nat
    BY <2>2
  <2>4. \E i \in 1 .. Len(list) : list[i] = c
    BY <1>2
  <2>5. Without(list, c) = SubSeq(list, 1, n - 1) \o SubSeq(list, n + 1, Len(list))
    BY <2>1, <2>4 DEF Without, RemoveFirst, RemoveAt, SelectInSeq
  <2> HIDE DEF n
  <2> DEFINE a == SubSeq(list, 1, n - 1)
             b == SubSeq(list, n + 1, Len(list))
  <2>6. a \in Seq(Client) /\ Len(a) = n - 1 /\ \A i \in 1 .. n - 1 : a[i] = list[i]
    BY <2>3
  <2>7. /\ b \in Seq(Client) /\ Len(b) = Len(list) - n
        /\ \A i \in 1 .. Len(list) - n : b[i] = list[n + i]
    BY <2>3
  <2> HIDE DEF a, b
  <2>8. /\ a \o b \in Seq(Client) /\ Len(a \o b) = Len(list) - 1
        /\ \A i \in 1 .. Len(a \o b) : (a \o b)[i] = IF i <= n - 1 THEN a[i] ELSE b[i - (n - 1)]
    <3>1. Len(a) \in Nat /\ Len(b) \in Nat /\ Len(a) + Len(b) = Len(list) - 1
      BY <2>3, <2>6, <2>7
    <3>2. /\ a \o b \in Seq(Client) /\ Len(a \o b) = Len(a) + Len(b)
          /\ \A i \in 1 .. Len(a) + Len(b) :
               (a \o b)[i] = IF i <= Len(a) THEN a[i] ELSE b[i - Len(a)]
      BY <2>6, <2>7, ConcatProperties
    <3> QED
      BY <2>6, <3>1, <3>2
  <2>9. \A i \in 1 .. Len(a \o b) : (a \o b)[i] = list[IF i < n THEN i ELSE i + 1]
    <3> SUFFICES ASSUME NEW i \in 1 .. Len(a \o b)
                 PROVE  (a \o b)[i] = list[IF i < n THEN i ELSE i + 1]
      OBVIOUS
    <3>1. CASE i < n
      BY <2>3, <2>6, <2>8, <3>1
    <3>2. CASE ~(i < n)
      <4>1. i - (n - 1) \in 1 .. Len(list) - n /\ n + (i - (n - 1)) = i + 1
        BY <2>3, <2>8, <3>2
      <4> QED
        BY <2>3, <2>7, <2>8, <3>2, <4>1
    <3> QED
      BY <3>1, <3>2
  <2>10. Without(list, c) = a \o b
    BY <2>5 DEF a, b
  <2>11. DOMAIN (a \o b) = 1 .. Len(a \o b) /\ n \in DOMAIN list
    BY <2>3, <2>8
  <2> HIDE DEF I
  <2> QED
    BY <2>3, <2>8, <2>9, <2>10, <2>11
<1> QED
  BY <1>1, <1>2

LEMMA SetUserIdEffect ==
  ASSUME Shape, NEW t \in Thread, SetUserId(t)
  PROVE  /\ Moved(t) /\ Rested(t) /\ th[t].pc = "auth" /\ th[t].fd \in Fd /\ th[t].key \in Name
         /\ registry_lock = None
         /\ mem' \in [Client -> MemState] /\ user_map' \in [Place -> Seq(Client)]
         /\ \A d \in Client : /\ mem'[d].st = mem[d].st /\ mem'[d].fd = mem[d].fd
                              /\ mem'[d].is_active = mem[d].is_active
                              /\ mem'[d].seen = mem[d].seen /\ mem'[d].topics = mem[d].topics
         /\ \/ UNCHANGED <<mem, user_map>>
            \/ \E c \in Client, kept \in [Place -> Seq(Client)] :
                 /\ c = fd_map[th[t].fd] /\ mem[c].is_active /\ mem'[c].user_id = th[t].key
                 /\ \A d \in Client : d # c => mem'[d] = mem[d]
                 /\ kept = IF mem[c].user_id = None THEN user_map
                           ELSE [user_map EXCEPT ![CutSlot[mem[c].user_id]] = Without(@, c)]
                 /\ user_map' = [kept EXCEPT ![Slot[th[t].key]] = <<c>> \o @]
<1>1. /\ Types /\ Moved(t) /\ Rested(t) /\ th[t].pc = "auth" /\ th[t].fd \in Fd
      /\ th[t].key \in Name /\ registry_lock = None
  BY RestMoves DEF SetUserId, Shape, Placed, OnFd, At, Free
<1>2. CASE ~Active(Found(t))
  BY <1>1, <1>2 DEF SetUserId, Types
<1>3. CASE Active(Found(t))
  <2> DEFINE c == Found(t)
             kept == IF mem[c].user_id = None THEN user_map
                     ELSE [user_map EXCEPT ![CutSlot[mem[c].user_id]] = Without(@, c)]
  <2>1. c = fd_map[th[t].fd] /\ c \in Client /\ mem[c].is_active
    BY <1>1, <1>3 DEF Active, Found, Types
  <2>2. /\ mem' = [mem EXCEPT ![c].user_id = th[t].key]
        /\ user_map' = [kept EXCEPT ![Slot[th[t].key]] = <<c>> \o @]
    BY <1>3 DEF SetUserId
  <2>3. kept \in [Place -> Seq(Client)]
    <3>1. CASE mem[c].user_id = None
      BY <1>1, <3>1 DEF Types
    <3>2. CASE mem[c].user_id # None
      <4>1. mem[c].user_id \in Name
        BY <1>1, <2>1, <3>2 DEF Types, MemState
      <4>2. CutSlot[mem[c].user_id] \in Place /\ user_map \in [Place -> Seq(Client)]
        BY <1>1, <4>1, HashTyped DEF Types
      <4>3. Without(user_map[CutSlot[mem[c].user_id]], c) \in Seq(Client)
        BY <2>1, <4>2, WithoutEffect
      <4> QED
        BY <3>2, <4>2, <4>3
    <3> QED
      BY <3>1, <3>2
  <2>4. /\ mem' \in [Client -> MemState] /\ mem'[c].user_id = th[t].key
        /\ \A d \in Client : d # c => mem'[d] = mem[d]
        /\ \A d \in Client : /\ mem'[d].st = mem[d].st /\ mem'[d].fd = mem[d].fd
                             /\ mem'[d].is_active = mem[d].is_active
                             /\ mem'[d].seen = mem[d].seen /\ mem'[d].topics = mem[d].topics
    <3> DEFINE m == [mem[c] EXCEPT !.user_id = th[t].key]
    <3>0. c \in Client /\ mem \in [Client -> MemState] /\ th[t].key \in Name
      BY <1>1, <2>1 DEF Types
    <3> HIDE DEF c
    <3>1. /\ m \in MemState /\ m.user_id = th[t].key /\ m.st = mem[c].st /\ m.fd = mem[c].fd
          /\ m.is_active = mem[c].is_active /\ m.seen = mem[c].seen /\ m.topics = mem[c].topics
      BY <3>0 DEF MemState
    <3> USE DEF c
    <3>2. mem' = [mem EXCEPT ![c] = m]
      BY <2>1, <2>2, <3>1
    <3> HIDE DEF m, c
    <3> QED
      BY <3>0, <3>1, <3>2
  <2>5. user_map' \in [Place -> Seq(Client)]
    <3> HIDE DEF kept, c
    <3>1. Slot[th[t].key] \in Place
      BY <1>1, HashTyped
    <3>2. <<c>> \o kept[Slot[th[t].key]] \in Seq(Client)
      BY <2>1, <2>3, <3>1
    <3> QED
      BY <2>2, <2>3, <3>1, <3>2
  <2> HIDE DEF c
  <2>6. kept \in [Place -> Seq(Client)] /\ kept = IF mem[c].user_id = None THEN user_map
                     ELSE [user_map EXCEPT ![CutSlot[mem[c].user_id]] = Without(@, c)]
    BY <2>3
  <2> HIDE DEF kept
  <2> QED
    BY <1>1, <2>1, <2>2, <2>4, <2>5, <2>6
<1> QED
  BY <1>2, <1>3

LEMMA WalkClientsEffect ==
  ASSUME Shape, NEW t \in Thread, WalkClients(t)
  PROVE  /\ Moved(t) /\ Kept(t) /\ th'[t].cl = th[t].cl /\ th'[t].pc = "walk"
         /\ th[t].pc \in {"broadcast", "heartbeat"}
         /\ th'[t].todo \subseteq clients
         /\ registry_lock = None /\ registry_lock' = t
<1>1. Types /\ "walk" \in Step
  BY DEF Shape, Step
<1> DEFINE S == {c \in clients : mem[c].is_active}
<1>2. S \in SUBSET (Client \cup Topic)
  BY <1>1 DEF Types
<1>3. th' = [th EXCEPT ![t].todo = S, ![t].pc = "walk"]
  BY DEF WalkClients, Walk
<1>4. S \subseteq clients
  OBVIOUS
<1> HIDE DEF S
<1>5. Moved(t) /\ Kept(t) /\ th'[t].cl = th[t].cl /\ th'[t].pc = "walk" /\ th'[t].todo = S
  BY <1>1, <1>2, <1>3, TodoMoves, ZenonT(60)
<1> QED
  BY <1>4, <1>5 DEF WalkClients, Free

LEMMA PubBucketEffect ==
  ASSUME Shape, NEW t \in Thread, PubBucket(t)
  PROVE  Moved(t) /\ KeptAll(t) /\ th[t].pc = "pub" /\ th'[t].pc = "publish"
BY GotoMoves DEF PubBucket, Shape, At, Step

LEMMA WalkBucketEffect ==
  ASSUME Shape, NEW t \in Thread, WalkBucket(t)
  PROVE  /\ Moved(t) /\ Kept(t) /\ th'[t].cl = th[t].cl /\ th'[t].pc = "walk"
         /\ th[t].pc = "publish" /\ th[t].op = "pub"
         /\ Hash[th[t].key] \in Bucket /\ th'[t].todo = buckets[Hash[th[t].key]]
         /\ topic_lock[Hash[th[t].key]] = None
         /\ topic_lock' = [topic_lock EXCEPT ![Hash[th[t].key]] = t]
<1>1. /\ Types /\ "walk" \in Step /\ th[t].pc = "publish" /\ th[t].op = "pub"
      /\ Hash[th[t].key] \in Bucket
  BY HashTyped DEF Shape, Step, WalkBucket, At, Placed
<1>2. buckets[Hash[th[t].key]] \in SUBSET (Client \cup Topic)
  BY <1>1 DEF Types
<1>3. th' = [th EXCEPT ![t].todo = buckets[Hash[th[t].key]], ![t].pc = "walk"]
  BY DEF WalkBucket, Walk
<1> QED
  BY <1>1, <1>2, <1>3, TodoMoves DEF WalkBucket, Free

LEMMA VisitEffect ==
  ASSUME Shape, NEW t \in Thread, NEW c \in Client, Visit(t, c)
  PROVE  /\ Moved(t) /\ Kept(t) /\ th[t].pc = "walk" /\ c \in th[t].todo
         /\ client_lock' \in [Client -> Thread \cup {None}]
         /\ \/ /\ th'[t].todo = th[t].todo /\ th'[t].cl = c /\ th'[t].pc = "send"
               /\ mem[c].is_active /\ client_lock[c] = None
               /\ client_lock' = [client_lock EXCEPT ![c] = t]
            \/ /\ th'[t].cl = th[t].cl /\ th'[t].pc = "walk"
               /\ th'[t].todo = th[t].todo \ {c} /\ UNCHANGED client_lock
<1>1. Types /\ th[t].pc = "walk" /\ c \in th[t].todo /\ "send" \in Step
  BY DEF Shape, Step, Visit, At
<1>2. CASE mem[c].is_active /\ Free(client_lock[c])
  <2>1. th' = [th EXCEPT ![t].cl = c, ![t].pc = "send"] /\ client_lock' = [client_lock EXCEPT ![c] = t]
    BY <1>2 DEF Visit
  <2>2. client_lock' \in [Client -> Thread \cup {None}]
    BY <1>1, <2>1 DEF Types
  <2>3. Moved(t) /\ Kept(t) /\ th'[t].todo = th[t].todo /\ th'[t].cl = c /\ th'[t].pc = "send"
    BY <1>1, <2>1, ClientMoves
  <2> QED
    BY <1>1, <1>2, <2>1, <2>2, <2>3 DEF Free
<1>3. CASE ~(mem[c].is_active /\ Free(client_lock[c]))
  <2>1. th' = [th EXCEPT ![t].todo = @ \ {c}] /\ UNCHANGED client_lock
    BY <1>3 DEF Visit
  <2> QED
    BY <1>1, <2>1, LeftMoves DEF Types
<1> QED
  BY <1>2, <1>3

LEMMA SentEffect ==
  ASSUME Shape, NEW t \in Thread, Sent(t)
  PROVE  /\ Moved(t) /\ Kept(t) /\ th[t].pc = "send" /\ th[t].cl \in Client
         /\ th'[t].cl = th[t].cl /\ th'[t].pc = "walk" /\ th'[t].todo = th[t].todo \ {th[t].cl}
         /\ client_lock' = [client_lock EXCEPT ![th[t].cl] = None]
         /\ client_lock' \in [Client -> Thread \cup {None}]
<1>1. Types /\ th[t].pc = "send" /\ th[t].cl \in Client /\ "walk" \in Step
  BY DEF Shape, Step, Sent, At, Placed, OnClient
<1> DEFINE S == th[t].todo \ {th[t].cl}
<1>2. S \in SUBSET (Client \cup Topic)
  BY <1>1 DEF Types, ThreadState
<1>3. th' = [th EXCEPT ![t].todo = S, ![t].pc = "walk"]
  BY <1>1 DEF Sent, Types
<1>4. client_lock' = [client_lock EXCEPT ![th[t].cl] = None]
  BY DEF Sent
<1>5. client_lock' \in [Client -> Thread \cup {None}]
  BY <1>1, <1>4 DEF Types
<1> HIDE DEF S
<1>6. Moved(t) /\ Kept(t) /\ th'[t].cl = th[t].cl /\ th'[t].pc = "walk" /\ th'[t].todo = S
  BY <1>1, <1>2, <1>3, TodoMoves
<1> QED
  BY <1>1, <1>4, <1>5, <1>6 DEF S

LEMMA WalkedEffect ==
  ASSUME Shape, NEW t \in Thread, Walked(t)
  PROVE  /\ Moved(t) /\ th[t].pc = "walk" /\ th[t].todo = {}
         /\ \/ th[t].op = "add" /\ KeptAll(t) /\ th'[t].pc = "flag"
            \/ th[t].op = "heartbeat" /\ KeptAll(t) /\ th'[t].pc = "reap"
            \/ th[t].op \notin {"add", "heartbeat"} /\ Rested(t)
         /\ \/ /\ th[t].op = "pub" /\ Hash[th[t].key] \in Bucket /\ UNCHANGED registry_lock
               /\ topic_lock' = [topic_lock EXCEPT ![Hash[th[t].key]] = None]
            \/ th[t].op # "pub" /\ registry_lock' = None /\ UNCHANGED topic_lock
<1>1. /\ Types /\ th[t].pc = "walk" /\ th[t].todo = {} /\ {"flag", "reap"} \subseteq Step
      /\ th[t].op = "pub" => Hash[th[t].key] \in Bucket
  BY HashTyped DEF Shape, Step, Walked, At, Placed
<1>2. CASE th[t].op = "add"
  <2>1. Goto(t, "flag")
    BY <1>2 DEF Walked
  <2> QED
    BY <1>1, <1>2, <2>1, GotoMoves DEF Walked
<1>3. CASE th[t].op = "heartbeat"
  <2>1. Goto(t, "reap")
    BY <1>3 DEF Walked
  <2> QED
    BY <1>1, <1>3, <2>1, GotoMoves DEF Walked
<1>4. CASE th[t].op \notin {"add", "heartbeat"}
  <2>1. Rest(t)
    BY <1>4 DEF Walked
  <2> QED
    BY <1>1, <1>4, <2>1, RestMoves DEF Walked
<1> QED
  BY <1>2, <1>3, <1>4

LEMMA FindUserEffect ==
  ASSUME Shape, NEW t \in Thread, FindUser(t)
  PROVE  /\ Moved(t) /\ th[t].pc \in {"private", "ipc"}
         /\ \/ Rested(t)
            \/ /\ Kept(t) /\ th'[t].todo = th[t].todo /\ th'[t].cl \in Client
               /\ th'[t].pc = IF th[t].pc = "ipc" THEN "validate" ELSE "write"
<1>1. Types /\ th[t].pc \in {"private", "ipc"} /\ th[t].key \in Name
      /\ {"validate", "write"} \subseteq Step
  BY DEF FindUser, Shape, Placed, Step
<1> DEFINE list == user_map[Slot[th[t].key]]
           I == {i \in 1 .. Len(list) : mem[list[i]].is_active /\ mem[list[i]].user_id = th[t].key}
           node == SelectInSeq(list, LAMBDA c : mem[c].is_active /\ mem[c].user_id = th[t].key)
           p == IF At(t, "ipc") THEN "validate" ELSE "write"
<1>2. list \in Seq(Client)
  BY <1>1, HashTyped DEF Types
<1>3. \/ Rest(t)
      \/ node # 0 /\ th' = [th EXCEPT ![t].cl = list[node], ![t].pc = p]
  BY DEF FindUser
<1>4. ASSUME node # 0 PROVE list[node] \in Client
  <2>0. node = IF I # {} THEN Min(I) ELSE 0
    BY DEF SelectInSeq
  <2>1. I \in SUBSET Nat /\ I # {} /\ node = Min(I)
    <3>1. I \in SUBSET Nat
      OBVIOUS
    <3> HIDE DEF node, I
    <3> QED
      BY <1>4, <2>0, <3>1
  <2>2. Min(I) \in I
    <3> HIDE DEF I
    <3> QED
      BY <2>1, MinMember
  <2>3. node \in 1 .. Len(list)
    <3> HIDE DEF node
    <3> QED
      BY <2>1, <2>2
  <2> HIDE DEF node, list
  <2> QED
    BY <1>2, <2>3
<1>5. p \in Step /\ p = IF th[t].pc = "ipc" THEN "validate" ELSE "write"
  BY <1>1 DEF At
<1> HIDE DEF node, list, p
<1>6. CASE Rest(t)
  BY <1>1, <1>6, RestMoves
<1>7. CASE node # 0 /\ th' = [th EXCEPT ![t].cl = list[node], ![t].pc = p]
  BY <1>1, <1>4, <1>5, <1>7, ClientMoves
<1> QED
  BY <1>3, <1>6, <1>7

LEMMA ValidateEffect ==
  ASSUME Shape, NEW t \in Thread, Validate(t)
  PROVE  /\ Moved(t) /\ th[t].pc = "validate"
         /\ Rested(t) \/ (KeptAll(t) /\ th'[t].pc = "write")
<1>1. Types /\ "write" \in Step /\ th[t].pc = "validate" /\ (Goto(t, "write") \/ Rest(t))
  BY DEF Validate, Shape, Step, At
<1> QED
  BY <1>1, GotoMoves, RestMoves

LEMMA WrittenEffect ==
  ASSUME Shape, NEW t \in Thread, Written(t)
  PROVE  Moved(t) /\ th[t].pc = "write" /\ Rested(t)
BY RestMoves DEF Written, Shape, At

LEMMA CleanupEffect ==
  ASSUME Shape, NEW t \in Thread, Cleanup(t)
  PROVE  /\ Moved(t) /\ KeptAll(t) /\ th[t].pc = "close"
         /\ th'[t].pc = IF ws_fd_map[th[t].fd] THEN "remove" ELSE "shut"
<1>1. Types /\ {"remove", "shut"} \subseteq Step /\ th[t].pc = "close"
      /\ Goto(t, IF ws_fd_map[th[t].fd] THEN "remove" ELSE "shut")
  BY DEF Cleanup, Shape, Step, At
<1> QED
  BY <1>1, GotoMoves

LEMMA RemoveFindEffect ==
  ASSUME Shape, NEW t \in Thread, RemoveFind(t)
  PROVE  /\ Moved(t) /\ th[t].pc = "remove" /\ th[t].fd \in Fd /\ registry_lock = None
         /\ \/ /\ fd_map[th[t].fd] = None /\ KeptAll(t) /\ UNCHANGED registry_lock
               /\ th'[t].pc = AfterRemove(t)
            \/ /\ fd_map[th[t].fd] \in Client /\ Kept(t) /\ registry_lock' = t
               /\ th'[t].todo = th[t].todo
               /\ th'[t].cl = fd_map[th[t].fd] /\ th'[t].pc = "deactivate"
<1>1. /\ Types /\ {"deactivate", "reaping", "unflag"} \subseteq Step /\ th[t].pc = "remove"
      /\ registry_lock = None /\ th[t].fd \in Fd /\ Found(t) = fd_map[th[t].fd]
  BY DEF RemoveFind, Shape, Step, At, Free, Placed, OnFd, Found
<1>2. CASE Found(t) = None
  <2>1. Goto(t, AfterRemove(t)) /\ UNCHANGED registry_lock /\ AfterRemove(t) \in Step
    BY <1>1, <1>2 DEF RemoveFind, AfterRemove
  <2> QED
    BY <1>1, <1>2, <2>1, GotoMoves
<1>3. CASE Found(t) # None
  <2>1. /\ registry_lock' = t /\ Found(t) \in Client
        /\ th' = [th EXCEPT ![t].cl = Found(t), ![t].pc = "deactivate"]
    BY <1>1, <1>3 DEF RemoveFind, Types
  <2> QED
    BY <1>1, <2>1, ClientMoves
<1> QED
  BY <1>2, <1>3

LEMMA DeactivateEffect ==
  ASSUME Shape, NEW t \in Thread, Deactivate(t)
  PROVE  /\ Moved(t) /\ KeptAll(t) /\ th[t].pc = "deactivate" /\ th'[t].pc = "forget"
         /\ th[t].cl \in Client /\ client_lock[th[t].cl] = None
         /\ mem' \in [Client -> MemState]
         /\ \A c \in Client : /\ mem'[c].st = mem[c].st /\ mem'[c].fd = mem[c].fd
                              /\ mem'[c].seen = mem[c].seen /\ mem'[c].user_id = mem[c].user_id
                              /\ mem'[c].topics = mem[c].topics
                              /\ c # th[t].cl => mem'[c].is_active = mem[c].is_active
<1>1. /\ Types /\ "forget" \in Step /\ th[t].pc = "deactivate" /\ th[t].cl \in Client
      /\ client_lock[th[t].cl] = None /\ Goto(t, "forget")
      /\ mem' = [mem EXCEPT ![th[t].cl].is_active = FALSE] /\ mem \in [Client -> MemState]
  BY DEF Deactivate, Shape, Types, Step, At, Free, Placed, OnClient, Removal
<1> DEFINE m == [mem[th[t].cl] EXCEPT !.is_active = FALSE]
<1>1a. mem[th[t].cl] \in MemState
  BY <1>1
<1>2. /\ m \in MemState /\ m.st = mem[th[t].cl].st /\ m.fd = mem[th[t].cl].fd
      /\ m.seen = mem[th[t].cl].seen /\ m.user_id = mem[th[t].cl].user_id
      /\ m.topics = mem[th[t].cl].topics
  BY <1>1a DEF MemState
<1>3. mem' = [mem EXCEPT ![th[t].cl] = m]
  BY <1>1
<1> HIDE DEF m
<1> QED
  BY <1>1, <1>2, <1>3, GotoMoves

LEMMA ForgetUserEffect ==
  ASSUME Shape, NEW t \in Thread, ForgetUser(t)
  PROVE  /\ Moved(t) /\ KeptAll(t) /\ th[t].pc = "forget" /\ th'[t].pc = "unhash"
         /\ th[t].cl \in Client /\ user_map' \in [Place -> Seq(Client)]
         /\ user_map' = IF mem[th[t].cl].user_id = None THEN user_map
                        ELSE [user_map EXCEPT ![CutSlot[mem[th[t].cl].user_id]]
                                = Without(@, th[t].cl)]
<1>1. Types /\ "unhash" \in Step /\ th[t].pc = "forget" /\ th[t].cl \in Client /\ Goto(t, "unhash")
  BY DEF ForgetUser, Shape, Step, At, Placed, OnClient, Removal
<1> DEFINE id == mem[th[t].cl].user_id
<1>2. user_map' = IF id = None THEN user_map
                  ELSE [user_map EXCEPT ![CutSlot[id]] = Without(@, th[t].cl)]
  BY DEF ForgetUser
<1>3. id \in Name \cup {None} /\ user_map \in [Place -> Seq(Client)]
  BY <1>1 DEF Types, MemState
<1>4. user_map' \in [Place -> Seq(Client)]
  <2> HIDE DEF id
  <2>1. CASE id = None
    BY <1>2, <1>3, <2>1
  <2>2. CASE id # None
    <3>1. CutSlot[id] \in Place
      BY <1>3, <2>2, HashTyped
    <3>2. Without(user_map[CutSlot[id]], th[t].cl) \in Seq(Client)
      BY <1>1, <1>3, <3>1, WithoutEffect
    <3> QED
      BY <1>2, <1>3, <2>2, <3>1, <3>2
  <2> QED
    BY <2>1, <2>2
<1> QED
  BY <1>1, <1>2, <1>4, GotoMoves

LEMMA LockHashEffect ==
  ASSUME Shape, NEW t \in Thread, LockHash(t)
  PROVE  /\ Moved(t) /\ Kept(t) /\ th[t].pc = "unhash" /\ th'[t].pc = "unsubscribe"
         /\ th[t].cl \in Client /\ th'[t].cl = th[t].cl
         /\ th'[t].todo = mem[th[t].cl].topics /\ mem[th[t].cl].topics \subseteq Topic
         /\ hash_lock = None /\ hash_lock' = t
<1>1. /\ Types /\ "unsubscribe" \in Step /\ th[t].pc = "unhash" /\ th[t].cl \in Client
      /\ hash_lock = None /\ hash_lock' = t
      /\ th' = [th EXCEPT ![t].todo = mem[th[t].cl].topics, ![t].pc = "unsubscribe"]
  BY DEF LockHash, Shape, Step, At, Free, Placed, OnClient, Removal
<1> DEFINE S == mem[th[t].cl].topics
<1>2. S \in SUBSET Topic
  BY <1>1 DEF Types, MemState
<1>3. S \in SUBSET (Client \cup Topic)
  BY <1>2
<1>4. th' = [th EXCEPT ![t].todo = S, ![t].pc = "unsubscribe"]
  BY <1>1
<1> HIDE DEF S
<1>5. Moved(t) /\ Kept(t) /\ th'[t].cl = th[t].cl /\ th'[t].todo = S /\ th'[t].pc = "unsubscribe"
  BY <1>1, <1>3, <1>4, TodoMoves
<1> QED
  BY <1>1, <1>2, <1>5 DEF S

LEMMA UnsubscribeEffect ==
  ASSUME Shape, NEW t \in Thread, NEW k \in Topic, Unsubscribe(t, k)
  PROVE  /\ Moved(t) /\ Kept(t) /\ th[t].pc = "unsubscribe" /\ th'[t].pc = "unsubscribe"
         /\ th[t].cl \in Client /\ th'[t].cl = th[t].cl /\ k \in th[t].todo
         /\ th'[t].todo = th[t].todo \ {k}
         /\ buckets' \in [Bucket -> SUBSET Client] /\ Hash[k] \in Bucket
         /\ buckets'[Hash[k]] = buckets[Hash[k]] \ {th[t].cl}
         /\ \A b \in Bucket : b # Hash[k] => buckets'[b] = buckets[b]
<1>1. /\ Types /\ th[t].pc = "unsubscribe" /\ th[t].cl \in Client /\ Hash[k] \in Bucket
      /\ th' = [th EXCEPT ![t].todo = @ \ {k}] /\ k \in th[t].todo
      /\ buckets' = [buckets EXCEPT ![Hash[k]] = @ \ {th[t].cl}]
  BY HashTyped DEF Unsubscribe, Shape, At, Placed, OnClient, Removal
<1>2. /\ buckets' \in [Bucket -> SUBSET Client]
      /\ buckets'[Hash[k]] = buckets[Hash[k]] \ {th[t].cl}
      /\ \A b \in Bucket : b # Hash[k] => buckets'[b] = buckets[b]
  BY <1>1 DEF Types
<1> QED
  BY <1>1, <1>2, LeftMoves

LEMMA ReleaseEffect ==
  ASSUME Shape, NEW t \in Thread, Release(t)
  PROVE  /\ Moved(t) /\ KeptAll(t) /\ th[t].pc = "unsubscribe" /\ th'[t].pc = AfterRemove(t)
         /\ th[t].cl \in Client /\ th[t].fd \in Fd /\ th[t].todo = {}
         /\ clients' = clients \ {th[t].cl} /\ current_count' = current_count - 1
         /\ fd_map' \in [Fd -> Client \cup {None}] /\ fd_map'[th[t].fd] = None
         /\ \A f \in Fd : f # th[t].fd => fd_map'[f] = fd_map[f]
         /\ mem' \in [Client -> MemState]
         /\ mem'[th[t].cl].st = IF t = Maint THEN "reaped" ELSE "freed"
         /\ mem'[th[t].cl].fd = mem[th[t].cl].fd
         /\ \A c \in Client : c # th[t].cl => mem'[c] = mem[c]
         /\ registry_lock' = None /\ hash_lock' = None
<1>1. /\ Types /\ th[t].pc = "unsubscribe" /\ th[t].cl \in Client /\ th[t].fd \in Fd
      /\ th[t].todo = {} /\ AfterRemove(t) \in Step /\ Goto(t, AfterRemove(t))
      /\ registry_lock' = None /\ hash_lock' = None
      /\ clients' = clients \ {th[t].cl} /\ current_count' = current_count - 1
      /\ fd_map' = [fd_map EXCEPT ![th[t].fd] = None]
  BY DEF Release, Shape, At, Placed, OnClient, OnFd, Removal, AfterRemove, Step
<1> DEFINE m == [Unborn EXCEPT !.st = IF t = Maint THEN "reaped" ELSE "freed",
                               !.fd = mem[th[t].cl].fd]
<1>2. mem' = [mem EXCEPT ![th[t].cl] = m]
  BY DEF Release
<1>3. /\ m \in MemState /\ m.st = (IF t = Maint THEN "reaped" ELSE "freed")
      /\ m.fd = mem[th[t].cl].fd
  BY <1>1 DEF MemState, Unborn, Types
<1> HIDE DEF m
<1>4. /\ mem' \in [Client -> MemState] /\ mem'[th[t].cl] = m
      /\ \A c \in Client : c # th[t].cl => mem'[c] = mem[c]
  BY <1>1, <1>2, <1>3 DEF Types
<1>5. /\ fd_map' \in [Fd -> Client \cup {None}] /\ fd_map'[th[t].fd] = None
      /\ \A f \in Fd : f # th[t].fd => fd_map'[f] = fd_map[f]
  BY <1>1 DEF Types
<1> QED
  BY <1>1, <1>3, <1>4, <1>5, GotoMoves

LEMMA ClearFlagEffect ==
  ASSUME Shape, NEW t \in Thread, ClearFlag(t)
  PROVE  /\ Moved(t) /\ KeptAll(t) /\ th[t].pc = "unflag" /\ th'[t].pc = "shut"
         /\ th[t].fd \in Fd
         /\ ws_fd_map' \in [Fd -> BOOLEAN] /\ ws_fd_map'[th[t].fd] = FALSE
         /\ \A f \in Fd : f # th[t].fd => ws_fd_map'[f] = ws_fd_map[f]
<1>1. Types /\ "shut" \in Step /\ th[t].pc = "unflag" /\ th[t].fd \in Fd /\ Goto(t, "shut")
      /\ ws_fd_map' = [ws_fd_map EXCEPT ![th[t].fd] = FALSE]
  BY DEF ClearFlag, Shape, Step, At, Placed, OnFd
<1> QED
  BY <1>1, GotoMoves DEF Types

LEMMA ShutEffect ==
  ASSUME Shape, NEW t \in Thread, Shut(t)
  PROVE  /\ Moved(t) /\ Rested(t) /\ th[t].pc = "shut" /\ th[t].fd \in Fd
         /\ conn' \in [Fd -> Client \cup {0}] /\ conn'[th[t].fd] = 0
         /\ \A f \in Fd : f # th[t].fd => conn'[f] = conn[f]
<1>1. Types /\ th[t].pc = "shut" /\ th[t].fd \in Fd /\ Rest(t)
      /\ conn' = [conn EXCEPT ![th[t].fd] = 0]
  BY DEF Shut, Shape, At, Placed, OnFd
<1> QED
  BY <1>1, RestMoves DEF Types

LEMMA WakeEffect ==
  ASSUME Shape, Wake
  PROVE  /\ Moved(Maint) /\ th[Maint].pc = "idle"
         /\ th'[Maint].pc = "heartbeat" /\ th'[Maint].op = "heartbeat" /\ th'[Maint].fd = None
         /\ th'[Maint].cl = 0 /\ th'[Maint].key = None /\ th'[Maint].todo = {}
         /\ th'[Maint].dead = {}
<1>1. Types /\ th[Maint].pc = "idle" /\ Turn(Maint, None, 0, "heartbeat", None)
      /\ Maint \in Thread /\ "heartbeat" \in Step /\ None \in Key
  BY DEF Wake, Shape, At, Thread, Step, Key
<1> QED
  BY <1>1, TurnMoves

LEMMA SilenceEffect ==
  ASSUME Shape, NEW c \in Client, Silence(c)
  PROVE  /\ mem' \in [Client -> MemState] /\ "silent" \in Ops
         /\ \A d \in Client : /\ mem'[d].st = mem[d].st /\ mem'[d].fd = mem[d].fd
                              /\ mem'[d].is_active = mem[d].is_active
                              /\ mem'[d].user_id = mem[d].user_id
                              /\ mem'[d].topics = mem[d].topics
<1>1. mem \in [Client -> MemState] /\ mem' = [mem EXCEPT ![c].seen = FALSE]
  BY DEF Silence, Shape, Types
<1> DEFINE m == [mem[c] EXCEPT !.seen = FALSE]
<1>2. /\ m \in MemState /\ m.st = mem[c].st /\ m.fd = mem[c].fd /\ m.is_active = mem[c].is_active
      /\ m.user_id = mem[c].user_id /\ m.topics = mem[c].topics
  BY <1>1 DEF MemState
<1>3. mem' = [mem EXCEPT ![c] = m]
  BY <1>1
<1> HIDE DEF m
<1> QED
  BY <1>1, <1>2, <1>3 DEF Silence

LEMMA CollectEffect ==
  ASSUME Shape, Collect
  PROVE  /\ Moved(Maint) /\ th[Maint].pc = "reap" /\ th'[Maint].pc = "reaping"
         /\ th'[Maint].op = th[Maint].op /\ th'[Maint].fd = th[Maint].fd
         /\ th'[Maint].cl = th[Maint].cl /\ th'[Maint].key = th[Maint].key
         /\ th'[Maint].todo = th[Maint].todo
         /\ th'[Maint].dead \subseteq {mem[c].fd : c \in {x \in clients : ~mem[x].seen}}
<1> DEFINE S == {mem[c].fd : c \in {x \in clients : mem[x].is_active /\ ~mem[x].seen}}
<1>1. Types /\ th[Maint].pc = "reap" /\ th[Maint] \in ThreadState /\ Maint \in Thread
      /\ "reaping" \in Step
  BY DEF Shape, Types, Collect, At, Thread, Step
<1>2. S \subseteq Fd /\ S \subseteq {mem[c].fd : c \in {x \in clients : ~mem[x].seen}}
  BY DEF Shape, Lent
<1>3. th' = [th EXCEPT ![Maint].pc = "reaping", ![Maint].dead = S]
  BY DEF Collect
<1> HIDE DEF S
<1> DEFINE s == [th[Maint] EXCEPT !.pc = "reaping", !.dead = S]
<1>4. /\ s \in ThreadState /\ s.pc = "reaping" /\ s.op = th[Maint].op /\ s.fd = th[Maint].fd
      /\ s.cl = th[Maint].cl /\ s.key = th[Maint].key /\ s.todo = th[Maint].todo /\ s.dead = S
  BY <1>1, <1>2 DEF ThreadState
<1>5. th' = [th EXCEPT ![Maint] = s]
  BY <1>1, <1>3 DEF Types
<1> HIDE DEF s
<1> QED
  BY <1>1, <1>2, <1>4, <1>5 DEF Moved, Types

LEMMA ReapCloseEffect ==
  ASSUME Shape, NEW f \in Fd, ReapClose(f)
  PROVE  /\ Moved(Maint) /\ th[Maint].pc = "reaping" /\ th'[Maint].pc = "remove"
         /\ f \in th[Maint].dead /\ th'[Maint].dead = th[Maint].dead \ {f}
         /\ th'[Maint].op = th[Maint].op /\ th'[Maint].fd = f
         /\ th'[Maint].cl = th[Maint].cl /\ th'[Maint].key = th[Maint].key
         /\ th'[Maint].todo = th[Maint].todo
         /\ conn' \in [Fd -> Client \cup {0}] /\ conn'[f] = 0
         /\ \A g \in Fd : g # f => conn'[g] = conn[g]
         /\ snatched' = snatched \cup ({conn[f]} \ {0}) /\ snatched' \subseteq Client
<1>1. /\ Types /\ th[Maint].pc = "reaping" /\ th[Maint] \in ThreadState /\ Maint \in Thread
      /\ "remove" \in Step /\ f \in th[Maint].dead
      /\ conn' = [conn EXCEPT ![f] = 0] /\ snatched' = snatched \cup ({conn[f]} \ {0})
  BY DEF Shape, Types, ReapClose, At, Thread, Step
<1> DEFINE s == [th[Maint] EXCEPT !.fd = f, !.dead = @ \ {f}, !.pc = "remove"]
<1>2. /\ s \in ThreadState /\ s.pc = "remove" /\ s.op = th[Maint].op /\ s.fd = f
      /\ s.cl = th[Maint].cl /\ s.key = th[Maint].key /\ s.todo = th[Maint].todo
      /\ s.dead = th[Maint].dead \ {f}
  BY <1>1 DEF ThreadState
<1>3. th' = [th EXCEPT ![Maint] = s]
  BY <1>1 DEF ReapClose, Types
<1> HIDE DEF s
<1>4. Moved(Maint) /\ th'[Maint] = s
  BY <1>1, <1>2, <1>3 DEF Moved, Types
<1>5. /\ conn' \in [Fd -> Client \cup {0}] /\ conn'[f] = 0
      /\ \A g \in Fd : g # f => conn'[g] = conn[g]
      /\ snatched' \subseteq Client
  BY <1>1 DEF Types
<1> QED
  BY <1>1, <1>2, <1>4, <1>5

LEMMA ReapedEffect ==
  ASSUME Shape, Reaped
  PROVE  Moved(Maint) /\ Rested(Maint) /\ th[Maint].pc = "reaping" /\ th[Maint].dead = {}
<1>1. Types /\ Maint \in Thread /\ Rest(Maint) /\ th[Maint].pc = "reaping" /\ th[Maint].dead = {}
  BY DEF Reaped, Shape, Thread, At
<1> QED
  BY <1>1, RestMoves

LEMMA AcceptEffect ==
  ASSUME Shape, NEW f \in Fd, Accept(f)
  PROVE  /\ conn[f] = 0 /\ accepted' = accepted + 1 /\ accepted' \in Client
         /\ accepted' \in 0 .. MaxConn
         /\ conn' \in [Fd -> Client \cup {0}] /\ conn'[f] = accepted'
         /\ \A g \in Fd : g # f => conn'[g] = conn[g]
<1>1. /\ conn \in [Fd -> Client \cup {0}] /\ accepted \in 0 .. MaxConn /\ MaxConn \in Nat
      /\ conn[f] = 0 /\ accepted < MaxConn /\ accepted' = accepted + 1
      /\ conn' = [conn EXCEPT ![f] = accepted']
  BY RegistryAssumption DEF Shape, Types, Accept
<1>2. accepted' \in Client /\ accepted' \in 0 .. MaxConn
  BY <1>1 DEF Client
<1> QED
  BY <1>1, <1>2

LEMMA ThreadsTyped ==
  /\ Worker \subseteq Thread /\ Bridge \in Thread /\ Maint \in Thread
  /\ Bridge \notin Worker /\ Maint \notin Worker /\ Bridge # Maint
  /\ None \notin Thread /\ None \notin Client
BY RegistryAssumption DEF Thread

LEMMA TypesStep ==
  ASSUME Shape, [Next]_vars
  PROVE  Types' /\ Lent'
<1>1. ASSUME NEW f \in Fd, Accept(f)
      PROVE  Types' /\ Lent'
  BY <1>1, AcceptEffect, ThreadsTyped DEF Accept, Shape, Types, Lent, Moved, tables,
     locks, net
<1>2. ASSUME NEW t \in Worker, NEW f \in Fd, Http(t, f)
      PROVE  Types' /\ Lent'
  BY <1>2, HttpEffect, ThreadsTyped DEF Http, Shape, Types, Lent, Moved, tables,
     locks, net
<1>3. ASSUME NEW t \in Worker, NEW f \in Fd, Message(t, f)
      PROVE  Types' /\ Lent'
  BY <1>3, MessageEffect, ThreadsTyped DEF Message, Shape, Types, Lent, Moved,
     tables, locks, net
<1>4. CASE Internal
  BY <1>4, InternalEffect, ThreadsTyped DEF Internal, Shape, Types, Lent, Moved,
     tables, locks, net
<1>5. ASSUME NEW t \in Thread, Add(t)
      PROVE  Types' /\ Lent'
  <2>1. /\ UNCHANGED <<buckets, user_map, locks, net>> /\ Types /\ Lent /\ Moved(t)
    BY <1>5, AddEffect DEF Add, Shape
  <2>2. CASE UNCHANGED <<mem, clients, fd_map, current_count>>
    BY <2>1, <2>2 DEF Types, Lent, Moved, locks, net
  <2>3. CASE ~UNCHANGED <<mem, clients, fd_map, current_count>>
    <3>1. /\ th[t].cl \in Client /\ th[t].fd \in Fd /\ mem' \in [Client -> MemState]
          /\ mem'[th[t].cl].fd = th[t].fd
          /\ \A d \in Client : d # th[t].cl => mem'[d] = mem[d]
          /\ clients' = clients \cup {th[t].cl} /\ fd_map' \in [Fd -> Client \cup {None}]
          /\ current_count' = current_count + 1
      BY <1>5, <2>3, AddEffect, RestTyped DEF MemState
    <3>2. Lent'
      BY <2>1, <3>1 DEF Lent, Types
    <3>3. Types'
      BY <2>1, <3>1 DEF Types, Moved, locks, net
    <3> QED
      BY <3>2, <3>3
  <2> QED
    BY <2>2, <2>3
<1>6. ASSUME NEW t \in Thread, SetFlag(t)
      PROVE  Types' /\ Lent'
  BY <1>6, SetFlagEffect, ThreadsTyped DEF SetFlag, Shape, Types, Lent, Moved,
     tables, locks, net
<1>7. ASSUME NEW t \in Thread, UpdateActivity(t)
      PROVE  Types' /\ Lent'
  BY <1>7, UpdateActivityEffect, ThreadsTyped DEF UpdateActivity, Shape, Types,
     Lent, Moved, tables, locks, net
<1>8. ASSUME NEW t \in Thread, SetUserId(t)
      PROVE  Types' /\ Lent'
  BY <1>8, SetUserIdEffect, ThreadsTyped DEF SetUserId, Shape, Types, Lent, Moved,
     tables, locks, net
<1>9. ASSUME NEW t \in Thread, SubFind(t)
      PROVE  Types' /\ Lent'
  BY <1>9, SubFindEffect, ThreadsTyped DEF SubFind, Shape, Types, Lent, Moved,
     tables, locks, net
<1>10. ASSUME NEW t \in Thread, SubBucket(t)
      PROVE  Types' /\ Lent'
  BY <1>10, SubBucketEffect, ThreadsTyped DEF SubBucket, Shape, Types, Lent, Moved,
     tables, locks, net
<1>11. ASSUME NEW t \in Thread, SubInsert(t)
      PROVE  Types' /\ Lent'
  BY <1>11, SubInsertEffect, ThreadsTyped DEF SubInsert, Shape, Types, Lent, Moved,
     tables, locks, net
<1>12. ASSUME NEW t \in Thread, SubRecord(t)
      PROVE  Types' /\ Lent'
  BY <1>12, SubRecordEffect, ThreadsTyped DEF SubRecord, Shape, Types, Lent, Moved,
     tables, locks, net
<1>13. ASSUME NEW t \in Thread, WalkClients(t)
      PROVE  Types' /\ Lent'
  BY <1>13, WalkClientsEffect, ThreadsTyped DEF WalkClients, Shape, Types, Lent,
     Moved, tables, locks, net
<1>14. ASSUME NEW t \in Thread, PubBucket(t)
      PROVE  Types' /\ Lent'
  BY <1>14, PubBucketEffect, ThreadsTyped DEF PubBucket, Shape, Types, Lent, Moved,
     tables, locks, net
<1>15. ASSUME NEW t \in Thread, WalkBucket(t)
      PROVE  Types' /\ Lent'
  BY <1>15, WalkBucketEffect, ThreadsTyped DEF WalkBucket, Shape, Types, Lent,
     Moved, tables, locks, net
<1>16. ASSUME NEW t \in Thread, Sent(t)
      PROVE  Types' /\ Lent'
  BY <1>16, SentEffect, ThreadsTyped DEF Sent, Shape, Types, Lent, Moved, tables,
     locks, net
<1>17. ASSUME NEW t \in Thread, Walked(t)
      PROVE  Types' /\ Lent'
  BY <1>17, WalkedEffect, ThreadsTyped DEF Walked, Shape, Types, Lent, Moved,
     tables, locks, net
<1>18. ASSUME NEW t \in Thread, NEW c \in Client, Visit(t, c)
      PROVE  Types' /\ Lent'
  BY <1>18, VisitEffect, ThreadsTyped DEF Visit, Shape, Types, Lent, Moved, tables,
     locks, net
<1>19. ASSUME NEW t \in Thread, FindUser(t)
      PROVE  Types' /\ Lent'
  BY <1>19, FindUserEffect, ThreadsTyped DEF FindUser, Shape, Types, Lent, Moved,
     tables, locks, net
<1>20. ASSUME NEW t \in Thread, Validate(t)
      PROVE  Types' /\ Lent'
  BY <1>20, ValidateEffect, ThreadsTyped DEF Validate, Shape, Types, Lent, Moved,
     tables, locks, net
<1>21. ASSUME NEW t \in Thread, Written(t)
      PROVE  Types' /\ Lent'
  BY <1>21, WrittenEffect, ThreadsTyped DEF Written, Shape, Types, Lent, Moved,
     tables, locks, net
<1>22. ASSUME NEW t \in Thread, Cleanup(t)
      PROVE  Types' /\ Lent'
  BY <1>22, CleanupEffect, ThreadsTyped DEF Cleanup, Shape, Types, Lent, Moved,
     tables, locks, net
<1>23. ASSUME NEW t \in Thread, RemoveFind(t)
      PROVE  Types' /\ Lent'
  BY <1>23, RemoveFindEffect, ThreadsTyped DEF RemoveFind, Shape, Types, Lent,
     Moved, tables, locks, net
<1>24. ASSUME NEW t \in Thread, Deactivate(t)
      PROVE  Types' /\ Lent'
  BY <1>24, DeactivateEffect, ThreadsTyped DEF Deactivate, Shape, Types, Lent,
     Moved, tables, locks, net
<1>25. ASSUME NEW t \in Thread, ForgetUser(t)
      PROVE  Types' /\ Lent'
  BY <1>25, ForgetUserEffect, ThreadsTyped DEF ForgetUser, Shape, Types, Lent,
     Moved, tables, locks, net
<1>26. ASSUME NEW t \in Thread, LockHash(t)
      PROVE  Types' /\ Lent'
  BY <1>26, LockHashEffect, ThreadsTyped DEF LockHash, Shape, Types, Lent, Moved,
     tables, locks, net
<1>27. ASSUME NEW t \in Thread, NEW k \in Topic, Unsubscribe(t, k)
      PROVE  Types' /\ Lent'
  BY <1>27, UnsubscribeEffect, ThreadsTyped DEF Unsubscribe, Shape, Types, Lent,
     Moved, tables, locks, net
<1>28. ASSUME NEW t \in Thread, Release(t)
      PROVE  Types' /\ Lent'
  <2>1. /\ UNCHANGED <<buckets, user_map, topic_lock, client_lock, net>>
        /\ Types /\ Lent /\ Moved(t)
        /\ clients' = clients \ {th[t].cl} /\ current_count' = current_count - 1
        /\ fd_map' \in [Fd -> Client \cup {None}] /\ mem' \in [Client -> MemState]
        /\ \A c \in Client : c # th[t].cl => mem'[c] = mem[c]
        /\ registry_lock' = None /\ hash_lock' = None
    BY <1>28, ReleaseEffect DEF Release, Shape
  <2>2. Lent'
    BY <2>1 DEF Lent, Types
  <2>3. Types'
    BY <2>1 DEF Types, Moved, net
  <2> QED
    BY <2>2, <2>3
<1>29. ASSUME NEW t \in Thread, ClearFlag(t)
      PROVE  Types' /\ Lent'
  BY <1>29, ClearFlagEffect, ThreadsTyped DEF ClearFlag, Shape, Types, Lent, Moved,
     tables, locks, net
<1>30. ASSUME NEW t \in Thread, Shut(t)
      PROVE  Types' /\ Lent'
  BY <1>30, ShutEffect, ThreadsTyped DEF Shut, Shape, Types, Lent, Moved, tables,
     locks, net
<1>31. CASE Wake
  BY <1>31, WakeEffect, ThreadsTyped DEF Wake, Shape, Types, Lent, Moved, tables,
     locks, net
<1>32. CASE Collect
  BY <1>32, CollectEffect, ThreadsTyped DEF Collect, Shape, Types, Lent, Moved,
     tables, locks, net
<1>33. ASSUME NEW f \in Fd, ReapClose(f)
      PROVE  Types' /\ Lent'
  BY <1>33, ReapCloseEffect, ThreadsTyped DEF ReapClose, Shape, Types, Lent, Moved,
     tables, locks, net
<1>34. CASE Reaped
  BY <1>34, ReapedEffect, ThreadsTyped DEF Reaped, Shape, Types, Lent, Moved,
     tables, locks, net
<1>35. ASSUME NEW c \in Client, Silence(c)
      PROVE  Types' /\ Lent'
  BY <1>35, SilenceEffect, ThreadsTyped DEF Silence, Shape, Types, Lent, Moved,
     tables, locks, net
<1>36. CASE UNCHANGED vars
  BY <1>36 DEF vars, tables, locks, net, Shape, Types, Lent
<1> QED
  BY <1>1, <1>2, <1>3, <1>4, <1>5, <1>6, <1>7, <1>8, <1>9, <1>10, <1>11, <1>12,
     <1>13, <1>14, <1>15, <1>16, <1>17, <1>18, <1>19, <1>20, <1>21, <1>22, <1>23,
     <1>24, <1>25, <1>26, <1>27, <1>28, <1>29, <1>30, <1>31, <1>32, <1>33, <1>34,
     <1>35, <1>36 DEF Next, Registry, Send, Leave, Maintain

LEMMA RestingPlaced ==
  ASSUME NEW t \in Thread, Rested(t)
  PROVE  Placed(t)'
BY RestingFields, RegistryAssumption DEF Rested, Placed, OnFd, OnClient, Removal,
   Subscribing, Walking,
   ClientOps, BridgeOps

(* The step of one thread leaves the others where they are.                *)
LEMMA PlacedAll ==
  ASSUME Shape, NEW t \in Thread, Moved(t), Placed(t)'
  PROVE  \A u \in Thread : Placed(u)'
BY DEF Shape, Moved, Placed

LEMMA PlacedStep ==
  ASSUME Shape, [Next]_vars
  PROVE  \A u \in Thread : Placed(u)'
<1>0. /\ Types /\ \A u \in Thread : Placed(u)
      /\ None \notin ClientOps \cup BridgeOps \cup {"add", "flag", "heartbeat"}
  BY RegistryAssumption DEF Shape
<1>1. ASSUME NEW f \in Fd, Accept(f)
      PROVE  \A u \in Thread : Placed(u)'
  BY <1>0, <1>1 DEF Accept, Placed
<1>2. ASSUME NEW t \in Worker, NEW f \in Fd, Http(t, f)
      PROVE  \A u \in Thread : Placed(u)'
  <2>1. Moved(t) /\ Placed(t)'
    BY <1>0, <1>2, HttpEffect, RestingPlaced, KeysTyped, ThreadsTyped DEF Placed,
       OnFd, OnClient, Removal, Subscribing, Walking, Kept, KeptAll, Types,
       ThreadState, ClientOps, BridgeOps, AfterRemove
  <2> QED
    BY <2>1, PlacedAll, ThreadsTyped
<1>3. ASSUME NEW t \in Worker, NEW f \in Fd, Message(t, f)
      PROVE  \A u \in Thread : Placed(u)'
  <2>1. Moved(t) /\ Placed(t)'
    BY <1>0, <1>3, MessageEffect, RestingPlaced, KeysTyped, ThreadsTyped DEF
       Placed, OnFd, OnClient, Removal, Subscribing, Walking, Kept, KeptAll,
       Types, ThreadState, ClientOps, BridgeOps, AfterRemove
  <2> QED
    BY <2>1, PlacedAll, ThreadsTyped
<1>4. CASE Internal
  <2>1. Moved(Bridge) /\ Placed(Bridge)'
    BY <1>0, <1>4, InternalEffect, RestingPlaced, KeysTyped, ThreadsTyped DEF
       Placed, OnFd, OnClient, Removal, Subscribing, Walking, Kept, KeptAll,
       Types, ThreadState, ClientOps, BridgeOps, AfterRemove
  <2> QED
    BY <2>1, PlacedAll, ThreadsTyped
<1>5. ASSUME NEW t \in Thread, Add(t)
      PROVE  \A u \in Thread : Placed(u)'
  <2>0. /\ Moved(t) /\ Placed(t)
        /\ KeptAll(t) /\ th[t].pc = "add" /\ th'[t].pc \in {"broadcast", "flag"}
    BY <1>0, <1>5, AddEffect
  <2>1. Moved(t) /\ Placed(t)'
    BY <2>0, ThreadsTyped DEF Placed, OnFd, OnClient, Removal, Subscribing,
       Walking, Kept, KeptAll
  <2> QED
    BY <2>1, PlacedAll, ThreadsTyped
<1>6. ASSUME NEW t \in Thread, SetFlag(t)
      PROVE  \A u \in Thread : Placed(u)'
  <2>1. Moved(t) /\ Placed(t)'
    BY <1>0, <1>6, SetFlagEffect, RestingPlaced, KeysTyped, ThreadsTyped DEF
       Placed, OnFd, OnClient, Removal, Subscribing, Walking, Kept, KeptAll,
       Types, ThreadState, ClientOps, BridgeOps, AfterRemove
  <2> QED
    BY <2>1, PlacedAll, ThreadsTyped
<1>7. ASSUME NEW t \in Thread, UpdateActivity(t)
      PROVE  \A u \in Thread : Placed(u)'
  <2>1. Moved(t) /\ Placed(t)'
    BY <1>0, <1>7, UpdateActivityEffect, RestingPlaced, KeysTyped, ThreadsTyped
       DEF Placed, OnFd, OnClient, Removal, Subscribing, Walking, Kept, KeptAll,
       Types, ThreadState, ClientOps, BridgeOps, AfterRemove
  <2> QED
    BY <2>1, PlacedAll, ThreadsTyped
<1>8. ASSUME NEW t \in Thread, SetUserId(t)
      PROVE  \A u \in Thread : Placed(u)'
  <2>1. Moved(t) /\ Placed(t)'
    BY <1>0, <1>8, SetUserIdEffect, RestingPlaced, KeysTyped, ThreadsTyped DEF
       Placed, OnFd, OnClient, Removal, Subscribing, Walking, Kept, KeptAll,
       Types, ThreadState, ClientOps, BridgeOps, AfterRemove
  <2> QED
    BY <2>1, PlacedAll, ThreadsTyped
<1>9. ASSUME NEW t \in Thread, SubFind(t)
      PROVE  \A u \in Thread : Placed(u)'
  <2>1. Moved(t) /\ Placed(t)'
    BY <1>0, <1>9, SubFindEffect, RestingPlaced, KeysTyped, ThreadsTyped DEF
       Placed, OnFd, OnClient, Removal, Subscribing, Walking, Kept, KeptAll,
       Types, ThreadState, ClientOps, BridgeOps, AfterRemove
  <2> QED
    BY <2>1, PlacedAll, ThreadsTyped
<1>10. ASSUME NEW t \in Thread, SubBucket(t)
      PROVE  \A u \in Thread : Placed(u)'
  <2>0. /\ Moved(t) /\ Placed(t)
        /\ KeptAll(t) /\ th[t].pc = "subscribe" /\ th'[t].pc = "insert"
    BY <1>0, <1>10, SubBucketEffect
  <2>1. Moved(t) /\ Placed(t)'
    BY <2>0, ThreadsTyped DEF Placed, OnFd, OnClient, Removal, Subscribing,
       Walking, Kept, KeptAll
  <2> QED
    BY <2>1, PlacedAll, ThreadsTyped
<1>11. ASSUME NEW t \in Thread, SubInsert(t)
      PROVE  \A u \in Thread : Placed(u)'
  <2>1. Moved(t) /\ Placed(t)'
    BY <1>0, <1>11, SubInsertEffect, RestingPlaced, KeysTyped, ThreadsTyped, SMTT(30) DEF
       Placed, OnFd, OnClient, Removal, Subscribing, Walking, Kept, KeptAll,
       Types, ThreadState, ClientOps, BridgeOps, AfterRemove
  <2> QED
    BY <2>1, PlacedAll, ThreadsTyped
<1>12. ASSUME NEW t \in Thread, SubRecord(t)
      PROVE  \A u \in Thread : Placed(u)'
  <2>1. Moved(t) /\ Placed(t)'
    BY <1>0, <1>12, SubRecordEffect, RestingPlaced, KeysTyped, ThreadsTyped DEF
       Placed, OnFd, OnClient, Removal, Subscribing, Walking, Kept, KeptAll,
       Types, ThreadState, ClientOps, BridgeOps, AfterRemove
  <2> QED
    BY <2>1, PlacedAll, ThreadsTyped
<1>13. ASSUME NEW t \in Thread, WalkClients(t)
      PROVE  \A u \in Thread : Placed(u)'
  <2>1. Moved(t) /\ Placed(t)'
    BY <1>0, <1>13, WalkClientsEffect, RestingPlaced, KeysTyped, ThreadsTyped DEF
       Placed, OnFd, OnClient, Removal, Subscribing, Walking, Kept, KeptAll,
       Types, ThreadState, ClientOps, BridgeOps, AfterRemove
  <2> QED
    BY <2>1, PlacedAll, ThreadsTyped
<1>14. ASSUME NEW t \in Thread, PubBucket(t)
      PROVE  \A u \in Thread : Placed(u)'
  <2>1. Moved(t) /\ Placed(t)'
    BY <1>0, <1>14, PubBucketEffect, RestingPlaced, KeysTyped, ThreadsTyped DEF
       Placed, OnFd, OnClient, Removal, Subscribing, Walking, Kept, KeptAll,
       Types, ThreadState, ClientOps, BridgeOps, AfterRemove
  <2> QED
    BY <2>1, PlacedAll, ThreadsTyped
<1>15. ASSUME NEW t \in Thread, WalkBucket(t)
      PROVE  \A u \in Thread : Placed(u)'
  <2>1. Moved(t) /\ Placed(t)'
    BY <1>0, <1>15, WalkBucketEffect, RestingPlaced, KeysTyped, ThreadsTyped DEF
       Placed, OnFd, OnClient, Removal, Subscribing, Walking, Kept, KeptAll,
       Types, ThreadState, ClientOps, BridgeOps, AfterRemove
  <2> QED
    BY <2>1, PlacedAll, ThreadsTyped
<1>16. ASSUME NEW t \in Thread, Sent(t)
      PROVE  \A u \in Thread : Placed(u)'
  <2>1. Moved(t) /\ Placed(t)'
    BY <1>0, <1>16, SentEffect, RestingPlaced, KeysTyped, ThreadsTyped DEF Placed,
       OnFd, OnClient, Removal, Subscribing, Walking, Kept, KeptAll, Types,
       ThreadState, ClientOps, BridgeOps, AfterRemove
  <2> QED
    BY <2>1, PlacedAll, ThreadsTyped
<1>17. ASSUME NEW t \in Thread, Walked(t)
      PROVE  \A u \in Thread : Placed(u)'
  <2>0. Moved(t) /\ Placed(t) /\ th[t].pc = "walk"
    BY <1>0, <1>17, WalkedEffect
  <2>1. Moved(t) /\ Placed(t)'
    <3>1. CASE Rested(t)
      BY <2>0, <3>1, RestingPlaced
    <3>2. CASE ~Rested(t)
      <4>1. /\ KeptAll(t)
            /\ \/ th[t].op = "add" /\ th'[t].pc = "flag"
               \/ th[t].op = "heartbeat" /\ th'[t].pc = "reap"
        BY <1>0, <1>17, <3>2, WalkedEffect
      <4> QED
        BY <1>0, <2>0, <4>1, ThreadsTyped DEF Thread, BridgeOps, ClientOps,
           Placed, OnFd, OnClient, Removal, Subscribing, Walking,
           Kept, KeptAll
    <3> QED
      BY <3>1, <3>2
  <2> QED
    BY <2>1, PlacedAll, ThreadsTyped
<1>18. ASSUME NEW t \in Thread, NEW c \in Client, Visit(t, c)
      PROVE  \A u \in Thread : Placed(u)'
  <2>1. Moved(t) /\ Placed(t)'
    BY <1>0, <1>18, VisitEffect, RestingPlaced, KeysTyped, ThreadsTyped DEF
       Placed, OnFd, OnClient, Removal, Subscribing, Walking, Kept, KeptAll,
       Types, ThreadState, ClientOps, BridgeOps, AfterRemove
  <2> QED
    BY <2>1, PlacedAll, ThreadsTyped
<1>19. ASSUME NEW t \in Thread, FindUser(t)
      PROVE  \A u \in Thread : Placed(u)'
  <2>1. Moved(t) /\ Placed(t)'
    BY <1>0, <1>19, FindUserEffect, RestingPlaced, KeysTyped, ThreadsTyped DEF
       Placed, OnFd, OnClient, Removal, Subscribing, Walking, Kept, KeptAll,
       Types, ThreadState, ClientOps, BridgeOps, AfterRemove
  <2> QED
    BY <2>1, PlacedAll, ThreadsTyped
<1>20. ASSUME NEW t \in Thread, Validate(t)
      PROVE  \A u \in Thread : Placed(u)'
  <2>1. Moved(t) /\ Placed(t)'
    BY <1>0, <1>20, ValidateEffect, RestingPlaced, KeysTyped, ThreadsTyped DEF
       Placed, OnFd, OnClient, Removal, Subscribing, Walking, Kept, KeptAll,
       Types, ThreadState, ClientOps, BridgeOps, AfterRemove
  <2> QED
    BY <2>1, PlacedAll, ThreadsTyped
<1>21. ASSUME NEW t \in Thread, Written(t)
      PROVE  \A u \in Thread : Placed(u)'
  <2>1. Moved(t) /\ Placed(t)'
    BY <1>0, <1>21, WrittenEffect, RestingPlaced, KeysTyped, ThreadsTyped DEF
       Placed, OnFd, OnClient, Removal, Subscribing, Walking, Kept, KeptAll,
       Types, ThreadState, ClientOps, BridgeOps, AfterRemove
  <2> QED
    BY <2>1, PlacedAll, ThreadsTyped
<1>22. ASSUME NEW t \in Thread, Cleanup(t)
      PROVE  \A u \in Thread : Placed(u)'
  <2>1. Moved(t) /\ Placed(t)'
    BY <1>0, <1>22, CleanupEffect, RestingPlaced, KeysTyped, ThreadsTyped DEF
       Placed, OnFd, OnClient, Removal, Subscribing, Walking, Kept, KeptAll,
       Types, ThreadState, ClientOps, BridgeOps, AfterRemove
  <2> QED
    BY <2>1, PlacedAll, ThreadsTyped
<1>23. ASSUME NEW t \in Thread, RemoveFind(t)
      PROVE  \A u \in Thread : Placed(u)'
  <2>1. Moved(t) /\ Placed(t)'
    BY <1>0, <1>23, RemoveFindEffect, RestingPlaced, KeysTyped, ThreadsTyped DEF
       Placed, OnFd, OnClient, Removal, Subscribing, Walking, Kept, KeptAll,
       Types, ThreadState, ClientOps, BridgeOps, AfterRemove
  <2> QED
    BY <2>1, PlacedAll, ThreadsTyped
<1>24. ASSUME NEW t \in Thread, Deactivate(t)
      PROVE  \A u \in Thread : Placed(u)'
  <2>1. Moved(t) /\ Placed(t)'
    BY <1>0, <1>24, DeactivateEffect, RestingPlaced, KeysTyped, ThreadsTyped DEF
       Placed, OnFd, OnClient, Removal, Subscribing, Walking, Kept, KeptAll,
       Types, ThreadState, ClientOps, BridgeOps, AfterRemove
  <2> QED
    BY <2>1, PlacedAll, ThreadsTyped
<1>25. ASSUME NEW t \in Thread, ForgetUser(t)
      PROVE  \A u \in Thread : Placed(u)'
  <2>0. /\ Moved(t) /\ Placed(t)
        /\ KeptAll(t) /\ th[t].pc = "forget" /\ th'[t].pc = "unhash"
    BY <1>0, <1>25, ForgetUserEffect
  <2>1. Moved(t) /\ Placed(t)'
    BY <2>0, ThreadsTyped DEF Placed, OnFd, OnClient, Removal, Subscribing,
       Walking, Kept, KeptAll
  <2> QED
    BY <2>1, PlacedAll, ThreadsTyped
<1>26. ASSUME NEW t \in Thread, LockHash(t)
      PROVE  \A u \in Thread : Placed(u)'
  <2>1. Moved(t) /\ Placed(t)'
    BY <1>0, <1>26, LockHashEffect, RestingPlaced, KeysTyped, ThreadsTyped, SMTT(30) DEF
       Placed, OnFd, OnClient, Removal, Subscribing, Walking, Kept, KeptAll,
       Types, ThreadState, ClientOps, BridgeOps, AfterRemove
  <2> QED
    BY <2>1, PlacedAll, ThreadsTyped
<1>27. ASSUME NEW t \in Thread, NEW k \in Topic, Unsubscribe(t, k)
      PROVE  \A u \in Thread : Placed(u)'
  <2>1. Moved(t) /\ Placed(t)'
    BY <1>0, <1>27, UnsubscribeEffect, RestingPlaced, KeysTyped, ThreadsTyped DEF
       Placed, OnFd, OnClient, Removal, Subscribing, Walking, Kept, KeptAll,
       Types, ThreadState, ClientOps, BridgeOps, AfterRemove
  <2> QED
    BY <2>1, PlacedAll, ThreadsTyped
<1>28. ASSUME NEW t \in Thread, Release(t)
      PROVE  \A u \in Thread : Placed(u)'
  <2>1. Moved(t) /\ Placed(t)'
    BY <1>0, <1>28, ReleaseEffect, RestingPlaced, KeysTyped, ThreadsTyped DEF
       Placed, OnFd, OnClient, Removal, Subscribing, Walking, Kept, KeptAll,
       Types, ThreadState, ClientOps, BridgeOps, AfterRemove
  <2> QED
    BY <2>1, PlacedAll, ThreadsTyped
<1>29. ASSUME NEW t \in Thread, ClearFlag(t)
      PROVE  \A u \in Thread : Placed(u)'
  <2>0. /\ Moved(t) /\ Placed(t)
        /\ KeptAll(t) /\ th[t].pc = "unflag" /\ th'[t].pc = "shut"
    BY <1>0, <1>29, ClearFlagEffect
  <2>1. Moved(t) /\ Placed(t)'
    BY <2>0, ThreadsTyped DEF Placed, OnFd, OnClient, Removal, Subscribing,
       Walking, Kept, KeptAll
  <2> QED
    BY <2>1, PlacedAll, ThreadsTyped
<1>30. ASSUME NEW t \in Thread, Shut(t)
      PROVE  \A u \in Thread : Placed(u)'
  <2>1. Moved(t) /\ Placed(t)'
    BY <1>0, <1>30, ShutEffect, RestingPlaced, KeysTyped, ThreadsTyped DEF Placed,
       OnFd, OnClient, Removal, Subscribing, Walking, Kept, KeptAll, Types,
       ThreadState, ClientOps, BridgeOps, AfterRemove
  <2> QED
    BY <2>1, PlacedAll, ThreadsTyped
<1>31. CASE Wake
  <2>1. Moved(Maint) /\ Placed(Maint)'
    BY <1>0, <1>31, WakeEffect, RestingPlaced, KeysTyped, ThreadsTyped DEF Placed,
       OnFd, OnClient, Removal, Subscribing, Walking, Kept, KeptAll, Types,
       ThreadState, ClientOps, BridgeOps, AfterRemove
  <2> QED
    BY <2>1, PlacedAll, ThreadsTyped
<1>32. CASE Collect
  <2>1. Moved(Maint) /\ Placed(Maint)'
    BY <1>0, <1>32, CollectEffect, RestingPlaced, KeysTyped, ThreadsTyped DEF
       Placed, OnFd, OnClient, Removal, Subscribing, Walking, Kept, KeptAll,
       Types, ThreadState, ClientOps, BridgeOps, AfterRemove
  <2> QED
    BY <2>1, PlacedAll, ThreadsTyped
<1>33. ASSUME NEW f \in Fd, ReapClose(f)
      PROVE  \A u \in Thread : Placed(u)'
  <2>1. Moved(Maint) /\ Placed(Maint)'
    BY <1>0, <1>33, ReapCloseEffect, RestingPlaced, KeysTyped, ThreadsTyped DEF
       Placed, OnFd, OnClient, Removal, Subscribing, Walking, Kept, KeptAll,
       Types, ThreadState, ClientOps, BridgeOps, AfterRemove
  <2> QED
    BY <2>1, PlacedAll, ThreadsTyped
<1>34. CASE Reaped
  <2>1. Moved(Maint) /\ Placed(Maint)'
    BY <1>0, <1>34, ReapedEffect, RestingPlaced, KeysTyped, ThreadsTyped DEF
       Placed, OnFd, OnClient, Removal, Subscribing, Walking, Kept, KeptAll,
       Types, ThreadState, ClientOps, BridgeOps, AfterRemove
  <2> QED
    BY <2>1, PlacedAll, ThreadsTyped
<1>35. ASSUME NEW c \in Client, Silence(c)
      PROVE  \A u \in Thread : Placed(u)'
  BY <1>0, <1>35 DEF Silence, Placed
<1>36. CASE UNCHANGED vars
  BY <1>0, <1>36 DEF vars, Placed
<1> QED
  BY <1>1, <1>2, <1>3, <1>4, <1>5, <1>6, <1>7, <1>8, <1>9, <1>10, <1>11, <1>12,
     <1>13, <1>14, <1>15, <1>16, <1>17, <1>18, <1>19, <1>20, <1>21, <1>22, <1>23,
     <1>24, <1>25, <1>26, <1>27, <1>28, <1>29, <1>30, <1>31, <1>32, <1>33, <1>34,
     <1>35, <1>36 DEF Next, Registry, Send, Leave, Maintain

(* Who holds a mutex at which step.                                        *)
InRegistry(t) == th[t].pc \in Removal \/ (th[t].pc \in Walking /\ th[t].op # "pub")
InTopic(t, b) == th[t].pc \in Walking /\ th[t].op = "pub" /\ Hash[th[t].key] = b
InClient(t, c) == th[t].pc = "send" /\ th[t].cl = c

HeldRight(t) ==
  /\ registry_lock = t <=> InRegistry(t)
  /\ hash_lock = t <=> th[t].pc = "unsubscribe"
  /\ \A b \in Bucket : topic_lock[b] = t <=> InTopic(t, b)
  /\ \A c \in Client : client_lock[c] = t <=> InClient(t, c)

LocksInv == \A t \in Thread : HeldRight(t)

(* A step of a thread takes a mutex that is free, gives one back that it   *)
(* holds, or leaves it.                                                    *)
Turned(old, new, t) ==
  new = old \/ (old = None /\ new = t) \/ (old = t /\ new = None)

LEMMA LocksOthers ==
  ASSUME LocksInv, NEW t \in Thread, Moved(t),
         Turned(registry_lock, registry_lock', t),
         Turned(hash_lock, hash_lock', t),
         \A b \in Bucket : Turned(topic_lock[b], topic_lock'[b], t),
         \A c \in Client : Turned(client_lock[c], client_lock'[c], t),
         HeldRight(t)'
  PROVE  LocksInv'
<1> SUFFICES ASSUME NEW u \in Thread, u # t PROVE HeldRight(u)'
  BY DEF LocksInv
<1>1. th'[u] = th[u] /\ HeldRight(u) /\ u # None
  BY ThreadsTyped DEF LocksInv, Moved
<1>2. registry_lock' = u <=> registry_lock = u
  BY <1>1 DEF Turned
<1>3. hash_lock' = u <=> hash_lock = u
  BY <1>1 DEF Turned
<1>4. \A b \in Bucket : topic_lock'[b] = u <=> topic_lock[b] = u
  BY <1>1 DEF Turned
<1>5. \A c \in Client : client_lock'[c] = u <=> client_lock[c] = u
  BY <1>1 DEF Turned
<1> QED
  BY <1>1, <1>2, <1>3, <1>4, <1>5 DEF HeldRight, InRegistry, InTopic, InClient

(* A step that leaves the mutexes, of a thread that has none before it and *)
(* none after it ...                                                       *)
LEMMA LocksAside ==
  ASSUME LocksInv, NEW t \in Thread, Moved(t), UNCHANGED locks,
         th[t].pc \notin Removal \cup Walking, th'[t].pc \notin Removal \cup Walking
  PROVE  LocksInv'
<1>1. HeldRight(t)'
  BY DEF LocksInv, HeldRight, InRegistry, InTopic, InClient, Removal, Walking, locks
<1> QED
  BY <1>1, LocksOthers DEF locks, Turned

(* ... or the same ones.                                                   *)
LEMMA LocksSame ==
  ASSUME LocksInv, NEW t \in Thread, Moved(t), UNCHANGED locks, Kept(t),
         th[t].pc \in Removal, th'[t].pc \in Removal,
         th[t].pc = "unsubscribe" <=> th'[t].pc = "unsubscribe"
  PROVE  LocksInv'
<1>1. HeldRight(t)'
  BY DEF LocksInv, HeldRight, InRegistry, InTopic, InClient, Removal, Walking,
     locks, Kept
<1> QED
  BY <1>1, LocksOthers DEF locks, Turned

LEMMA LocksStep ==
  ASSUME Shape, LocksInv, [Next]_vars
  PROVE  LocksInv'
<1>0. Types /\ \A u \in Thread : Placed(u)
  BY DEF Shape
<1>1. ASSUME NEW f \in Fd, Accept(f)
      PROVE  LocksInv'
  BY <1>1 DEF Accept, LocksInv, HeldRight, InRegistry, InTopic, InClient, Removal,
     Walking, locks
<1>2. ASSUME NEW t \in Worker, NEW f \in Fd, Http(t, f)
      PROVE  LocksInv'
  <2>1. /\ Moved(t) /\ UNCHANGED locks /\ t \in Thread
        /\ th[t].pc \notin Removal \cup Walking /\ th'[t].pc \notin Removal \cup Walking
    BY <1>2, HttpEffect, RestingFields, ThreadsTyped DEF Http, Removal, Walking,
       Rested, KeptAll,
       ClientOps, BridgeOps
  <2> QED
    BY <2>1, LocksAside
<1>3. ASSUME NEW t \in Worker, NEW f \in Fd, Message(t, f)
      PROVE  LocksInv'
  <2>1. /\ Moved(t) /\ UNCHANGED locks /\ t \in Thread
        /\ th[t].pc \notin Removal \cup Walking /\ th'[t].pc \notin Removal \cup Walking
    BY <1>3, MessageEffect, RestingFields, ThreadsTyped DEF Message, Removal,
       Walking, Rested, KeptAll,
       ClientOps, BridgeOps
  <2> QED
    BY <2>1, LocksAside
<1>4. CASE Internal
  <2>1. /\ Moved(Bridge) /\ UNCHANGED locks /\ Bridge \in Thread
        /\ th[Bridge].pc \notin Removal \cup Walking /\ th'[Bridge].pc \notin Removal \cup Walking
    BY <1>4, InternalEffect, RestingFields, ThreadsTyped DEF Internal, Removal,
       Walking, Rested, KeptAll,
       ClientOps, BridgeOps
  <2> QED
    BY <2>1, LocksAside
<1>5. ASSUME NEW t \in Thread, Add(t)
      PROVE  LocksInv'
  <2>1. /\ Moved(t) /\ UNCHANGED locks /\ t \in Thread
        /\ th[t].pc \notin Removal \cup Walking /\ th'[t].pc \notin Removal \cup Walking
    BY <1>5, AddEffect, RestingFields, ThreadsTyped DEF Add, Removal, Walking,
       Rested, KeptAll,
       ClientOps, BridgeOps
  <2> QED
    BY <2>1, LocksAside
<1>6. ASSUME NEW t \in Thread, SetFlag(t)
      PROVE  LocksInv'
  <2>1. /\ Moved(t) /\ UNCHANGED locks /\ t \in Thread
        /\ th[t].pc \notin Removal \cup Walking /\ th'[t].pc \notin Removal \cup Walking
    BY <1>6, SetFlagEffect, RestingFields, ThreadsTyped DEF SetFlag, Removal,
       Walking, Rested, KeptAll,
       ClientOps, BridgeOps
  <2> QED
    BY <2>1, LocksAside
<1>7. ASSUME NEW t \in Thread, UpdateActivity(t)
      PROVE  LocksInv'
  <2>1. /\ Moved(t) /\ UNCHANGED locks /\ t \in Thread
        /\ th[t].pc \notin Removal \cup Walking /\ th'[t].pc \notin Removal \cup Walking
    BY <1>7, UpdateActivityEffect, RestingFields, ThreadsTyped DEF UpdateActivity,
       Removal, Walking, Rested, KeptAll,
       ClientOps, BridgeOps
  <2> QED
    BY <2>1, LocksAside
<1>8. ASSUME NEW t \in Thread, SetUserId(t)
      PROVE  LocksInv'
  <2>1. /\ Moved(t) /\ UNCHANGED locks /\ t \in Thread
        /\ th[t].pc \notin Removal \cup Walking /\ th'[t].pc \notin Removal \cup Walking
    BY <1>8, SetUserIdEffect, RestingFields, ThreadsTyped DEF SetUserId, Removal,
       Walking, Rested, KeptAll,
       ClientOps, BridgeOps
  <2> QED
    BY <2>1, LocksAside
<1>9. ASSUME NEW t \in Thread, SubFind(t)
      PROVE  LocksInv'
  <2>1. /\ Moved(t) /\ UNCHANGED locks /\ t \in Thread
        /\ th[t].pc \notin Removal \cup Walking /\ th'[t].pc \notin Removal \cup Walking
    BY <1>9, SubFindEffect, RestingFields, ThreadsTyped DEF SubFind, Removal,
       Walking, Rested, KeptAll,
       ClientOps, BridgeOps
  <2> QED
    BY <2>1, LocksAside
<1>10. ASSUME NEW t \in Thread, SubBucket(t)
      PROVE  LocksInv'
  <2>1. /\ Moved(t) /\ UNCHANGED locks /\ t \in Thread
        /\ th[t].pc \notin Removal \cup Walking /\ th'[t].pc \notin Removal \cup Walking
    BY <1>10, SubBucketEffect, RestingFields, ThreadsTyped DEF SubBucket, Removal,
       Walking, Rested, KeptAll,
       ClientOps, BridgeOps
  <2> QED
    BY <2>1, LocksAside
<1>11. ASSUME NEW t \in Thread, SubInsert(t)
      PROVE  LocksInv'
  <2>1. /\ Moved(t) /\ UNCHANGED locks /\ t \in Thread
        /\ th[t].pc \notin Removal \cup Walking /\ th'[t].pc \notin Removal \cup Walking
    BY <1>11, SubInsertEffect, RestingFields, ThreadsTyped DEF SubInsert, Removal,
       Walking, Rested, KeptAll,
       ClientOps, BridgeOps
  <2> QED
    BY <2>1, LocksAside
<1>12. ASSUME NEW t \in Thread, SubRecord(t)
      PROVE  LocksInv'
  <2>1. /\ Moved(t) /\ UNCHANGED locks /\ t \in Thread
        /\ th[t].pc \notin Removal \cup Walking /\ th'[t].pc \notin Removal \cup Walking
    BY <1>12, SubRecordEffect, RestingFields, ThreadsTyped DEF SubRecord, Removal,
       Walking, Rested, KeptAll,
       ClientOps, BridgeOps
  <2> QED
    BY <2>1, LocksAside
<1>13. ASSUME NEW t \in Thread, WalkClients(t)
      PROVE  LocksInv'
  <2>1. /\ Moved(t) /\ HeldRight(t) /\ t # None
        /\ Kept(t) /\ th[t].pc \in {"broadcast", "heartbeat"} /\ th'[t].pc = "walk"
        /\ th[t].op # "pub" /\ registry_lock = None /\ registry_lock' = t
        /\ UNCHANGED <<hash_lock, topic_lock, client_lock>>
    BY <1>0, <1>13, WalkClientsEffect, ThreadsTyped DEF WalkClients, LocksInv, Placed
  <2>2. /\ Turned(registry_lock, registry_lock', t) /\ Turned(hash_lock, hash_lock', t)
        /\ \A b \in Bucket : Turned(topic_lock[b], topic_lock'[b], t)
        /\ \A c \in Client : Turned(client_lock[c], client_lock'[c], t)
    BY <1>0, <2>1 DEF Turned, Types, HeldRight, InRegistry, InTopic, InClient,
       Removal, Walking
  <2>3. HeldRight(t)'
    BY <1>0, <2>1 DEF Types, Kept, HeldRight, InRegistry, InTopic, InClient,
       Removal, Walking
  <2> QED
    BY <2>1, <2>2, <2>3, LocksOthers
<1>14. ASSUME NEW t \in Thread, PubBucket(t)
      PROVE  LocksInv'
  <2>1. /\ Moved(t) /\ UNCHANGED locks /\ t \in Thread
        /\ th[t].pc \notin Removal \cup Walking /\ th'[t].pc \notin Removal \cup Walking
    BY <1>14, PubBucketEffect, RestingFields, ThreadsTyped DEF PubBucket, Removal,
       Walking, Rested, KeptAll,
       ClientOps, BridgeOps
  <2> QED
    BY <2>1, LocksAside
<1>15. ASSUME NEW t \in Thread, WalkBucket(t)
      PROVE  LocksInv'
  <2>1. /\ Moved(t) /\ HeldRight(t) /\ t # None
        /\ Kept(t) /\ th[t].pc = "publish" /\ th[t].op = "pub" /\ th'[t].pc = "walk"
        /\ Hash[th[t].key] \in Bucket /\ topic_lock[Hash[th[t].key]] = None
        /\ topic_lock' = [topic_lock EXCEPT ![Hash[th[t].key]] = t]
        /\ UNCHANGED <<registry_lock, hash_lock, client_lock>>
    BY <1>0, <1>15, WalkBucketEffect, ThreadsTyped DEF WalkBucket, LocksInv
  <2>2. /\ Turned(registry_lock, registry_lock', t) /\ Turned(hash_lock, hash_lock', t)
        /\ \A b \in Bucket : Turned(topic_lock[b], topic_lock'[b], t)
        /\ \A c \in Client : Turned(client_lock[c], client_lock'[c], t)
    BY <1>0, <2>1 DEF Turned, Types, HeldRight, InRegistry, InTopic, InClient,
       Removal, Walking
  <2>3. HeldRight(t)'
    BY <1>0, <2>1 DEF Types, Kept, HeldRight, InRegistry, InTopic, InClient,
       Removal, Walking
  <2> QED
    BY <2>1, <2>2, <2>3, LocksOthers
<1>16. ASSUME NEW t \in Thread, Sent(t)
      PROVE  LocksInv'
  <2>1. /\ Moved(t) /\ HeldRight(t) /\ t # None
        /\ Kept(t) /\ th[t].pc = "send" /\ th'[t].pc = "walk" /\ th[t].cl \in Client
        /\ client_lock' = [client_lock EXCEPT ![th[t].cl] = None]
        /\ UNCHANGED <<registry_lock, hash_lock, topic_lock>>
    BY <1>0, <1>16, SentEffect, ThreadsTyped DEF Sent, LocksInv
  <2>2. /\ Turned(registry_lock, registry_lock', t) /\ Turned(hash_lock, hash_lock', t)
        /\ \A b \in Bucket : Turned(topic_lock[b], topic_lock'[b], t)
        /\ \A c \in Client : Turned(client_lock[c], client_lock'[c], t)
    BY <1>0, <2>1 DEF Turned, Types, HeldRight, InRegistry, InTopic, InClient,
       Removal, Walking
  <2>3. HeldRight(t)'
    BY <1>0, <2>1 DEF Types, Kept, HeldRight, InRegistry, InTopic, InClient,
       Removal, Walking
  <2> QED
    BY <2>1, <2>2, <2>3, LocksOthers
<1>17. ASSUME NEW t \in Thread, Walked(t)
      PROVE  LocksInv'
  <2>1. /\ Moved(t) /\ HeldRight(t) /\ t # None
        /\ th[t].pc = "walk" /\ th'[t].pc \in {"flag", "reap", "idle"}
        /\ \/ /\ th[t].op = "pub" /\ Hash[th[t].key] \in Bucket /\ UNCHANGED registry_lock
              /\ topic_lock' = [topic_lock EXCEPT ![Hash[th[t].key]] = None]
           \/ th[t].op # "pub" /\ registry_lock' = None /\ UNCHANGED topic_lock
        /\ UNCHANGED <<hash_lock, client_lock>>
    BY <1>0, <1>17, WalkedEffect, ThreadsTyped DEF Walked, LocksInv, Rested, Resting
  <2>2. /\ Turned(registry_lock, registry_lock', t) /\ Turned(hash_lock, hash_lock', t)
        /\ \A b \in Bucket : Turned(topic_lock[b], topic_lock'[b], t)
        /\ \A c \in Client : Turned(client_lock[c], client_lock'[c], t)
    BY <1>0, <2>1 DEF Turned, Types, HeldRight, InRegistry, InTopic, InClient,
       Removal, Walking
  <2>3. HeldRight(t)'
    BY <1>0, <2>1 DEF Types, Kept, HeldRight, InRegistry, InTopic, InClient,
       Removal, Walking
  <2> QED
    BY <2>1, <2>2, <2>3, LocksOthers
<1>18. ASSUME NEW t \in Thread, NEW c \in Client, Visit(t, c)
      PROVE  LocksInv'
  <2>1. /\ Moved(t) /\ HeldRight(t) /\ t # None
        /\ Kept(t) /\ th[t].pc = "walk"
        /\ \/ /\ th'[t].pc = "send" /\ th'[t].cl = c /\ client_lock[c] = None
              /\ client_lock' = [client_lock EXCEPT ![c] = t]
           \/ th'[t].pc = "walk" /\ UNCHANGED client_lock
        /\ UNCHANGED <<registry_lock, hash_lock, topic_lock>>
    BY <1>0, <1>18, VisitEffect, ThreadsTyped DEF Visit, LocksInv
  <2>2. /\ Turned(registry_lock, registry_lock', t) /\ Turned(hash_lock, hash_lock', t)
        /\ \A b \in Bucket : Turned(topic_lock[b], topic_lock'[b], t)
        /\ \A d \in Client : Turned(client_lock[d], client_lock'[d], t)
    BY <1>0, <2>1 DEF Turned, Types, HeldRight, InRegistry, InTopic, InClient,
       Removal, Walking
  <2>3. HeldRight(t)'
    BY <1>0, <2>1 DEF Types, Kept, HeldRight, InRegistry, InTopic, InClient,
       Removal, Walking
  <2> QED
    BY <2>1, <2>2, <2>3, LocksOthers
<1>19. ASSUME NEW t \in Thread, FindUser(t)
      PROVE  LocksInv'
  <2>1. /\ Moved(t) /\ UNCHANGED locks /\ t \in Thread
        /\ th[t].pc \notin Removal \cup Walking /\ th'[t].pc \notin Removal \cup Walking
    BY <1>19, FindUserEffect, RestingFields, ThreadsTyped DEF FindUser, Removal,
       Walking, Rested, KeptAll,
       ClientOps, BridgeOps
  <2> QED
    BY <2>1, LocksAside
<1>20. ASSUME NEW t \in Thread, Validate(t)
      PROVE  LocksInv'
  <2>1. /\ Moved(t) /\ UNCHANGED locks /\ t \in Thread
        /\ th[t].pc \notin Removal \cup Walking /\ th'[t].pc \notin Removal \cup Walking
    BY <1>20, ValidateEffect, RestingFields, ThreadsTyped DEF Validate, Removal,
       Walking, Rested, KeptAll,
       ClientOps, BridgeOps
  <2> QED
    BY <2>1, LocksAside
<1>21. ASSUME NEW t \in Thread, Written(t)
      PROVE  LocksInv'
  <2>1. /\ Moved(t) /\ UNCHANGED locks /\ t \in Thread
        /\ th[t].pc \notin Removal \cup Walking /\ th'[t].pc \notin Removal \cup Walking
    BY <1>21, WrittenEffect, RestingFields, ThreadsTyped DEF Written, Removal,
       Walking, Rested, KeptAll,
       ClientOps, BridgeOps
  <2> QED
    BY <2>1, LocksAside
<1>22. ASSUME NEW t \in Thread, Cleanup(t)
      PROVE  LocksInv'
  <2>1. /\ Moved(t) /\ UNCHANGED locks /\ t \in Thread
        /\ th[t].pc \notin Removal \cup Walking /\ th'[t].pc \notin Removal \cup Walking
    BY <1>22, CleanupEffect, RestingFields, ThreadsTyped DEF Cleanup, Removal,
       Walking, Rested, KeptAll,
       ClientOps, BridgeOps
  <2> QED
    BY <2>1, LocksAside
<1>23. ASSUME NEW t \in Thread, RemoveFind(t)
      PROVE  LocksInv'
  <2>1. /\ Moved(t) /\ HeldRight(t) /\ t # None
        /\ Kept(t) /\ th[t].pc = "remove"
        /\ \/ th'[t].pc = "deactivate" /\ registry_lock = None /\ registry_lock' = t
           \/ th'[t].pc \in {"reaping", "unflag"} /\ UNCHANGED registry_lock
        /\ UNCHANGED <<hash_lock, topic_lock, client_lock>>
    BY <1>0, <1>23, RemoveFindEffect, ThreadsTyped DEF RemoveFind, LocksInv,
       KeptAll, AfterRemove
  <2>2. /\ Turned(registry_lock, registry_lock', t) /\ Turned(hash_lock, hash_lock', t)
        /\ \A b \in Bucket : Turned(topic_lock[b], topic_lock'[b], t)
        /\ \A c \in Client : Turned(client_lock[c], client_lock'[c], t)
    BY <1>0, <2>1 DEF Turned, Types, HeldRight, InRegistry, InTopic, InClient,
       Removal, Walking
  <2>3. HeldRight(t)'
    BY <1>0, <2>1 DEF Types, Kept, HeldRight, InRegistry, InTopic, InClient,
       Removal, Walking
  <2> QED
    BY <2>1, <2>2, <2>3, LocksOthers
<1>24. ASSUME NEW t \in Thread, Deactivate(t)
      PROVE  LocksInv'
  <2>1. /\ Moved(t) /\ UNCHANGED locks /\ Kept(t) /\ th[t].pc \in Removal /\ th'[t].pc \in Removal
        /\ th[t].pc = "unsubscribe" <=> th'[t].pc = "unsubscribe"
    BY <1>24, DeactivateEffect DEF Deactivate, Removal, KeptAll
  <2> QED
    BY <2>1, LocksSame
<1>25. ASSUME NEW t \in Thread, ForgetUser(t)
      PROVE  LocksInv'
  <2>1. /\ Moved(t) /\ UNCHANGED locks /\ Kept(t) /\ th[t].pc \in Removal /\ th'[t].pc \in Removal
        /\ th[t].pc = "unsubscribe" <=> th'[t].pc = "unsubscribe"
    BY <1>25, ForgetUserEffect DEF ForgetUser, Removal, KeptAll
  <2> QED
    BY <2>1, LocksSame
<1>26. ASSUME NEW t \in Thread, LockHash(t)
      PROVE  LocksInv'
  <2>1. /\ Moved(t) /\ HeldRight(t) /\ t # None
        /\ Kept(t) /\ th[t].pc = "unhash" /\ th'[t].pc = "unsubscribe"
        /\ hash_lock = None /\ hash_lock' = t
        /\ UNCHANGED <<registry_lock, topic_lock, client_lock>>
    BY <1>0, <1>26, LockHashEffect, ThreadsTyped DEF LockHash, LocksInv
  <2>2. /\ Turned(registry_lock, registry_lock', t) /\ Turned(hash_lock, hash_lock', t)
        /\ \A b \in Bucket : Turned(topic_lock[b], topic_lock'[b], t)
        /\ \A c \in Client : Turned(client_lock[c], client_lock'[c], t)
    BY <1>0, <2>1 DEF Turned, Types, HeldRight, InRegistry, InTopic, InClient,
       Removal, Walking
  <2>3. HeldRight(t)'
    BY <1>0, <2>1 DEF Types, Kept, HeldRight, InRegistry, InTopic, InClient,
       Removal, Walking
  <2> QED
    BY <2>1, <2>2, <2>3, LocksOthers
<1>27. ASSUME NEW t \in Thread, NEW k \in Topic, Unsubscribe(t, k)
      PROVE  LocksInv'
  <2>1. /\ Moved(t) /\ UNCHANGED locks /\ Kept(t) /\ th[t].pc \in Removal /\ th'[t].pc \in Removal
        /\ th[t].pc = "unsubscribe" <=> th'[t].pc = "unsubscribe"
    BY <1>27, UnsubscribeEffect DEF Unsubscribe, Removal, KeptAll
  <2> QED
    BY <2>1, LocksSame
<1>28. ASSUME NEW t \in Thread, Release(t)
      PROVE  LocksInv'
  <2>1. /\ Moved(t) /\ HeldRight(t) /\ t # None
        /\ Kept(t) /\ th[t].pc = "unsubscribe" /\ th'[t].pc \in {"reaping", "unflag"}
        /\ registry_lock' = None /\ hash_lock' = None
        /\ UNCHANGED <<topic_lock, client_lock>>
    BY <1>0, <1>28, ReleaseEffect, ThreadsTyped DEF Release, LocksInv, KeptAll,
       AfterRemove
  <2>2. /\ Turned(registry_lock, registry_lock', t) /\ Turned(hash_lock, hash_lock', t)
        /\ \A b \in Bucket : Turned(topic_lock[b], topic_lock'[b], t)
        /\ \A c \in Client : Turned(client_lock[c], client_lock'[c], t)
    BY <1>0, <2>1 DEF Turned, Types, HeldRight, InRegistry, InTopic, InClient,
       Removal, Walking
  <2>3. HeldRight(t)'
    BY <1>0, <2>1 DEF Types, Kept, HeldRight, InRegistry, InTopic, InClient,
       Removal, Walking
  <2> QED
    BY <2>1, <2>2, <2>3, LocksOthers
<1>29. ASSUME NEW t \in Thread, ClearFlag(t)
      PROVE  LocksInv'
  <2>1. /\ Moved(t) /\ UNCHANGED locks /\ t \in Thread
        /\ th[t].pc \notin Removal \cup Walking /\ th'[t].pc \notin Removal \cup Walking
    BY <1>29, ClearFlagEffect, RestingFields, ThreadsTyped DEF ClearFlag, Removal,
       Walking, Rested, KeptAll,
       ClientOps, BridgeOps
  <2> QED
    BY <2>1, LocksAside
<1>30. ASSUME NEW t \in Thread, Shut(t)
      PROVE  LocksInv'
  <2>1. /\ Moved(t) /\ UNCHANGED locks /\ t \in Thread
        /\ th[t].pc \notin Removal \cup Walking /\ th'[t].pc \notin Removal \cup Walking
    BY <1>30, ShutEffect, RestingFields, ThreadsTyped DEF Shut, Removal, Walking,
       Rested, KeptAll,
       ClientOps, BridgeOps
  <2> QED
    BY <2>1, LocksAside
<1>31. CASE Wake
  <2>1. /\ Moved(Maint) /\ UNCHANGED locks /\ Maint \in Thread
        /\ th[Maint].pc \notin Removal \cup Walking /\ th'[Maint].pc \notin Removal \cup Walking
    BY <1>31, WakeEffect, RestingFields, ThreadsTyped DEF Wake, Removal, Walking,
       Rested, KeptAll,
       ClientOps, BridgeOps
  <2> QED
    BY <2>1, LocksAside
<1>32. CASE Collect
  <2>1. /\ Moved(Maint) /\ UNCHANGED locks /\ Maint \in Thread
        /\ th[Maint].pc \notin Removal \cup Walking /\ th'[Maint].pc \notin Removal \cup Walking
    BY <1>32, CollectEffect, RestingFields, ThreadsTyped DEF Collect, Removal,
       Walking, Rested, KeptAll,
       ClientOps, BridgeOps
  <2> QED
    BY <2>1, LocksAside
<1>33. ASSUME NEW f \in Fd, ReapClose(f)
      PROVE  LocksInv'
  <2>1. /\ Moved(Maint) /\ UNCHANGED locks /\ Maint \in Thread
        /\ th[Maint].pc \notin Removal \cup Walking /\ th'[Maint].pc \notin Removal \cup Walking
    BY <1>33, ReapCloseEffect, RestingFields, ThreadsTyped DEF ReapClose, Removal,
       Walking, Rested, KeptAll,
       ClientOps, BridgeOps
  <2> QED
    BY <2>1, LocksAside
<1>34. CASE Reaped
  <2>1. /\ Moved(Maint) /\ UNCHANGED locks /\ Maint \in Thread
        /\ th[Maint].pc \notin Removal \cup Walking /\ th'[Maint].pc \notin Removal \cup Walking
    BY <1>34, ReapedEffect, RestingFields, ThreadsTyped DEF Reaped, Removal,
       Walking, Rested, KeptAll,
       ClientOps, BridgeOps
  <2> QED
    BY <2>1, LocksAside
<1>35. ASSUME NEW c \in Client, Silence(c)
      PROVE  LocksInv'
  BY <1>35 DEF Silence, LocksInv, HeldRight, InRegistry, InTopic, InClient, Removal,
     Walking, locks
<1>36. CASE UNCHANGED vars
  BY <1>36 DEF LocksInv, HeldRight, InRegistry, InTopic, InClient, Removal, Walking,
     vars, locks
<1> QED
  BY <1>1, <1>2, <1>3, <1>4, <1>5, <1>6, <1>7, <1>8, <1>9, <1>10, <1>11, <1>12,
     <1>13, <1>14, <1>15, <1>16, <1>17, <1>18, <1>19, <1>20, <1>21, <1>22, <1>23,
     <1>24, <1>25, <1>26, <1>27, <1>28, <1>29, <1>30, <1>31, <1>32, <1>33, <1>34,
     <1>35, <1>36 DEF Next, Registry, Send, Leave, Maintain

(* A worker that will mark the descriptor, or that closes it next.         *)
Marking(t) == \/ th[t].op = "add" /\ th[t].pc \in Walking \cup {"broadcast", "flag"}
              \/ th[t].pc = "shut"

(* EPOLLONESHOT: a descriptor has one worker.                              *)
OneServer == \A t, u \in Worker : th[t].fd = th[u].fd /\ th[t].fd \in Fd => t = u

(* A connection is behind one descriptor.                                  *)
Alike ==
  /\ \A f, g \in Fd : conn[f] = conn[g] /\ conn[f] # 0 => f = g
  /\ \A f \in Fd : conn[f] <= accepted
  /\ \A c \in Client : c > accepted => mem[c].st = "none"

(* What a worker is about to register is not registered yet.               *)
Unmade ==
  \A t \in Thread : th[t].pc = "add" =>
    /\ mem[th[t].cl].st = "none" /\ th[t].cl <= accepted
    /\ \A f \in Fd : conn[f] = th[t].cl => f = th[t].fd
    /\ \A u \in Thread : th[u].pc = "add" /\ th[u].cl = th[t].cl => u = t

(* The connection of a client is marked, or about to be.                   *)
Known ==
  \A f \in Fd : conn[f] # 0 /\ mem[conn[f]].st # "none" =>
    ws_fd_map[f] \/ \E t \in Worker : th[t].fd = f /\ Marking(t)

Slots ==
  /\ \A c \in Client : mem[c].st = "live" <=> c \in clients
  /\ current_count = Cardinality(clients)
  /\ Cardinality(clients) <= MaxClients
  /\ \A f \in Fd : fd_map[f] # None => fd_map[f] \in clients /\ mem[fd_map[f]].fd = f
  /\ \A t \in Thread : th[t].pc \in Removal => fd_map[th[t].fd] = th[t].cl

(* While the reaper has closed nothing, a client is found by its           *)
(* descriptor and has its connection behind it.                            *)
ServedBy(t) ==
  /\ th[t].pc # "idle" => conn[th[t].fd] # 0
  /\ th[t].pc = "flag" \/ th[t].op = "add" => conn[th[t].fd] \in upgraded
  /\ th[t].pc = "add" => conn[th[t].fd] = th[t].cl
  /\ th[t].pc \in {"unflag", "shut"} => fd_map[th[t].fd] = None
  /\ th[t].pc = "shut" => ~ws_fd_map[th[t].fd]
Serving ==
  snatched = {} =>
    /\ \A c \in clients : fd_map[mem[c].fd] = c /\ conn[mem[c].fd] = c
    /\ \A f \in Fd : ws_fd_map[f] => conn[f] \in upgraded
    /\ \A t \in Worker : ServedBy(t)

Tidy == OneServer /\ Alike /\ Unmade /\ Known /\ Slots /\ Serving

-----------------------------------------------------------------------------
(* Most steps leave all of that alone.                                     *)
Bookkept ==
  /\ UNCHANGED <<clients, fd_map, current_count, conn, accepted, ws_fd_map, upgraded, snatched>>
  /\ \A c \in Client : mem'[c].st = mem[c].st /\ mem'[c].fd = mem[c].fd

Plain(t) ==
  /\ Moved(t) /\ th'[t].pc \notin {"add", "unflag", "shut"}
  /\ \/ Rested(t) /\ ~Marking(t)
     \/ /\ th'[t].op # "add" /\ t \notin Worker /\ th'[t].pc \notin Removal
     \/ /\ th[t].pc # "idle" /\ th'[t].fd = th[t].fd /\ th'[t].op = th[t].op
        /\ Marking(t) => Marking(t)'
        /\ th'[t].pc = "flag" => th[t].op = "add"
        /\ th'[t].pc \in Removal => th[t].pc \in Removal /\ th'[t].cl = th[t].cl

LEMMA TidyPlain ==
  ASSUME Shape, Tidy, Bookkept, NEW t \in Thread, Plain(t)
  PROVE  Tidy'
<1>0. /\ Types /\ Lent /\ \A u \in Thread : Placed(u)
      /\ None \notin ClientOps \cup BridgeOps \cup {"add", "flag", "heartbeat"}
      /\ None \notin Fd /\ None \notin Client /\ Worker \subseteq Thread
  BY RegistryAssumption, ThreadsTyped DEF Shape
<1>1. OneServer'
  BY <1>0, RestingFields DEF Tidy, OneServer, Plain, Moved, Rested
<1>2. Alike'
  BY <1>0 DEF Tidy, Alike, Bookkept, Types
<1>3. Unmade'
  <2> SUFFICES ASSUME NEW u \in Thread, th'[u].pc = "add"
               PROVE  /\ mem'[th'[u].cl].st = "none" /\ th'[u].cl <= accepted'
                      /\ \A f \in Fd : conn'[f] = th'[u].cl => f = th'[u].fd
                      /\ \A v \in Thread : th'[v].pc = "add" /\ th'[v].cl = th'[u].cl => v = u
    BY DEF Unmade
  <2>1. \A v \in Thread : th'[v].pc = "add" => th'[v] = th[v] /\ th[v].cl \in Client
    BY <1>0 DEF Plain, Moved, Placed, OnClient
  <2> QED
    BY <1>0, <2>1 DEF Tidy, Unmade, Bookkept
<1>4. Known'
  <2> SUFFICES ASSUME NEW f \in Fd, conn[f] # 0, mem[conn[f]].st # "none", ~ws_fd_map[f]
               PROVE  \E u \in Worker : th'[u].fd = f /\ Marking(u)'
    BY <1>0 DEF Known, Bookkept, Types
  <2>1. PICK u \in Worker : th[u].fd = f /\ Marking(u)
    BY DEF Tidy, Known
  <2>2. CASE u # t
    BY <1>0, <2>1, <2>2 DEF Plain, Moved, Marking
  <2>3. CASE u = t
    BY <2>1, <2>3 DEF Plain
  <2> QED
    BY <2>2, <2>3
<1>5. Slots'
  <2>1. \A u \in Thread : th'[u].pc \in Removal =>
          th[u].pc \in Removal /\ th'[u].cl = th[u].cl /\ th'[u].fd = th[u].fd
    BY RestingFields DEF Plain, Moved, Rested, Removal
  <2> QED
    BY <1>0, <2>1 DEF Tidy, Slots, Bookkept, Types
<1>6. Serving'
  <2>1. ASSUME snatched = {}, NEW u \in Worker PROVE ServedBy(u)'
    <3>1. ServedBy(u)
      BY <2>1 DEF Tidy, Serving
    <3>2. CASE u # t
      BY <1>0, <3>1, <3>2 DEF ServedBy, Plain, Moved, Bookkept
    <3>3. CASE u = t /\ Rested(t)
      BY <1>0, <3>1, <3>3, RestingFields DEF ServedBy, Plain, Rested
    <3>4. CASE u = t /\ ~Rested(t)
      BY <1>0, <3>1, <3>4 DEF ServedBy, Plain, Bookkept
    <3> QED
      BY <3>2, <3>3, <3>4
  <2> QED
    BY <1>0, <2>1 DEF Tidy, Serving, Bookkept, Lent, Types
<1> QED
  BY <1>1, <1>2, <1>3, <1>4, <1>5, <1>6 DEF Tidy

LEMMA TidyStill ==
  ASSUME Shape, Tidy, Bookkept, UNCHANGED th
  PROVE  Tidy'
<1>0. /\ Types /\ Lent /\ \A u \in Thread : Placed(u) /\ Worker \subseteq Thread
  BY ThreadsTyped DEF Shape
<1>1. OneServer' /\ Alike'
  BY <1>0 DEF Tidy, OneServer, Alike, Bookkept
<1>2. Unmade'
  BY <1>0 DEF Tidy, Unmade, Bookkept, Placed, OnClient
<1>3. Known'
  BY <1>0 DEF Tidy, Known, Marking, Bookkept, Types
<1>4. Slots'
  BY <1>0 DEF Tidy, Slots, Bookkept, Types
<1>5. Serving'
  BY <1>0 DEF Tidy, Serving, ServedBy, Bookkept, Lent, Types
<1> QED
  BY <1>1, <1>2, <1>3, <1>4, <1>5 DEF Tidy

(* Steps that only workers take.                                           *)
LEMMA WorkerSteps ==
  ASSUME Shape, NEW t \in Thread,
         th[t].pc \in {"add", "flag", "close", "unflag", "shut", "sub", "pong", "pub", "publish",
                       "private"} \cup Subscribing
  PROVE  t \in Worker
BY ThreadsTyped DEF Shape, Placed, Thread, Walking, Removal, Subscribing

LEMMA AcceptTidy ==
  ASSUME Shape, Tidy, NEW f \in Fd, Accept(f)
  PROVE  Tidy'
<1>0. /\ Types /\ Lent /\ (\A u \in Thread : Placed(u)) /\ Worker \subseteq Thread
      /\ UNCHANGED <<tables, locks, ws_fd_map, upgraded, snatched, th>>
      /\ conn[f] = 0 /\ accepted' = accepted + 1 /\ accepted' \in Client /\ accepted \in Nat
      /\ conn'[f] = accepted' /\ \A g \in Fd : g # f => conn'[g] = conn[g]
  <2>1. accepted \in Nat
    BY RegistryAssumption DEF Shape, Types
  <2>2. /\ Types /\ Lent /\ (\A u \in Thread : Placed(u)) /\ Worker \subseteq Thread
        /\ UNCHANGED <<tables, locks, ws_fd_map, upgraded, snatched, th>>
    BY ThreadsTyped DEF Shape, Accept
  <2> QED
    BY <2>1, <2>2, AcceptEffect
<1>1. OneServer'
  BY <1>0 DEF Tidy, OneServer
<1>2. Alike'
  <2>1. \A g \in Fd : conn[g] <= accepted /\ conn[g] \in Nat
    BY <1>0 DEF Tidy, Alike, Types, Client
  <2>2. \A g \in Fd : conn'[g] <= accepted'
    BY <1>0, <2>1
  <2>3. \A g, h \in Fd : conn'[g] = conn'[h] /\ conn'[g] # 0 => g = h
    BY <1>0, <2>1 DEF Tidy, Alike
  <2>4. \A c \in Client : c > accepted' => mem[c].st = "none"
    BY <1>0 DEF Tidy, Alike, Client
  <2> QED
    BY <1>0, <2>2, <2>3, <2>4 DEF Alike, tables
<1>3. Unmade'
  <2>1. \A t \in Thread : th[t].pc = "add" => th[t].cl \in Client /\ th[t].cl <= accepted
    BY <1>0 DEF Tidy, Unmade, Placed, OnClient
  <2>2. \A t \in Thread : th[t].pc = "add" => th[t].cl <= accepted' /\ accepted' # th[t].cl
    BY <1>0, <2>1 DEF Client
  <2> QED
    BY <1>0, <2>2 DEF Tidy, Unmade, tables
<1>4. Known'
  <2>1. mem[accepted'].st = "none"
    BY <1>0 DEF Tidy, Alike
  <2> QED
    BY <1>0, <2>1 DEF Tidy, Known, Marking, tables
<1>5. Slots'
  BY <1>0 DEF Tidy, Slots, tables
<1>6. Serving'
  <2> SUFFICES ASSUME snatched = {} PROVE Serving'
    BY <1>0 DEF Serving
  <2>1. \A c \in clients : c # 0
    BY <1>0 DEF Types, Client
  <2>2. \A c \in clients : mem[c].fd \in Fd /\ fd_map[mem[c].fd] = c /\ conn[mem[c].fd] = c
    BY <1>0 DEF Tidy, Serving, Lent
  <2>3. \A c \in clients : mem[c].fd # f
    BY <1>0, <2>1, <2>2
  <2>4. 0 \notin upgraded
    BY <1>0 DEF Types, Client
  <2>5. ~ws_fd_map[f] /\ \A g \in Fd : ws_fd_map[g] => conn[g] \in upgraded
    BY <1>0, <2>4 DEF Tidy, Serving
  <2>6. \A t \in Worker : ServedBy(t)'
    <3> SUFFICES ASSUME NEW t \in Worker PROVE ServedBy(t)'
      OBVIOUS
    <3>1. ServedBy(t) /\ Placed(t)
      BY <1>0 DEF Tidy, Serving
    <3>2. CASE th[t].pc = "idle"
      <4>1. th[t].op = None /\ None # "add"
        BY <3>1, <3>2, RestingFields, RegistryAssumption DEF Placed
      <4> QED
        BY <1>0, <3>2, <4>1 DEF ServedBy
    <3>3. CASE th[t].pc # "idle"
      <4>1. th[t].fd \in Fd /\ th[t].fd # f
        BY <1>0, <3>1, <3>3 DEF ServedBy, Placed
      <4> QED
        BY <1>0, <3>1, <4>1 DEF ServedBy, tables
    <3> QED
      BY <3>2, <3>3
  <2>7. \A c \in clients' : fd_map'[mem'[c].fd] = c /\ conn'[mem'[c].fd] = c
    BY <1>0, <2>2, <2>3 DEF tables
  <2>8. \A g \in Fd : ws_fd_map'[g] => conn'[g] \in upgraded'
    BY <1>0, <2>5
  <2> QED
    BY <2>6, <2>7, <2>8 DEF Serving
<1> QED
  BY <1>1, <1>2, <1>3, <1>4, <1>5, <1>6 DEF Tidy

LEMMA HttpTidy ==
  ASSUME Shape, Tidy, NEW t \in Worker, NEW f \in Fd, Http(t, f)
  PROVE  Tidy'
<1>0. /\ Types /\ Lent /\ (\A u \in Thread : Placed(u)) /\ Worker \subseteq Thread
      /\ UNCHANGED <<tables, locks, ws_fd_map, conn, accepted, snatched>>
      /\ th[t].pc = "idle" /\ conn[f] \in Client /\ conn[f] # 0 /\ ~ws_fd_map[f]
      /\ \A u \in Worker : th[u].fd # f
      /\ \A u \in Thread : u # t => th'[u] = th[u]
      /\ th'[t].pc \in {"add", "flag", "close"} /\ th'[t].op = th'[t].pc /\ th'[t].fd = f
      /\ upgraded \subseteq upgraded'
  BY HttpEffect, ThreadsTyped, RegistryAssumption DEF Shape, Http, Moved, Types,
     CanServe
<1>0a. th'[t].pc # "close" => th'[t].cl = conn[f] /\ conn[f] \in upgraded'
  BY HttpEffect
<1>1. OneServer'
  BY <1>0 DEF Tidy, OneServer
<1>2. Alike'
  BY <1>0 DEF Tidy, Alike, tables
<1>3. Unmade'
  <2>1. mem[conn[f]].st = "none" /\ conn[f] <= accepted
    BY <1>0 DEF Tidy, Known, Alike
  <2>2. \A g \in Fd : conn[g] = conn[f] => g = f
    BY <1>0 DEF Tidy, Alike
  <2>3. \A u \in Thread : u # t /\ th[u].pc = "add" => th[u].cl # conn[f]
    <3> SUFFICES ASSUME NEW u \in Thread, u # t, th[u].pc = "add", th[u].cl = conn[f]
                 PROVE  FALSE
      OBVIOUS
    <3>1. u \in Worker
      BY WorkerSteps
    <3>2. th[u].fd = f
      BY DEF Tidy, Unmade
    <3> QED
      BY <1>0, <3>1, <3>2
  <2> SUFFICES ASSUME NEW u \in Thread, th'[u].pc = "add"
               PROVE  /\ mem'[th'[u].cl].st = "none" /\ th'[u].cl <= accepted'
                      /\ \A g \in Fd : conn'[g] = th'[u].cl => g = th'[u].fd
                      /\ \A v \in Thread : th'[v].pc = "add" /\ th'[v].cl = th'[u].cl => v = u
    BY DEF Unmade
  <2>4. CASE u = t
    BY <1>0, <1>0a, <2>1, <2>2, <2>3, <2>4 DEF tables
  <2>5. CASE u # t
    <3>1. /\ th'[u] = th[u] /\ th[u].pc = "add"
          /\ mem[th[u].cl].st = "none" /\ th[u].cl <= accepted
          /\ \A g \in Fd : conn[g] = th[u].cl => g = th[u].fd
          /\ \A v \in Thread : th[v].pc = "add" /\ th[v].cl = th[u].cl => v = u
      BY <1>0, <2>5 DEF Tidy, Unmade
    <3>2. \A v \in Thread : th'[v].pc = "add" /\ th'[v].cl = th[u].cl => v = u
      BY <1>0, <1>0a, <2>3, <2>5, <3>1
    <3> QED
      BY <1>0, <3>1, <3>2 DEF tables
  <2> QED
    BY <2>4, <2>5
<1>4. Known'
  <2>1. ~Marking(t)
    <3>1. th[t] = Resting
      BY <1>0 DEF Placed
    <3> QED
      BY <3>1, RestingFields DEF Marking, Walking
  <2> QED
    BY <1>0, <2>1 DEF Tidy, Known, Marking, tables
<1>5. Slots'
  BY <1>0 DEF Tidy, Slots, tables, Removal
<1>6. Serving'
  <2> SUFFICES ASSUME snatched = {}, NEW u \in Worker PROVE ServedBy(u)'
    BY <1>0 DEF Tidy, Serving, tables
  <2>1. CASE u = t
    BY <1>0, <1>0a, <2>1 DEF ServedBy
  <2>2. CASE u # t
    BY <1>0, <2>2 DEF ServedBy, Tidy, Serving, tables
  <2> QED
    BY <2>1, <2>2
<1> QED
  BY <1>1, <1>2, <1>3, <1>4, <1>5, <1>6 DEF Tidy

LEMMA MessageTidy ==
  ASSUME Shape, Tidy, NEW t \in Worker, NEW f \in Fd, Message(t, f)
  PROVE  Tidy'
<1>0. /\ Types /\ Lent /\ (\A u \in Thread : Placed(u)) /\ Worker \subseteq Thread
      /\ UNCHANGED <<tables, locks, net>>
      /\ th[t].pc = "idle" /\ conn[f] # 0
      /\ \A u \in Worker : th[u].fd # f
      /\ \A u \in Thread : u # t => th'[u] = th[u]
      /\ th'[t].pc \in ClientOps /\ th'[t].op = th'[t].pc /\ th'[t].fd = f
  BY MessageEffect, ThreadsTyped, RegistryAssumption DEF Shape, Message, Moved,
     Types, CanServe
<1>0a. ~Marking(t)
  <2>1. th[t] = Resting
    BY <1>0 DEF Placed
  <2> QED
    BY <2>1, RestingFields DEF Marking, Walking
<1>1. OneServer'
  BY <1>0 DEF Tidy, OneServer
<1>2. Alike'
  BY <1>0 DEF Tidy, Alike, tables, net
<1>3. Unmade'
  BY <1>0 DEF Tidy, Unmade, tables, net, ClientOps
<1>4. Known'
  BY <1>0, <1>0a DEF Tidy, Known, Marking, tables, net
<1>5. Slots'
  BY <1>0 DEF Tidy, Slots, tables, net, Removal, ClientOps
<1>6. Serving'
  <2> SUFFICES ASSUME snatched = {}, NEW u \in Worker PROVE ServedBy(u)'
    BY <1>0 DEF Tidy, Serving, tables, net
  <2>1. CASE u = t
    BY <1>0, <2>1 DEF ServedBy, ClientOps, net
  <2>2. CASE u # t
    BY <1>0, <2>2 DEF ServedBy, Tidy, Serving, tables, net
  <2> QED
    BY <2>1, <2>2
<1> QED
  BY <1>1, <1>2, <1>3, <1>4, <1>5, <1>6 DEF Tidy

LEMMA ClientsFinite ==
  ASSUME Types
  PROVE  IsFiniteSet(clients) /\ Cardinality(clients) \in Nat
<1>1. IsFiniteSet(1 .. MaxConn)
  BY FS_Interval, RegistryAssumption
<1> QED
  BY <1>1, FS_Subset, FS_CardinalityType DEF Types, Client

LEMMA AddTidy ==
  ASSUME Shape, LocksInv, Tidy, NEW t \in Thread, Add(t)
  PROVE  Tidy'
<1>0. /\ Types /\ Lent /\ (\A u \in Thread : Placed(u)) /\ t \in Worker /\ Worker \subseteq Thread
      /\ UNCHANGED <<locks, net>> /\ Moved(t) /\ KeptAll(t)
      /\ th[t].pc = "add" /\ th[t].op = "add" /\ registry_lock = None
      /\ th[t].cl \in Client /\ th[t].fd \in Fd
  BY AddEffect, WorkerSteps, ThreadsTyped DEF Shape, Add, Placed
<1>1. CASE UNCHANGED <<mem, clients, fd_map, current_count>>
  <2>1. th'[t].pc = "flag" \/ th'[t].pc = "broadcast"
    BY AddEffect
  <2>2. Bookkept
    BY <1>0, <1>1 DEF Bookkept, net
  <2>3. Plain(t)
    BY <1>0, <2>1 DEF Plain, KeptAll, Kept, Marking, Walking, Removal
  <2> QED
    BY <2>2, <2>3, TidyPlain
<1>2. CASE ~UNCHANGED <<mem, clients, fd_map, current_count>>
  <2> DEFINE c == th[t].cl
             f == th[t].fd
  <2>1. /\ th'[t].pc = "broadcast" /\ Cardinality(clients) < MaxClients
        /\ mem' \in [Client -> MemState]
        /\ mem'[c] = [Unborn EXCEPT !.st = "live", !.fd = f, !.is_active = TRUE, !.seen = TRUE]
        /\ \A d \in Client : d # c => mem'[d] = mem[d]
        /\ clients' = clients \cup {c}
        /\ fd_map'[f] = c
        /\ \A g \in Fd : g # f => fd_map'[g] = fd_map[g]
        /\ current_count' = current_count + 1
    BY <1>2, AddEffect
  <2>2. mem'[c].st = "live" /\ mem'[c].fd = f
    BY <2>1 DEF Unborn
  <2>3. /\ mem[c].st = "none" /\ c <= accepted
        /\ \A g \in Fd : conn[g] = c => g = f
        /\ \A u \in Thread : th[u].pc = "add" /\ th[u].cl = c => u = t
    BY <1>0 DEF Tidy, Unmade
  <2>4. \A u \in Thread : th[u].pc \notin Removal
    BY <1>0, ThreadsTyped DEF LocksInv, HeldRight, InRegistry
  <2>5. c \notin clients /\ c \in Client /\ f \in Fd
    BY <1>0, <2>3 DEF Tidy, Slots
  <2> HIDE DEF c, f
  <2>6. th'[t].fd = th[t].fd /\ th'[t].op = "add" /\ \A u \in Thread : u # t => th'[u] = th[u]
    BY <1>0 DEF Moved, KeptAll, Kept
  <2>11. OneServer'
    BY <1>0, <2>6 DEF Tidy, OneServer
  <2>12. Alike'
    <3>1. \A d \in Client : d > accepted => mem'[d].st = "none"
      <4> SUFFICES ASSUME NEW d \in Client, d > accepted PROVE mem'[d].st = "none"
        OBVIOUS
      <4>1. d # c
        BY <1>0, <2>3, <2>5 DEF Types, Client
      <4> QED
        BY <2>1, <4>1 DEF Tidy, Alike
    <3> QED
      BY <1>0, <3>1 DEF Tidy, Alike, net
  <2>13. Unmade'
    <3> SUFFICES ASSUME NEW u \in Thread, th'[u].pc = "add"
                 PROVE  /\ mem'[th'[u].cl].st = "none" /\ th'[u].cl <= accepted'
                        /\ \A g \in Fd : conn'[g] = th'[u].cl => g = th'[u].fd
                        /\ \A v \in Thread : th'[v].pc = "add" /\ th'[v].cl = th'[u].cl => v = u
      BY DEF Unmade
    <3>1. u # t
      BY <2>1
    <3>2. /\ th'[u] = th[u] /\ th[u].pc = "add" /\ th[u].cl \in Client
          /\ mem[th[u].cl].st = "none" /\ th[u].cl <= accepted
          /\ \A g \in Fd : conn[g] = th[u].cl => g = th[u].fd
          /\ \A v \in Thread : th[v].pc = "add" /\ th[v].cl = th[u].cl => v = u
      BY <1>0, <2>6, <3>1 DEF Tidy, Unmade, Placed, OnClient
    <3>3. th[u].cl # c
      BY <2>3, <3>1, <3>2
    <3>4. \A v \in Thread : th'[v].pc = "add" => th'[v] = th[v]
      BY <2>1, <2>6
    <3> QED
      BY <1>0, <2>1, <3>2, <3>3, <3>4 DEF net
  <2>14. Known'
    <3> SUFFICES ASSUME NEW g \in Fd, conn[g] # 0, mem'[conn[g]].st # "none", ~ws_fd_map[g]
                 PROVE  \E u \in Worker : th'[u].fd = g /\ Marking(u)'
      BY <1>0 DEF Known, net
    <3>1. conn[g] \in Client
      BY <1>0 DEF Types
    <3>2. Marking(t)'
      BY <2>1, <2>6 DEF Marking
    <3>3. CASE conn[g] = c
      BY <1>0, <2>3, <2>6, <3>2, <3>3 DEF f
    <3>4. CASE conn[g] # c
      <4>1. PICK u \in Worker : th[u].fd = g /\ Marking(u)
        BY <2>1, <3>1, <3>4 DEF Tidy, Known
      <4> QED
        BY <1>0, <2>6, <3>2, <4>1 DEF Marking
    <3> QED
      BY <3>3, <3>4
  <2>15. Slots'
    <3>1. \A d \in Client : mem'[d].st = "live" <=> d \in clients'
      BY <2>1, <2>2, <2>5 DEF Tidy, Slots
    <3>2. Cardinality(clients') = Cardinality(clients) + 1 /\ Cardinality(clients) \in Nat
      BY <1>0, <2>1, <2>5, ClientsFinite, FS_AddElement
    <3>3. current_count' = Cardinality(clients') /\ Cardinality(clients') <= MaxClients
      BY <2>1, <3>2, RegistryAssumption DEF Tidy, Slots
    <3>4. \A g \in Fd : fd_map'[g] # None => fd_map'[g] \in clients' /\ mem'[fd_map'[g]].fd = g
      <4> SUFFICES ASSUME NEW g \in Fd, fd_map'[g] # None
                   PROVE  fd_map'[g] \in clients' /\ mem'[fd_map'[g]].fd = g
        OBVIOUS
      <4>1. CASE g = f
        BY <2>1, <2>2, <4>1
      <4>2. CASE g # f
        <5>1. fd_map'[g] = fd_map[g] /\ fd_map[g] \in clients /\ mem[fd_map[g]].fd = g
          BY <2>1, <4>2 DEF Tidy, Slots
        <5> QED
          BY <1>0, <2>1, <2>5, <5>1 DEF Types
      <4> QED
        BY <4>1, <4>2
    <3>5. \A u \in Thread : th'[u].pc \notin Removal
      BY <2>1, <2>4, <2>6 DEF Removal
    <3> QED
      BY <3>1, <3>3, <3>4, <3>5 DEF Slots
  <2>16. Serving'
    <3> SUFFICES ASSUME snatched = {} PROVE Serving'
      BY <1>0 DEF Serving, net
    <3>1. ServedBy(t) /\ \A u \in Worker : ServedBy(u)
      BY <1>0 DEF Tidy, Serving
    <3>2. conn[f] = c
      BY <1>0, <3>1 DEF ServedBy, c, f
    <3>3. \A d \in clients' : fd_map'[mem'[d].fd] = d /\ conn'[mem'[d].fd] = d
      <4> SUFFICES ASSUME NEW d \in clients' PROVE fd_map'[mem'[d].fd] = d /\ conn[mem'[d].fd] = d
        BY <1>0 DEF net
      <4>1. CASE d = c
        BY <2>1, <2>2, <3>2, <4>1
      <4>2. CASE d # c
        <5>1. d \in clients /\ d \in Client /\ mem'[d] = mem[d]
          BY <1>0, <2>1, <4>2 DEF Types
        <5>2. fd_map[mem[d].fd] = d /\ conn[mem[d].fd] = d /\ mem[d].fd \in Fd
          BY <1>0, <5>1 DEF Tidy, Serving, Lent
        <5>3. mem[d].fd # f
          BY <3>2, <4>2, <5>2
        <5> QED
          BY <2>1, <5>1, <5>2, <5>3
      <4> QED
        BY <4>1, <4>2
    <3>4. \A u \in Worker : ServedBy(u)'
      <4> SUFFICES ASSUME NEW u \in Worker PROVE ServedBy(u)'
        OBVIOUS
      <4>1. CASE u = t
        BY <1>0, <2>1, <2>6, <3>1, <4>1 DEF ServedBy, net
      <4>2. CASE u # t
        <5>1. th'[u] = th[u] /\ ServedBy(u) /\ Placed(u)
          BY <1>0, <2>6, <3>1, <4>2
        <5>2. th[u].pc \in {"unflag", "shut"} => th[u].fd \in Fd /\ th[u].fd # f
          BY <1>0, <4>2, <5>1 DEF Placed, OnFd, Tidy, OneServer, f
        <5> QED
          BY <1>0, <2>1, <5>1, <5>2 DEF ServedBy, net
      <4> QED
        BY <4>1, <4>2
    <3> QED
      BY <1>0, <3>3, <3>4 DEF Tidy, Serving, net
  <2> QED
    BY <2>11, <2>12, <2>13, <2>14, <2>15, <2>16 DEF Tidy
<1> QED
  BY <1>1, <1>2

(* A worker has its descriptor to itself.                                  *)
LEMMA OtherFd ==
  ASSUME Shape, OneServer, NEW t \in Worker, NEW u \in Worker, u # t, th[t].fd \in Fd
  PROVE  th[u].fd # th[t].fd
BY DEF OneServer

LEMMA SetFlagTidy ==
  ASSUME Shape, Tidy, NEW t \in Thread, SetFlag(t)
  PROVE  Tidy'
<1>0. /\ Types /\ Lent /\ (\A u \in Thread : Placed(u)) /\ t \in Worker /\ Worker \subseteq Thread
      /\ UNCHANGED <<tables, locks, conn, accepted, upgraded, snatched>>
      /\ Rested(t) /\ \A u \in Thread : u # t => th'[u] = th[u]
      /\ th[t].pc = "flag" /\ th[t].fd \in Fd /\ None \notin Fd
      /\ ws_fd_map'[th[t].fd] = TRUE
      /\ \A f \in Fd : f # th[t].fd => ws_fd_map'[f] = ws_fd_map[f]
      /\ OneServer
  BY SetFlagEffect, WorkerSteps, ThreadsTyped, RegistryAssumption DEF Shape,
     SetFlag, Moved, Tidy
<1>0a. /\ th'[t].pc = "idle" /\ th'[t].op = None /\ th'[t].fd = None /\ None # "add"
  BY <1>0, RestingFields, RegistryAssumption DEF Rested
<1>1. OneServer'
  BY <1>0, <1>0a DEF Tidy, OneServer
<1>2. Alike'
  BY <1>0 DEF Tidy, Alike, tables
<1>3. Unmade'
  BY <1>0, <1>0a DEF Tidy, Unmade, tables
<1>4. Known'
  BY <1>0 DEF Tidy, Known, Marking, tables
<1>5. Slots'
  BY <1>0, <1>0a DEF Tidy, Slots, tables, Removal
<1>6. Serving'
  <2> SUFFICES ASSUME snatched = {} PROVE Serving'
    BY <1>0 DEF Serving
  <2>1. ServedBy(t) /\ \A u \in Worker : ServedBy(u)
    BY <1>0 DEF Tidy, Serving
  <2>2. conn[th[t].fd] \in upgraded
    BY <1>0, <2>1 DEF ServedBy
  <2>3. \A f \in Fd : ws_fd_map'[f] => conn[f] \in upgraded
    BY <1>0, <2>2 DEF Tidy, Serving
  <2>4. \A u \in Worker : ServedBy(u)'
    <3> SUFFICES ASSUME NEW u \in Worker PROVE ServedBy(u)'
      OBVIOUS
    <3>1. CASE u = t
      BY <1>0a, <3>1 DEF ServedBy
    <3>2. CASE u # t
      <4>1. th[u].fd # th[t].fd /\ th'[u] = th[u] /\ (th[u].pc = "shut" => th[u].fd \in Fd)
        BY <1>0, <3>2, OtherFd DEF Placed, OnFd
      <4> QED
        BY <1>0, <2>1, <4>1 DEF ServedBy, tables
    <3> QED
      BY <3>1, <3>2
  <2> QED
    BY <1>0, <2>3, <2>4 DEF Tidy, Serving, tables
<1> QED
  BY <1>1, <1>2, <1>3, <1>4, <1>5, <1>6 DEF Tidy

LEMMA CleanupTidy ==
  ASSUME Shape, Tidy, NEW t \in Thread, Cleanup(t)
  PROVE  Tidy'
<1>0. /\ Types /\ Lent /\ (\A u \in Thread : Placed(u)) /\ t \in Worker /\ Worker \subseteq Thread
      /\ UNCHANGED <<tables, locks, net>> /\ KeptAll(t)
      /\ \A u \in Thread : u # t => th'[u] = th[u]
      /\ th[t].pc = "close" /\ th[t].fd \in Fd
      /\ th'[t].pc = IF ws_fd_map[th[t].fd] THEN "remove" ELSE "shut"
      /\ OneServer
  BY CleanupEffect, WorkerSteps, ThreadsTyped DEF Shape, Cleanup, Moved, Tidy,
     Placed, OnFd
<1>0a. /\ th'[t].op = th[t].op /\ th'[t].fd = th[t].fd /\ th'[t].cl = th[t].cl
  BY <1>0 DEF Kept, KeptAll
<1>1. OneServer'
  BY <1>0, <1>0a DEF Tidy, OneServer
<1>2. Alike'
  BY <1>0 DEF Tidy, Alike, tables, net
<1>3. Unmade'
  BY <1>0, <1>0a DEF Tidy, Unmade, tables, net
<1>4. Known'
  <2>1. ~Marking(t)
    BY <1>0 DEF Marking, Walking
  <2> QED
    BY <1>0, <2>1 DEF Tidy, Known, Marking, tables, net
<1>5. Slots'
  BY <1>0, <1>0a DEF Tidy, Slots, tables, Removal
<1>6. Serving'
  <2> SUFFICES ASSUME snatched = {} PROVE Serving'
    BY <1>0 DEF Serving, net
  <2>1. ServedBy(t) /\ \A u \in Worker : ServedBy(u)
    BY <1>0 DEF Tidy, Serving
  <2>2. ASSUME ~ws_fd_map[th[t].fd] PROVE fd_map[th[t].fd] = None
    <3> SUFFICES ASSUME fd_map[th[t].fd] # None PROVE FALSE
      OBVIOUS
    <3> DEFINE c == fd_map[th[t].fd]
    <3>1. c \in clients /\ mem[c].fd = th[t].fd /\ c \in Client /\ mem[c].st = "live"
      BY <1>0 DEF Tidy, Slots, Types
    <3>2. conn[th[t].fd] = c /\ c # 0
      BY <1>0, <3>1 DEF Tidy, Serving, Client
    <3>3. PICK u \in Worker : th[u].fd = th[t].fd /\ Marking(u)
      BY <1>0, <2>2, <3>1, <3>2 DEF Tidy, Known
    <3>4. u = t
      BY <1>0, <3>3, OtherFd
    <3> QED
      BY <1>0, <3>3, <3>4 DEF Marking, Walking
  <2>3. ServedBy(t)'
    BY <1>0, <1>0a, <2>1, <2>2 DEF ServedBy, tables, net
  <2>4. \A u \in Worker : ServedBy(u)'
    BY <1>0, <2>1, <2>3 DEF ServedBy, tables, net
  <2> QED
    BY <1>0, <2>4 DEF Tidy, Serving, tables, net
<1> QED
  BY <1>1, <1>2, <1>3, <1>4, <1>5, <1>6 DEF Tidy

LEMMA RemoveFindTidy ==
  ASSUME Shape, Tidy, NEW t \in Thread, RemoveFind(t)
  PROVE  Tidy'
<1>0. /\ Types /\ Lent /\ (\A u \in Thread : Placed(u)) /\ Worker \subseteq Thread
      /\ UNCHANGED <<tables, net>> /\ Kept(t)
      /\ \A u \in Thread : u # t => th'[u] = th[u]
      /\ th[t].pc = "remove" /\ th[t].fd \in Fd
      /\ \/ fd_map[th[t].fd] = None /\ th'[t].pc = AfterRemove(t)
         \/ th'[t].cl = fd_map[th[t].fd] /\ th'[t].pc = "deactivate"
  BY RemoveFindEffect, ThreadsTyped DEF Shape, RemoveFind, Moved, KeptAll
<1>0a. /\ th'[t].op = th[t].op /\ th'[t].fd = th[t].fd
  BY <1>0 DEF Kept
<1>1. OneServer'
  BY <1>0, <1>0a DEF Tidy, OneServer
<1>2. Alike'
  BY <1>0 DEF Tidy, Alike, tables, net
<1>3. Unmade'
  BY <1>0 DEF Tidy, Unmade, tables, net, AfterRemove
<1>4. Known'
  <2>1. ~Marking(t)
    BY <1>0 DEF Marking, Walking
  <2> QED
    BY <1>0, <2>1 DEF Tidy, Known, Marking, tables, net
<1>5. Slots'
  BY <1>0, <1>0a DEF Tidy, Slots, tables, Removal, AfterRemove
<1>6. Serving'
  <2> SUFFICES ASSUME snatched = {}, NEW u \in Worker PROVE ServedBy(u)'
    BY <1>0 DEF Tidy, Serving, tables, net
  <2>1. ServedBy(u)
    BY <1>0 DEF Tidy, Serving
  <2>2. CASE u = t
    BY <1>0, <1>0a, <2>1, <2>2, ThreadsTyped DEF ServedBy, tables, net, AfterRemove
  <2>3. CASE u # t
    BY <1>0, <2>1, <2>3 DEF ServedBy, tables, net
  <2> QED
    BY <2>2, <2>3
<1> QED
  BY <1>1, <1>2, <1>3, <1>4, <1>5, <1>6 DEF Tidy

LEMMA ReleaseTidy ==
  ASSUME Shape, LocksInv, Tidy, NEW t \in Thread, Release(t)
  PROVE  Tidy'
<1> DEFINE c == th[t].cl
           f == th[t].fd
<1>0. /\ Types /\ Lent /\ (\A u \in Thread : Placed(u)) /\ Worker \subseteq Thread
      /\ UNCHANGED <<buckets, user_map, topic_lock, client_lock, net>> /\ KeptAll(t)
      /\ \A u \in Thread : u # t => th'[u] = th[u]
      /\ th[t].pc = "unsubscribe" /\ c \in Client /\ f \in Fd /\ th'[t].pc = AfterRemove(t)
      /\ clients' = clients \ {c} /\ current_count' = current_count - 1
      /\ fd_map'[f] = None /\ \A g \in Fd : g # f => fd_map'[g] = fd_map[g]
      /\ mem'[c].st \in {"freed", "reaped"} /\ mem'[c].fd = mem[c].fd
      /\ \A d \in Client : d # c => mem'[d] = mem[d]
  BY ReleaseEffect, ThreadsTyped DEF Shape, Release, Moved
<1>0a. /\ th'[t].op = th[t].op /\ th'[t].fd = f
  BY <1>0 DEF Kept, KeptAll
<1>0b. /\ fd_map[f] = c /\ c \in clients /\ mem[c].fd = f /\ mem[c].st = "live" /\ c <= accepted
  <2>1. fd_map[f] = c
    BY <1>0 DEF Tidy, Slots, Removal
  <2>2. c \in clients /\ mem[c].fd = f
    BY <1>0, <2>1, ThreadsTyped DEF Tidy, Slots
  <2>3. mem[c].st = "live"
    BY <1>0, <2>2 DEF Tidy, Slots
  <2>4. c <= accepted
    BY <1>0, <2>3, RegistryAssumption DEF Tidy, Alike, Types, Client
  <2> QED
    BY <2>1, <2>2, <2>3, <2>4
<1>0c. \A u \in Thread : th[u].pc \in Removal => u = t
  <2>1. registry_lock = t
    BY <1>0 DEF LocksInv, HeldRight, InRegistry, Removal
  <2> QED
    BY <2>1 DEF LocksInv, HeldRight, InRegistry
<1> HIDE DEF c, f
<1>0d. th'[t].pc \notin Removal \cup {"add", "shut", "flag", "idle"}
       /\ (t \in Worker => th'[t].pc = "unflag") /\ ~Marking(t)
  BY <1>0, ThreadsTyped DEF AfterRemove, Removal, Marking, Walking
<1>1. OneServer'
  BY <1>0, <1>0a DEF Tidy, OneServer, f
<1>2. Alike'
  <2>1. \A d \in Client : d > accepted => mem'[d].st = "none"
    <3> SUFFICES ASSUME NEW d \in Client, d > accepted PROVE mem'[d].st = "none"
      OBVIOUS
    <3>1. d # c
      BY <1>0, <1>0b DEF Types, Client
    <3> QED
      BY <1>0, <3>1 DEF Tidy, Alike
  <2> QED
    BY <1>0, <2>1 DEF Tidy, Alike, net
<1>3. Unmade'
  <2> SUFFICES ASSUME NEW u \in Thread, th'[u].pc = "add"
               PROVE  /\ mem'[th'[u].cl].st = "none" /\ th'[u].cl <= accepted'
                      /\ \A g \in Fd : conn'[g] = th'[u].cl => g = th'[u].fd
                      /\ \A v \in Thread : th'[v].pc = "add" /\ th'[v].cl = th'[u].cl => v = u
    BY DEF Unmade
  <2>1. \A v \in Thread : th'[v].pc = "add" => th'[v] = th[v]
    BY <1>0, <1>0d
  <2>2. /\ th'[u] = th[u] /\ th[u].pc = "add" /\ th[u].cl \in Client
        /\ mem[th[u].cl].st = "none" /\ th[u].cl <= accepted
        /\ \A g \in Fd : conn[g] = th[u].cl => g = th[u].fd
        /\ \A v \in Thread : th[v].pc = "add" /\ th[v].cl = th[u].cl => v = u
    BY <1>0, <2>1 DEF Tidy, Unmade, Placed, OnClient
  <2>3. th[u].cl # c
    BY <1>0b, <2>2
  <2> QED
    BY <1>0, <2>1, <2>2, <2>3 DEF net
<1>4. Known'
  <2> SUFFICES ASSUME NEW g \in Fd, conn[g] # 0, mem'[conn[g]].st # "none", ~ws_fd_map[g]
               PROVE  \E u \in Worker : th'[u].fd = g /\ Marking(u)'
    BY <1>0 DEF Known, net
  <2>1. conn[g] \in Client
    BY <1>0 DEF Types
  <2>2. mem[conn[g]].st # "none"
    BY <1>0, <1>0b, <2>1
  <2>3. PICK u \in Worker : th[u].fd = g /\ Marking(u)
    BY <2>2 DEF Tidy, Known
  <2> QED
    BY <1>0, <1>0d, <2>3 DEF Marking
<1>5. Slots'
  <2>1. \A d \in Client : mem'[d].st = "live" <=> d \in clients'
    BY <1>0 DEF Tidy, Slots
  <2>2. Cardinality(clients') = Cardinality(clients) - 1 /\ Cardinality(clients) \in Nat
    BY <1>0, <1>0b, ClientsFinite, FS_RemoveElement
  <2>3. current_count' = Cardinality(clients') /\ Cardinality(clients') <= MaxClients
    BY <1>0, <2>2, RegistryAssumption DEF Tidy, Slots
  <2>4. \A g \in Fd : fd_map'[g] # None => fd_map'[g] \in clients' /\ mem'[fd_map'[g]].fd = g
    <3> SUFFICES ASSUME NEW g \in Fd, fd_map'[g] # None
                 PROVE  fd_map'[g] \in clients' /\ mem'[fd_map'[g]].fd = g
      OBVIOUS
    <3>1. g # f /\ fd_map'[g] = fd_map[g]
      BY <1>0
    <3>2. fd_map[g] \in clients /\ mem[fd_map[g]].fd = g
      BY <3>1 DEF Tidy, Slots
    <3>3. fd_map[g] # c /\ fd_map[g] \in Client
      BY <1>0, <1>0b, <3>1, <3>2 DEF Types
    <3> QED
      BY <1>0, <3>1, <3>2, <3>3
  <2>5. \A u \in Thread : th'[u].pc \notin Removal
    BY <1>0, <1>0c, <1>0d
  <2> QED
    BY <2>1, <2>3, <2>4, <2>5 DEF Slots
<1>6. Serving'
  <2> SUFFICES ASSUME snatched = {} PROVE Serving'
    BY <1>0 DEF Serving, net
  <2>1. \A u \in Worker : ServedBy(u)
    BY <1>0 DEF Tidy, Serving
  <2>2. \A d \in clients' : fd_map'[mem'[d].fd] = d /\ conn'[mem'[d].fd] = d
    <3> SUFFICES ASSUME NEW d \in clients' PROVE fd_map'[mem'[d].fd] = d /\ conn[mem'[d].fd] = d
      BY <1>0 DEF net
    <3>1. d \in clients /\ d # c /\ d \in Client /\ mem'[d] = mem[d]
      BY <1>0 DEF Types
    <3>2. fd_map[mem[d].fd] = d /\ conn[mem[d].fd] = d /\ mem[d].fd \in Fd
      BY <1>0, <3>1 DEF Tidy, Serving, Lent
    <3>3. mem[d].fd # f
      BY <1>0b, <3>1, <3>2
    <3> QED
      BY <1>0, <3>1, <3>2, <3>3
  <2>3. \A u \in Worker : ServedBy(u)'
    <3> SUFFICES ASSUME NEW u \in Worker PROVE ServedBy(u)'
      OBVIOUS
    <3>1. CASE u = t
      <4>1. conn[f] # 0 /\ (th[t].op = "add" => conn[f] \in upgraded)
        BY <1>0, <2>1, <3>1 DEF ServedBy, f
      <4> QED
        BY <1>0, <1>0a, <1>0d, <3>1, <4>1 DEF ServedBy, net
    <3>2. CASE u # t
      <4>1. th'[u] = th[u] /\ ServedBy(u) /\ (th[u].pc \in {"unflag", "shut"} => th[u].fd \in Fd)
        BY <1>0, <2>1, <3>2 DEF Placed, OnFd
      <4>2. th[u].pc \in {"unflag", "shut"} => fd_map'[th[u].fd] = None
        BY <1>0, <4>1 DEF ServedBy
      <4> QED
        BY <1>0, <4>1, <4>2 DEF ServedBy, net
    <3> QED
      BY <3>1, <3>2
  <2> QED
    BY <1>0, <2>2, <2>3 DEF Tidy, Serving, net
<1> QED
  BY <1>1, <1>2, <1>3, <1>4, <1>5, <1>6 DEF Tidy

LEMMA ClearFlagTidy ==
  ASSUME Shape, Tidy, NEW t \in Thread, ClearFlag(t)
  PROVE  Tidy'
<1>0. /\ Types /\ Lent /\ (\A u \in Thread : Placed(u)) /\ t \in Worker /\ Worker \subseteq Thread
      /\ UNCHANGED <<tables, locks, conn, accepted, upgraded, snatched>>
      /\ KeptAll(t) /\ \A u \in Thread : u # t => th'[u] = th[u]
      /\ th[t].pc = "unflag" /\ th'[t].pc = "shut" /\ th[t].fd \in Fd
      /\ ws_fd_map'[th[t].fd] = FALSE
      /\ \A f \in Fd : f # th[t].fd => ws_fd_map'[f] = ws_fd_map[f]
      /\ OneServer
  BY ClearFlagEffect, WorkerSteps, ThreadsTyped DEF Shape, ClearFlag, Moved, Tidy
<1>0a. /\ th'[t].op = th[t].op /\ th'[t].fd = th[t].fd
  BY <1>0 DEF Kept, KeptAll
<1>1. OneServer'
  BY <1>0, <1>0a DEF Tidy, OneServer
<1>2. Alike'
  BY <1>0 DEF Tidy, Alike, tables
<1>3. Unmade'
  BY <1>0 DEF Tidy, Unmade, tables
<1>4. Known'
  <2> SUFFICES ASSUME NEW f \in Fd, conn[f] # 0, mem[conn[f]].st # "none", ~ws_fd_map'[f]
               PROVE  \E u \in Worker : th'[u].fd = f /\ Marking(u)'
    BY <1>0 DEF Known, tables
  <2>1. CASE f = th[t].fd
    BY <1>0, <1>0a, <2>1 DEF Marking
  <2>2. CASE f # th[t].fd
    <3>1. PICK u \in Worker : th[u].fd = f /\ Marking(u)
      BY <1>0, <2>2 DEF Tidy, Known
    <3> QED
      BY <1>0, <2>2, <3>1 DEF Marking
  <2> QED
    BY <2>1, <2>2
<1>5. Slots'
  BY <1>0, <1>0a DEF Tidy, Slots, tables, Removal
<1>6. Serving'
  <2> SUFFICES ASSUME snatched = {} PROVE Serving'
    BY <1>0 DEF Serving
  <2>1. ServedBy(t) /\ \A u \in Worker : ServedBy(u)
    BY <1>0 DEF Tidy, Serving
  <2>3. \A f \in Fd : ws_fd_map'[f] => conn[f] \in upgraded
    BY <1>0 DEF Tidy, Serving
  <2>4. \A u \in Worker : ServedBy(u)'
    <3> SUFFICES ASSUME NEW u \in Worker PROVE ServedBy(u)'
      OBVIOUS
    <3>1. CASE u = t
      BY <1>0, <1>0a, <2>1, <3>1 DEF ServedBy, tables
    <3>2. CASE u # t
      <4>1. th[u].fd # th[t].fd /\ th'[u] = th[u] /\ (th[u].pc = "shut" => th[u].fd \in Fd)
        BY <1>0, <3>2, OtherFd DEF Placed, OnFd
      <4> QED
        BY <1>0, <2>1, <4>1 DEF ServedBy, tables
    <3> QED
      BY <3>1, <3>2
  <2> QED
    BY <1>0, <2>3, <2>4 DEF Tidy, Serving, tables
<1> QED
  BY <1>1, <1>2, <1>3, <1>4, <1>5, <1>6 DEF Tidy

LEMMA ShutTidy ==
  ASSUME Shape, Tidy, NEW t \in Thread, Shut(t)
  PROVE  Tidy'
<1> DEFINE f == th[t].fd
<1>0. /\ Types /\ Lent /\ (\A u \in Thread : Placed(u)) /\ t \in Worker /\ Worker \subseteq Thread
      /\ UNCHANGED <<tables, locks, ws_fd_map, accepted, upgraded, snatched>>
      /\ Rested(t) /\ \A u \in Thread : u # t => th'[u] = th[u]
      /\ th[t].pc = "shut" /\ f \in Fd /\ None \notin Fd
      /\ conn'[f] = 0 /\ \A g \in Fd : g # f => conn'[g] = conn[g]
      /\ OneServer
  BY ShutEffect, WorkerSteps, ThreadsTyped, RegistryAssumption DEF Shape, Shut,
     Moved, Tidy
<1>0a. /\ th'[t].pc = "idle" /\ th'[t].op = None /\ th'[t].fd = None /\ None # "add"
  BY <1>0, RestingFields, RegistryAssumption DEF Rested
<1>1. OneServer'
  BY <1>0, <1>0a DEF Tidy, OneServer
<1>2. Alike'
  <2>1. accepted \in Nat
    BY <1>0, RegistryAssumption DEF Types
  <2>2. \A g \in Fd : conn'[g] <= accepted
    BY <1>0, <2>1 DEF Tidy, Alike
  <2>3. \A g, h \in Fd : conn'[g] = conn'[h] /\ conn'[g] # 0 => g = h
    BY <1>0 DEF Tidy, Alike
  <2> QED
    BY <1>0, <2>2, <2>3 DEF Tidy, Alike, tables
<1>3. Unmade'
  <2>1. \A v \in Thread : th'[v].pc = "add" => th'[v] = th[v] /\ th[v].cl \in Client /\ th[v].cl # 0
    BY <1>0, <1>0a DEF Placed, OnClient, Client
  <2> QED
    BY <1>0, <2>1 DEF Tidy, Unmade, tables
<1>4. Known'
  <2> SUFFICES ASSUME NEW g \in Fd, conn'[g] # 0, mem[conn'[g]].st # "none", ~ws_fd_map[g]
               PROVE  \E u \in Worker : th'[u].fd = g /\ Marking(u)'
    BY <1>0 DEF Known, tables
  <2>1. g # f /\ conn'[g] = conn[g]
    BY <1>0
  <2>2. PICK u \in Worker : th[u].fd = g /\ Marking(u)
    BY <2>1 DEF Tidy, Known
  <2> QED
    BY <1>0, <2>1, <2>2 DEF Marking
<1>5. Slots'
  BY <1>0, <1>0a DEF Tidy, Slots, tables, Removal
<1>6. Serving'
  <2> SUFFICES ASSUME snatched = {} PROVE Serving'
    BY <1>0 DEF Serving
  <2>1. ServedBy(t) /\ \A u \in Worker : ServedBy(u)
    BY <1>0 DEF Tidy, Serving
  <2>2. fd_map[f] = None /\ ~ws_fd_map[f]
    BY <1>0, <2>1 DEF ServedBy
  <2>3. \A g \in Fd : ws_fd_map[g] => conn'[g] \in upgraded
    BY <1>0, <2>2 DEF Tidy, Serving
  <2>4. \A d \in clients : fd_map[mem[d].fd] = d /\ conn'[mem[d].fd] = d
    <3> SUFFICES ASSUME NEW d \in clients PROVE fd_map[mem[d].fd] = d /\ conn'[mem[d].fd] = d
      OBVIOUS
    <3>1. fd_map[mem[d].fd] = d /\ conn[mem[d].fd] = d /\ mem[d].fd \in Fd /\ d # None
      BY <1>0, ThreadsTyped DEF Tidy, Serving, Lent, Types
    <3>2. mem[d].fd # f
      BY <2>2, <3>1
    <3> QED
      BY <1>0, <3>1, <3>2
  <2>5. \A u \in Worker : ServedBy(u)'
    <3> SUFFICES ASSUME NEW u \in Worker PROVE ServedBy(u)'
      OBVIOUS
    <3>1. CASE u = t
      BY <1>0a, <3>1 DEF ServedBy
    <3>2. CASE u # t /\ th[u].pc = "idle"
      <4>1. th'[u].pc = "idle" /\ th'[u].op = None
        BY <1>0, <3>2, RestingFields DEF Placed
      <4> QED
        BY <1>0a, <4>1 DEF ServedBy
    <3>3. CASE u # t /\ th[u].pc # "idle"
      <4>1. th[u].fd # f /\ th'[u] = th[u] /\ th[u].fd \in Fd
        BY <1>0, <3>3, OtherFd DEF Placed
      <4> HIDE DEF f
      <4> QED
        BY <1>0, <2>1, <4>1 DEF ServedBy, tables
    <3> QED
      BY <3>1, <3>2, <3>3
  <2> QED
    BY <1>0, <2>3, <2>4, <2>5 DEF Serving, tables
<1> QED
  BY <1>1, <1>2, <1>3, <1>4, <1>5, <1>6 DEF Tidy

LEMMA ReapCloseTidy ==
  ASSUME Shape, Tidy, NEW f \in Fd, ReapClose(f)
  PROVE  Tidy'
<1>0. /\ Types /\ Lent /\ (\A u \in Thread : Placed(u)) /\ Worker \subseteq Thread
      /\ UNCHANGED <<tables, locks, ws_fd_map, accepted, upgraded>>
      /\ \A u \in Thread : u # Maint => th'[u] = th[u]
      /\ th'[Maint].pc = "remove" /\ Maint \notin Worker /\ Maint \in Thread
      /\ conn'[f] = 0 /\ \A g \in Fd : g # f => conn'[g] = conn[g]
      /\ snatched' = snatched \cup ({conn[f]} \ {0})
  BY ReapCloseEffect, ThreadsTyped DEF Shape, ReapClose, Moved
<1>1. OneServer'
  BY <1>0 DEF Tidy, OneServer
<1>2. Alike'
  <2>1. accepted \in Nat
    BY <1>0, RegistryAssumption DEF Types
  <2>2. \A g \in Fd : conn'[g] <= accepted
    BY <1>0, <2>1 DEF Tidy, Alike
  <2>3. \A g, h \in Fd : conn'[g] = conn'[h] /\ conn'[g] # 0 => g = h
    BY <1>0 DEF Tidy, Alike
  <2> QED
    BY <1>0, <2>2, <2>3 DEF Tidy, Alike, tables
<1>3. Unmade'
  <2>1. \A v \in Thread : th'[v].pc = "add" => th'[v] = th[v] /\ th[v].cl \in Client /\ th[v].cl # 0
    BY <1>0 DEF Placed, OnClient, Client
  <2> QED
    BY <1>0, <2>1 DEF Tidy, Unmade, tables
<1>4. Known'
  <2> SUFFICES ASSUME NEW g \in Fd, conn'[g] # 0, mem[conn'[g]].st # "none", ~ws_fd_map[g]
               PROVE  \E u \in Worker : th'[u].fd = g /\ Marking(u)'
    BY <1>0 DEF Known, tables
  <2>1. g # f /\ conn'[g] = conn[g]
    BY <1>0
  <2>2. PICK u \in Worker : th[u].fd = g /\ Marking(u)
    BY <2>1 DEF Tidy, Known
  <2> QED
    BY <1>0, <2>1, <2>2 DEF Marking
<1>5. Slots'
  <2>1. \A u \in Thread : th'[u].pc \in Removal => th'[u] = th[u]
    BY <1>0 DEF Removal
  <2> QED
    BY <1>0, <2>1 DEF Tidy, Slots, tables
<1>6. Serving'
  <2> SUFFICES ASSUME snatched' = {} PROVE Serving'
    BY DEF Serving
  <2>1. snatched = {} /\ conn[f] = 0
    BY <1>0
  <2>2. \A g \in Fd : conn'[g] = conn[g]
    BY <1>0, <2>1
  <2>3. \A u \in Worker : ServedBy(u) /\ th'[u] = th[u]
    BY <1>0, <2>1 DEF Tidy, Serving
  <2>4. \A u \in Worker : ServedBy(u)'
    <3> SUFFICES ASSUME NEW u \in Worker PROVE ServedBy(u)'
      OBVIOUS
    <3>1. CASE th[u].pc = "idle"
      <4>1. th'[u].pc = "idle" /\ th'[u].op = None /\ None # "add"
        BY <1>0, <2>3, <3>1, RestingFields, RegistryAssumption DEF Placed
      <4> QED
        BY <4>1 DEF ServedBy
    <3>2. CASE th[u].pc # "idle"
      <4>1. th[u].fd \in Fd
        BY <1>0, <3>2 DEF Placed
      <4> QED
        BY <1>0, <2>2, <2>3, <4>1 DEF ServedBy, tables
    <3> QED
      BY <3>1, <3>2
  <2> QED
    BY <1>0, <2>1, <2>2, <2>4 DEF Tidy, Serving, Lent, tables
<1> QED
  BY <1>1, <1>2, <1>3, <1>4, <1>5, <1>6 DEF Tidy

LEMMA SilenceTidy ==
  ASSUME Shape, Tidy, NEW c \in Client, Silence(c)
  PROVE  Tidy'
<1>1. Bookkept /\ UNCHANGED th
  BY SilenceEffect DEF Silence, Bookkept, net
<1> QED
  BY <1>1, TidyStill

LEMMA TidyStep ==
  ASSUME Shape, LocksInv, Tidy, [Next]_vars
  PROVE  Tidy'
<1>1. ASSUME NEW f \in Fd, Accept(f)
      PROVE  Tidy'
  BY <1>1, AcceptTidy
<1>2. ASSUME NEW t \in Worker, NEW f \in Fd, Http(t, f)
      PROVE  Tidy'
  BY <1>2, HttpTidy
<1>3. ASSUME NEW t \in Worker, NEW f \in Fd, Message(t, f)
      PROVE  Tidy'
  BY <1>3, MessageTidy
<1>4. CASE Internal
  <2>1. Bookkept
    BY <1>4 DEF Internal, Bookkept, tables, net
  <2>2. Plain(Bridge) /\ Bridge \in Thread
    BY <1>4, InternalEffect, RestingFields, ThreadsTyped DEF Plain, Marking, Kept,
       KeptAll, Rested, Walking, Removal
  <2> QED
    BY <2>1, <2>2, TidyPlain
<1>5. ASSUME NEW t \in Thread, Add(t)
      PROVE  Tidy'
  BY <1>5, AddTidy
<1>6. ASSUME NEW t \in Thread, SetFlag(t)
      PROVE  Tidy'
  BY <1>6, SetFlagTidy
<1>7. ASSUME NEW t \in Thread, UpdateActivity(t)
      PROVE  Tidy'
  <2>1. Bookkept
    BY <1>7, UpdateActivityEffect DEF UpdateActivity, Bookkept, tables, net
  <2>2. Plain(t) /\ t \in Thread
    BY <1>7, UpdateActivityEffect, RestingFields, ThreadsTyped DEF Plain, Marking,
       Kept, KeptAll, Rested, Walking, Removal
  <2> QED
    BY <2>1, <2>2, TidyPlain
<1>8. ASSUME NEW t \in Thread, SetUserId(t)
      PROVE  Tidy'
  <2>1. Bookkept
    BY <1>8, SetUserIdEffect DEF SetUserId, Bookkept, tables, net
  <2>2. Plain(t) /\ t \in Thread
    BY <1>8, SetUserIdEffect, RestingFields, ThreadsTyped DEF Plain, Marking,
       Kept, KeptAll, Rested, Walking, Removal
  <2> QED
    BY <2>1, <2>2, TidyPlain
<1>9. ASSUME NEW t \in Thread, SubFind(t)
      PROVE  Tidy'
  <2>1. Bookkept
    BY <1>9 DEF SubFind, Bookkept, tables, net
  <2>2. Plain(t) /\ t \in Thread
    BY <1>9, SubFindEffect, RestingFields, ThreadsTyped DEF Plain, Marking, Kept,
       KeptAll, Rested, Walking, Removal
  <2> QED
    BY <2>1, <2>2, TidyPlain
<1>10. ASSUME NEW t \in Thread, SubBucket(t)
      PROVE  Tidy'
  <2>1. Bookkept
    BY <1>10 DEF SubBucket, Bookkept, tables, net
  <2>2. Plain(t) /\ t \in Thread
    BY <1>10, SubBucketEffect, RestingFields, ThreadsTyped DEF Plain, Marking,
       Kept, KeptAll, Rested, Walking, Removal
  <2> QED
    BY <2>1, <2>2, TidyPlain
<1>11. ASSUME NEW t \in Thread, SubInsert(t)
      PROVE  Tidy'
  <2>1. Bookkept
    BY <1>11 DEF SubInsert, Bookkept, tables, net
  <2>2. Plain(t) /\ t \in Thread
    BY <1>11, SubInsertEffect, RestingFields, ThreadsTyped DEF Plain, Marking,
       Kept, KeptAll, Rested, Walking, Removal
  <2> QED
    BY <2>1, <2>2, TidyPlain
<1>12. ASSUME NEW t \in Thread, SubRecord(t)
      PROVE  Tidy'
  <2>1. Bookkept
    BY <1>12, SubRecordEffect DEF SubRecord, Bookkept, tables, net
  <2>2. Plain(t) /\ t \in Thread
    BY <1>12, SubRecordEffect, RestingFields, ThreadsTyped DEF Plain, Marking,
       Kept, KeptAll, Rested, Walking, Removal
  <2> QED
    BY <2>1, <2>2, TidyPlain
<1>13. ASSUME NEW t \in Thread, WalkClients(t)
      PROVE  Tidy'
  <2>1. Bookkept
    BY <1>13 DEF WalkClients, Bookkept, tables, net
  <2>2. Plain(t) /\ t \in Thread
    BY <1>13, WalkClientsEffect, RestingFields, ThreadsTyped DEF Plain, Marking,
       Kept, KeptAll, Rested, Walking, Removal
  <2> QED
    BY <2>1, <2>2, TidyPlain
<1>14. ASSUME NEW t \in Thread, PubBucket(t)
      PROVE  Tidy'
  <2>1. Bookkept
    BY <1>14 DEF PubBucket, Bookkept, tables, net
  <2>2. Plain(t) /\ t \in Thread
    BY <1>14, PubBucketEffect, RestingFields, ThreadsTyped DEF Plain, Marking,
       Kept, KeptAll, Rested, Walking, Removal
  <2> QED
    BY <2>1, <2>2, TidyPlain
<1>15. ASSUME NEW t \in Thread, WalkBucket(t)
      PROVE  Tidy'
  <2>1. Bookkept
    BY <1>15 DEF WalkBucket, Bookkept, tables, net
  <2>2. Plain(t) /\ t \in Thread
    BY <1>15, WalkBucketEffect, RestingFields, ThreadsTyped DEF Plain, Marking,
       Kept, KeptAll, Rested, Walking, Removal
  <2> QED
    BY <2>1, <2>2, TidyPlain
<1>16. ASSUME NEW t \in Thread, Sent(t)
      PROVE  Tidy'
  <2>1. Bookkept
    BY <1>16 DEF Sent, Bookkept, tables, net
  <2>2. Plain(t) /\ t \in Thread
    BY <1>16, SentEffect, RestingFields, ThreadsTyped DEF Plain, Marking, Kept,
       KeptAll, Rested, Walking, Removal
  <2> QED
    BY <2>1, <2>2, TidyPlain
<1>17. ASSUME NEW t \in Thread, Walked(t)
      PROVE  Tidy'
  <2>1. Bookkept
    BY <1>17 DEF Walked, Bookkept, tables, net
  <2>2. Plain(t) /\ t \in Thread
    BY <1>17, WalkedEffect, RestingFields, ThreadsTyped DEF Plain, Marking, Kept,
       KeptAll, Rested, Walking, Removal
  <2> QED
    BY <2>1, <2>2, TidyPlain
<1>18. ASSUME NEW t \in Thread, NEW c \in Client, Visit(t, c)
      PROVE  Tidy'
  <2>1. Bookkept
    BY <1>18 DEF Visit, Bookkept, tables, net
  <2>2. Plain(t) /\ t \in Thread
    BY <1>18, VisitEffect, RestingFields, ThreadsTyped DEF Plain, Marking, Kept,
       KeptAll, Rested, Walking, Removal
  <2> QED
    BY <2>1, <2>2, TidyPlain
<1>19. ASSUME NEW t \in Thread, FindUser(t)
      PROVE  Tidy'
  <2>1. Bookkept
    BY <1>19 DEF FindUser, Bookkept, tables, net
  <2>2. Plain(t) /\ t \in Thread
    BY <1>19, FindUserEffect, RestingFields, ThreadsTyped DEF Plain, Marking,
       Kept, KeptAll, Rested, Walking, Removal
  <2> QED
    BY <2>1, <2>2, TidyPlain
<1>20. ASSUME NEW t \in Thread, Validate(t)
      PROVE  Tidy'
  <2>1. Bookkept
    BY <1>20 DEF Validate, Bookkept, tables, net
  <2>2. Plain(t) /\ t \in Thread
    BY <1>20, ValidateEffect, RestingFields, ThreadsTyped DEF Plain, Marking,
       Kept, KeptAll, Rested, Walking, Removal
  <2> QED
    BY <2>1, <2>2, TidyPlain
<1>21. ASSUME NEW t \in Thread, Written(t)
      PROVE  Tidy'
  <2>1. Bookkept
    BY <1>21 DEF Written, Bookkept, tables, net
  <2>2. Plain(t) /\ t \in Thread
    BY <1>21, WrittenEffect, RestingFields, ThreadsTyped DEF Plain, Marking, Kept,
       KeptAll, Rested, Walking, Removal
  <2> QED
    BY <2>1, <2>2, TidyPlain
<1>22. ASSUME NEW t \in Thread, Cleanup(t)
      PROVE  Tidy'
  BY <1>22, CleanupTidy
<1>23. ASSUME NEW t \in Thread, RemoveFind(t)
      PROVE  Tidy'
  BY <1>23, RemoveFindTidy
<1>24. ASSUME NEW t \in Thread, Deactivate(t)
      PROVE  Tidy'
  <2>1. Bookkept
    BY <1>24, DeactivateEffect DEF Deactivate, Bookkept, tables, net
  <2>2. Plain(t) /\ t \in Thread
    BY <1>24, DeactivateEffect, RestingFields, ThreadsTyped DEF Plain, Marking,
       Kept, KeptAll, Rested, Walking, Removal
  <2> QED
    BY <2>1, <2>2, TidyPlain
<1>25. ASSUME NEW t \in Thread, ForgetUser(t)
      PROVE  Tidy'
  <2>1. Bookkept
    BY <1>25 DEF ForgetUser, Bookkept, tables, net
  <2>2. Plain(t) /\ t \in Thread
    BY <1>25, ForgetUserEffect, RestingFields, ThreadsTyped DEF Plain, Marking,
       Kept, KeptAll, Rested, Walking, Removal
  <2> QED
    BY <2>1, <2>2, TidyPlain
<1>26. ASSUME NEW t \in Thread, LockHash(t)
      PROVE  Tidy'
  <2>1. Bookkept
    BY <1>26 DEF LockHash, Bookkept, tables, net
  <2>2. Plain(t) /\ t \in Thread
    BY <1>26, LockHashEffect, RestingFields, ThreadsTyped DEF Plain, Marking,
       Kept, KeptAll, Rested, Walking, Removal
  <2> QED
    BY <2>1, <2>2, TidyPlain
<1>27. ASSUME NEW t \in Thread, NEW k \in Topic, Unsubscribe(t, k)
      PROVE  Tidy'
  <2>1. Bookkept
    BY <1>27 DEF Unsubscribe, Bookkept, tables, net
  <2>2. Plain(t) /\ t \in Thread
    BY <1>27, UnsubscribeEffect, RestingFields, ThreadsTyped DEF Plain, Marking,
       Kept, KeptAll, Rested, Walking, Removal
  <2> QED
    BY <2>1, <2>2, TidyPlain
<1>28. ASSUME NEW t \in Thread, Release(t)
      PROVE  Tidy'
  BY <1>28, ReleaseTidy
<1>29. ASSUME NEW t \in Thread, ClearFlag(t)
      PROVE  Tidy'
  BY <1>29, ClearFlagTidy
<1>30. ASSUME NEW t \in Thread, Shut(t)
      PROVE  Tidy'
  BY <1>30, ShutTidy
<1>31. CASE Wake
  <2>1. Bookkept
    BY <1>31 DEF Wake, Bookkept, tables, net
  <2>2. Plain(Maint) /\ Maint \in Thread
    BY <1>31, WakeEffect, RestingFields, ThreadsTyped DEF Plain, Marking, Kept,
       KeptAll, Rested, Walking, Removal
  <2> QED
    BY <2>1, <2>2, TidyPlain
<1>32. CASE Collect
  <2>1. Bookkept
    BY <1>32 DEF Collect, Bookkept, tables, net
  <2>2. Plain(Maint) /\ Maint \in Thread
    BY <1>32, CollectEffect, RestingFields, ThreadsTyped DEF Plain, Marking, Kept,
       KeptAll, Rested, Walking, Removal
  <2> QED
    BY <2>1, <2>2, TidyPlain
<1>33. ASSUME NEW f \in Fd, ReapClose(f)
      PROVE  Tidy'
  BY <1>33, ReapCloseTidy
<1>34. CASE Reaped
  <2>1. Bookkept
    BY <1>34 DEF Reaped, Bookkept, tables, net
  <2>2. Plain(Maint) /\ Maint \in Thread
    BY <1>34, ReapedEffect, RestingFields, ThreadsTyped DEF Plain, Marking, Kept,
       KeptAll, Rested, Walking, Removal
  <2> QED
    BY <2>1, <2>2, TidyPlain
<1>35. ASSUME NEW c \in Client, Silence(c)
      PROVE  Tidy'
  BY <1>35, SilenceTidy
<1>36. CASE UNCHANGED vars
  <2>1. Bookkept /\ UNCHANGED th
    BY <1>36 DEF vars, tables, net, Bookkept
  <2> QED
    BY <2>1, TidyStill
<1> QED
  BY <1>1, <1>2, <1>3, <1>4, <1>5, <1>6, <1>7, <1>8, <1>9, <1>10, <1>11, <1>12,
     <1>13, <1>14, <1>15, <1>16, <1>17, <1>18, <1>19, <1>20, <1>21, <1>22, <1>23,
     <1>24, <1>25, <1>26, <1>27, <1>28, <1>29, <1>30, <1>31, <1>32, <1>33, <1>34,
     <1>35, <1>36 DEF Next, Registry, Send, Leave, Maintain

(* The inductive invariant of the tables.                                  *)
Books == Shape /\ LocksInv /\ Tidy

LEMMA BooksStart ==
  ASSUME Init
  PROVE  Books
<1>0. /\ th = [t \in Thread |-> Resting] /\ mem = [c \in Client |-> Unborn]
      /\ \A t \in Thread : th[t] = Resting
      /\ \A c \in Client : mem[c] = Unborn /\ mem[c].st = "none"
      /\ registry_lock = None /\ hash_lock = None
      /\ \A b \in Bucket : topic_lock[b] = None
      /\ \A c \in Client : client_lock[c] = None
      /\ \A f \in Fd : fd_map[f] = None /\ conn[f] = 0 /\ ws_fd_map[f] = FALSE
      /\ clients = {} /\ current_count = 0 /\ accepted = 0
  BY RestingFields DEF Init
<1>1. Types
  <2>1. th \in [Thread -> ThreadState] /\ mem \in [Client -> MemState]
    BY <1>0, RestTyped
  <2>2. accepted \in 0 .. MaxConn
    BY <1>0, RegistryAssumption
  <2> QED
    BY <1>0, <2>1, <2>2 DEF Init, Types
<1>2. Lent /\ \A t \in Thread : Placed(t)
  BY <1>0, RestingFields, RegistryAssumption
     DEF Lent, Placed, OnFd, OnClient, Removal, Subscribing, Walking, ClientOps,
         BridgeOps
<1>3. LocksInv
  BY <1>0, RestingFields, ThreadsTyped
     DEF LocksInv, HeldRight, InRegistry, InTopic, InClient, Removal, Walking
<1>4. OneServer /\ Unmade
  BY <1>0, RestingFields, RegistryAssumption, ThreadsTyped DEF OneServer, Unmade
<1>5. Alike /\ Known
  BY <1>0 DEF Alike, Known
<1>6. Slots
  <2>1. Cardinality(clients) = 0 /\ MaxClients \in Nat
    BY <1>0, FS_EmptySet, RegistryAssumption
  <2> QED
    BY <1>0, <2>1, RestingFields DEF Slots, Removal
<1>7. Serving
  BY <1>0, RestingFields, RegistryAssumption, ThreadsTyped DEF Serving, ServedBy
<1> QED
  BY <1>1, <1>2, <1>3, <1>4, <1>5, <1>6, <1>7 DEF Books, Shape, Tidy

LEMMA BooksStep ==
  ASSUME Books, [Next]_vars
  PROVE  Books'
BY TypesStep, PlacedStep, LocksStep, TidyStep DEF Books, Shape

(* Types, mutexes and tables hold in every state: what each thread has at  *)
(* hand, which mutexes it holds, and how slots, descriptors and            *)
(* connections correspond, with nothing assumed of names or of silence.    *)
THEOREM BooksCorrect == Spec => []Books
<1>1. Init => Books
  BY BooksStart
<1>2. Books /\ [Next]_vars => Books'
  BY BooksStep
<1> QED
  BY <1>1, <1>2, PTL DEF Spec

(* The tables of the registry agree with each other and with the           *)
(* connections behind the descriptors, at any number of threads, clients,  *)
(* topics and names, the reaper included.                                  *)
THEOREM TablesCorrect == Spec => []Tables
<1>1. ASSUME Books PROVE Tables
  <2>0. Types /\ Lent /\ Slots /\ Alike /\ Serving
    BY <1>1 DEF Books, Shape, Tidy
  <2>1. Cardinality(clients) \in Nat /\ MaxClients \in Nat
    BY <2>0, ClientsFinite, RegistryAssumption
  <2>2. Cardinality(clients) <= MaxClients /\ current_count \in 0 .. MaxClients
    BY <2>0, <2>1 DEF Slots
  <2>3. TypeOK
    BY <2>0, <2>2 DEF TypeOK, Types, MemState, ThreadState
  <2>4. TablesAgree
    BY <2>0 DEF TablesAgree, Slots, Serving
  <2>5. FlagOwn
    BY <2>0 DEF FlagOwn, Serving
  <2> QED
    BY <2>3, <2>4, <2>5 DEF Tables
<1> QED
  BY <1>1, BooksCorrect, PTL

(* The levels a thread holds, from the step it is at.                      *)
LEMMA HeldAt ==
  ASSUME LocksInv, NEW t \in Thread
  PROVE  /\ Held(t) \subseteq {1, 2, 3, 5}
         /\ 1 \in Held(t) <=> InRegistry(t)
         /\ 2 \in Held(t) <=> th[t].pc = "unsubscribe"
         /\ 3 \in Held(t) <=> \E b \in Bucket : InTopic(t, b)
         /\ 5 \in Held(t) <=> \E c \in Client : InClient(t, c)
<1>1. HeldRight(t)
  BY DEF LocksInv
<1> QED
  BY <1>1 DEF Held, HeldRight

LEMMA HeldAtNext ==
  ASSUME LocksInv', NEW t \in Thread
  PROVE  /\ Held(t)' \subseteq {1, 2, 3, 5}
         /\ 1 \in Held(t)' <=> InRegistry(t)'
         /\ 2 \in Held(t)' <=> th'[t].pc = "unsubscribe"
         /\ 3 \in Held(t)' <=> \E b \in Bucket : InTopic(t, b)'
         /\ 5 \in Held(t)' <=> \E c \in Client : InClient(t, c)'
<1>1. HeldRight(t)'
  BY DEF LocksInv
<1> QED
  BY <1>1 DEF Held, HeldRight

Ranked(t) == \A l \in Held(t)' \ Held(t) : \A k \in Held(t) : k < l

(* A step that takes nothing more, or that takes its first mutex.          *)
LEMMA RankedOthers ==
  ASSUME LocksInv, LocksInv', NEW t \in Thread, Moved(t), Ranked(t)
  PROVE  \A u \in Thread : Ranked(u)
<1> SUFFICES ASSUME NEW u \in Thread, u # t PROVE Held(u)' \subseteq Held(u)
  BY DEF Ranked
<1>1. th'[u] = th[u]
  BY DEF Moved
<1>2. /\ InRegistry(u)' <=> InRegistry(u)
      /\ \A b \in Bucket : InTopic(u, b)' <=> InTopic(u, b)
      /\ \A c \in Client : InClient(u, c)' <=> InClient(u, c)
  BY <1>1 DEF InRegistry, InTopic, InClient
<1> QED
  BY <1>1, <1>2, HeldAt, HeldAtNext

LEMMA RankedFirst ==
  ASSUME LocksInv, NEW t \in Thread, th[t].pc \notin Removal \cup Walking
  PROVE  Ranked(t)
<1>1. Held(t) = {}
  BY HeldAt DEF InRegistry, InTopic, InClient, Removal, Walking
<1> QED
  BY <1>1 DEF Ranked

LEMMA RankedLast ==
  ASSUME LocksInv', NEW t \in Thread, th'[t].pc \notin Removal \cup Walking
  PROVE  Ranked(t)
<1>1. Held(t)' = {}
  BY HeldAtNext DEF InRegistry, InTopic, InClient, Removal, Walking
<1> QED
  BY <1>1 DEF Ranked

LEMMA RankedStep ==
  ASSUME Shape, LocksInv, LocksInv', [Next]_vars
  PROVE  \A u \in Thread : Ranked(u)
<1>1. ASSUME NEW f \in Fd, Accept(f)
      PROVE  \A u \in Thread : Ranked(u)
  BY <1>1 DEF Accept, Ranked, Held, locks
<1>2. ASSUME NEW t \in Worker, NEW f \in Fd, Http(t, f)
      PROVE  \A u \in Thread : Ranked(u)
  <2>1. Moved(t) /\ t \in Thread /\ th[t].pc \notin Removal \cup Walking
    BY <1>2, HttpEffect, ThreadsTyped DEF Removal, Walking
  <2> QED
    BY <2>1, RankedFirst, RankedOthers
<1>3. ASSUME NEW t \in Worker, NEW f \in Fd, Message(t, f)
      PROVE  \A u \in Thread : Ranked(u)
  <2>1. Moved(t) /\ t \in Thread /\ th[t].pc \notin Removal \cup Walking
    BY <1>3, MessageEffect, ThreadsTyped DEF Removal, Walking
  <2> QED
    BY <2>1, RankedFirst, RankedOthers
<1>4. CASE Internal
  <2>1. Moved(Bridge) /\ Bridge \in Thread /\ th[Bridge].pc \notin Removal \cup Walking
    BY <1>4, InternalEffect, ThreadsTyped DEF Removal, Walking
  <2> QED
    BY <2>1, RankedFirst, RankedOthers
<1>5. ASSUME NEW t \in Thread, Add(t)
      PROVE  \A u \in Thread : Ranked(u)
  <2>1. Moved(t) /\ t \in Thread /\ th[t].pc \notin Removal \cup Walking
    BY <1>5, AddEffect, ThreadsTyped DEF Removal, Walking
  <2> QED
    BY <2>1, RankedFirst, RankedOthers
<1>6. ASSUME NEW t \in Thread, SetFlag(t)
      PROVE  \A u \in Thread : Ranked(u)
  <2>1. Moved(t) /\ t \in Thread /\ th[t].pc \notin Removal \cup Walking
    BY <1>6, SetFlagEffect, ThreadsTyped DEF Removal, Walking
  <2> QED
    BY <2>1, RankedFirst, RankedOthers
<1>7. ASSUME NEW t \in Thread, UpdateActivity(t)
      PROVE  \A u \in Thread : Ranked(u)
  <2>1. Moved(t) /\ t \in Thread /\ th[t].pc \notin Removal \cup Walking
    BY <1>7, UpdateActivityEffect, ThreadsTyped DEF Removal, Walking
  <2> QED
    BY <2>1, RankedFirst, RankedOthers
<1>8. ASSUME NEW t \in Thread, SetUserId(t)
      PROVE  \A u \in Thread : Ranked(u)
  <2>1. Moved(t) /\ t \in Thread /\ th[t].pc \notin Removal \cup Walking
    BY <1>8, SetUserIdEffect, ThreadsTyped DEF Removal, Walking
  <2> QED
    BY <2>1, RankedFirst, RankedOthers
<1>9. ASSUME NEW t \in Thread, SubFind(t)
      PROVE  \A u \in Thread : Ranked(u)
  <2>1. Moved(t) /\ t \in Thread /\ th[t].pc \notin Removal \cup Walking
    BY <1>9, SubFindEffect, ThreadsTyped DEF Removal, Walking
  <2> QED
    BY <2>1, RankedFirst, RankedOthers
<1>10. ASSUME NEW t \in Thread, SubBucket(t)
      PROVE  \A u \in Thread : Ranked(u)
  <2>1. Moved(t) /\ t \in Thread /\ th[t].pc \notin Removal \cup Walking
    BY <1>10, SubBucketEffect, ThreadsTyped DEF Removal, Walking
  <2> QED
    BY <2>1, RankedFirst, RankedOthers
<1>11. ASSUME NEW t \in Thread, SubInsert(t)
      PROVE  \A u \in Thread : Ranked(u)
  <2>1. Moved(t) /\ t \in Thread /\ th[t].pc \notin Removal \cup Walking
    BY <1>11, SubInsertEffect, ThreadsTyped DEF Removal, Walking
  <2> QED
    BY <2>1, RankedFirst, RankedOthers
<1>12. ASSUME NEW t \in Thread, SubRecord(t)
      PROVE  \A u \in Thread : Ranked(u)
  <2>1. Moved(t) /\ t \in Thread /\ th[t].pc \notin Removal \cup Walking
    BY <1>12, SubRecordEffect, ThreadsTyped DEF Removal, Walking
  <2> QED
    BY <2>1, RankedFirst, RankedOthers
<1>13. ASSUME NEW t \in Thread, WalkClients(t)
      PROVE  \A u \in Thread : Ranked(u)
  <2>1. Moved(t) /\ t \in Thread /\ th[t].pc \notin Removal \cup Walking
    BY <1>13, WalkClientsEffect, ThreadsTyped DEF Removal, Walking
  <2> QED
    BY <2>1, RankedFirst, RankedOthers
<1>14. ASSUME NEW t \in Thread, PubBucket(t)
      PROVE  \A u \in Thread : Ranked(u)
  <2>1. Moved(t) /\ t \in Thread /\ th[t].pc \notin Removal \cup Walking
    BY <1>14, PubBucketEffect, ThreadsTyped DEF Removal, Walking
  <2> QED
    BY <2>1, RankedFirst, RankedOthers
<1>15. ASSUME NEW t \in Thread, WalkBucket(t)
      PROVE  \A u \in Thread : Ranked(u)
  <2>1. Moved(t) /\ t \in Thread /\ th[t].pc \notin Removal \cup Walking
    BY <1>15, WalkBucketEffect, ThreadsTyped DEF Removal, Walking
  <2> QED
    BY <2>1, RankedFirst, RankedOthers
<1>16. ASSUME NEW t \in Thread, Sent(t)
      PROVE  \A u \in Thread : Ranked(u)
  <2>1. Moved(t) /\ Kept(t) /\ th[t].pc = "send" /\ th'[t].pc = "walk"
    BY <1>16, SentEffect DEF KeptAll
  <2>2. Held(t)' \subseteq Held(t)
    BY <2>1, HeldAt, HeldAtNext DEF Ranked, InRegistry, InTopic, InClient,
       Removal, Walking, Kept, KeptAll
  <2>3. Ranked(t)
    BY <2>2 DEF Ranked
  <2> QED
    BY <2>1, <2>3, RankedOthers
<1>17. ASSUME NEW t \in Thread, Walked(t)
      PROVE  \A u \in Thread : Ranked(u)
  <2>1. Moved(t) /\ t \in Thread /\ th'[t].pc \notin Removal \cup Walking
    BY <1>17, WalkedEffect, ThreadsTyped, RestingFields DEF Removal, Walking,
       Rested, AfterRemove
  <2> QED
    BY <2>1, RankedLast, RankedOthers
<1>18. ASSUME NEW t \in Thread, NEW c \in Client, Visit(t, c)
      PROVE  \A u \in Thread : Ranked(u)
  <2>1. Moved(t) /\ Kept(t) /\ th[t].pc = "walk" /\ th'[t].pc \in {"walk", "send"}
    BY <1>18, VisitEffect
  <2>2. Held(t) \subseteq {1, 3} /\ Held(t)' \subseteq Held(t) \cup {5}
    BY <2>1, HeldAt, HeldAtNext DEF Ranked, InRegistry, InTopic, InClient,
       Removal, Walking, Kept, KeptAll
  <2>3. Ranked(t)
    BY <2>2 DEF Ranked
  <2> QED
    BY <2>1, <2>3, RankedOthers
<1>19. ASSUME NEW t \in Thread, FindUser(t)
      PROVE  \A u \in Thread : Ranked(u)
  <2>1. Moved(t) /\ t \in Thread /\ th[t].pc \notin Removal \cup Walking
    BY <1>19, FindUserEffect, ThreadsTyped DEF Removal, Walking
  <2> QED
    BY <2>1, RankedFirst, RankedOthers
<1>20. ASSUME NEW t \in Thread, Validate(t)
      PROVE  \A u \in Thread : Ranked(u)
  <2>1. Moved(t) /\ t \in Thread /\ th[t].pc \notin Removal \cup Walking
    BY <1>20, ValidateEffect, ThreadsTyped DEF Removal, Walking
  <2> QED
    BY <2>1, RankedFirst, RankedOthers
<1>21. ASSUME NEW t \in Thread, Written(t)
      PROVE  \A u \in Thread : Ranked(u)
  <2>1. Moved(t) /\ t \in Thread /\ th[t].pc \notin Removal \cup Walking
    BY <1>21, WrittenEffect, ThreadsTyped DEF Removal, Walking
  <2> QED
    BY <2>1, RankedFirst, RankedOthers
<1>22. ASSUME NEW t \in Thread, Cleanup(t)
      PROVE  \A u \in Thread : Ranked(u)
  <2>1. Moved(t) /\ t \in Thread /\ th[t].pc \notin Removal \cup Walking
    BY <1>22, CleanupEffect, ThreadsTyped DEF Removal, Walking
  <2> QED
    BY <2>1, RankedFirst, RankedOthers
<1>23. ASSUME NEW t \in Thread, RemoveFind(t)
      PROVE  \A u \in Thread : Ranked(u)
  <2>1. Moved(t) /\ t \in Thread /\ th[t].pc \notin Removal \cup Walking
    BY <1>23, RemoveFindEffect, ThreadsTyped DEF Removal, Walking
  <2> QED
    BY <2>1, RankedFirst, RankedOthers
<1>24. ASSUME NEW t \in Thread, Deactivate(t)
      PROVE  \A u \in Thread : Ranked(u)
  <2>1. Moved(t) /\ Kept(t) /\ th[t].pc = "deactivate" /\ th'[t].pc = "forget"
    BY <1>24, DeactivateEffect DEF KeptAll
  <2>2. Held(t)' \subseteq Held(t)
    BY <2>1, HeldAt, HeldAtNext DEF Ranked, InRegistry, InTopic, InClient,
       Removal, Walking, Kept, KeptAll
  <2>3. Ranked(t)
    BY <2>2 DEF Ranked
  <2> QED
    BY <2>1, <2>3, RankedOthers
<1>25. ASSUME NEW t \in Thread, ForgetUser(t)
      PROVE  \A u \in Thread : Ranked(u)
  <2>1. Moved(t) /\ Kept(t) /\ th[t].pc = "forget" /\ th'[t].pc = "unhash"
    BY <1>25, ForgetUserEffect DEF KeptAll
  <2>2. Held(t)' \subseteq Held(t)
    BY <2>1, HeldAt, HeldAtNext DEF Ranked, InRegistry, InTopic, InClient,
       Removal, Walking, Kept, KeptAll
  <2>3. Ranked(t)
    BY <2>2 DEF Ranked
  <2> QED
    BY <2>1, <2>3, RankedOthers
<1>26. ASSUME NEW t \in Thread, LockHash(t)
      PROVE  \A u \in Thread : Ranked(u)
  <2>1. Moved(t) /\ Kept(t) /\ th[t].pc = "unhash" /\ th'[t].pc = "unsubscribe"
    BY <1>26, LockHashEffect
  <2>2. Held(t) \subseteq {1} /\ Held(t)' \subseteq {1, 2}
    BY <2>1, HeldAt, HeldAtNext DEF Ranked, InRegistry, InTopic, InClient,
       Removal, Walking, Kept, KeptAll
  <2>3. Ranked(t)
    BY <2>1, <2>2, HeldAt, HeldAtNext DEF Ranked, InRegistry, InTopic, InClient,
       Removal, Walking, Kept, KeptAll
  <2> QED
    BY <2>1, <2>3, RankedOthers
<1>27. ASSUME NEW t \in Thread, NEW k \in Topic, Unsubscribe(t, k)
      PROVE  \A u \in Thread : Ranked(u)
  <2>1. Moved(t) /\ Kept(t) /\ th[t].pc = "unsubscribe" /\ th'[t].pc = "unsubscribe"
    BY <1>27, UnsubscribeEffect DEF KeptAll
  <2>2. Held(t)' \subseteq Held(t)
    BY <2>1, HeldAt, HeldAtNext DEF Ranked, InRegistry, InTopic, InClient,
       Removal, Walking, Kept, KeptAll
  <2>3. Ranked(t)
    BY <2>2 DEF Ranked
  <2> QED
    BY <2>1, <2>3, RankedOthers
<1>28. ASSUME NEW t \in Thread, Release(t)
      PROVE  \A u \in Thread : Ranked(u)
  <2>1. Moved(t) /\ t \in Thread /\ th'[t].pc \notin Removal \cup Walking
    BY <1>28, ReleaseEffect, ThreadsTyped, RestingFields DEF Removal, Walking,
       Rested, AfterRemove
  <2> QED
    BY <2>1, RankedLast, RankedOthers
<1>29. ASSUME NEW t \in Thread, ClearFlag(t)
      PROVE  \A u \in Thread : Ranked(u)
  <2>1. Moved(t) /\ t \in Thread /\ th[t].pc \notin Removal \cup Walking
    BY <1>29, ClearFlagEffect, ThreadsTyped DEF Removal, Walking
  <2> QED
    BY <2>1, RankedFirst, RankedOthers
<1>30. ASSUME NEW t \in Thread, Shut(t)
      PROVE  \A u \in Thread : Ranked(u)
  <2>1. Moved(t) /\ t \in Thread /\ th[t].pc \notin Removal \cup Walking
    BY <1>30, ShutEffect, ThreadsTyped DEF Removal, Walking
  <2> QED
    BY <2>1, RankedFirst, RankedOthers
<1>31. CASE Wake
  <2>1. Moved(Maint) /\ Maint \in Thread /\ th[Maint].pc \notin Removal \cup Walking
    BY <1>31, WakeEffect, ThreadsTyped DEF Removal, Walking
  <2> QED
    BY <2>1, RankedFirst, RankedOthers
<1>32. CASE Collect
  <2>1. Moved(Maint) /\ Maint \in Thread /\ th[Maint].pc \notin Removal \cup Walking
    BY <1>32, CollectEffect, ThreadsTyped DEF Removal, Walking
  <2> QED
    BY <2>1, RankedFirst, RankedOthers
<1>33. ASSUME NEW f \in Fd, ReapClose(f)
      PROVE  \A u \in Thread : Ranked(u)
  <2>1. Moved(Maint) /\ Maint \in Thread /\ th[Maint].pc \notin Removal \cup Walking
    BY <1>33, ReapCloseEffect, ThreadsTyped DEF Removal, Walking
  <2> QED
    BY <2>1, RankedFirst, RankedOthers
<1>34. CASE Reaped
  <2>1. Moved(Maint) /\ Maint \in Thread /\ th[Maint].pc \notin Removal \cup Walking
    BY <1>34, ReapedEffect, ThreadsTyped DEF Removal, Walking
  <2> QED
    BY <2>1, RankedFirst, RankedOthers
<1>35. ASSUME NEW c \in Client, Silence(c)
      PROVE  \A u \in Thread : Ranked(u)
  BY <1>35 DEF Silence, Ranked, Held, locks
<1>36. CASE UNCHANGED vars
  BY <1>36 DEF vars, locks, Ranked, Held
<1> QED
  BY <1>1, <1>2, <1>3, <1>4, <1>5, <1>6, <1>7, <1>8, <1>9, <1>10, <1>11, <1>12,
     <1>13, <1>14, <1>15, <1>16, <1>17, <1>18, <1>19, <1>20, <1>21, <1>22, <1>23,
     <1>24, <1>25, <1>26, <1>27, <1>28, <1>29, <1>30, <1>31, <1>32, <1>33, <1>34,
     <1>35, <1>36 DEF Next, Registry, Send, Leave, Maintain

(* No step takes a mutex below one its thread holds, whoever runs beside   *)
(* it: no cycle of waits can arise between the mutexes of the registry.    *)
THEOREM HierarchyCorrect == Spec => Hierarchy
<1>1. ASSUME Books, [Next]_vars
      PROVE  [\A t \in Thread : \A l \in Held(t)' \ Held(t) : \A k \in Held(t) : k < l]_vars
  <2>1. Shape /\ LocksInv /\ LocksInv'
    BY <1>1, BooksStep DEF Books
  <2>2. \A u \in Thread : Ranked(u)
    BY <1>1, <2>1, RankedStep
  <2> QED
    BY <2>2 DEF Ranked
<1> QED
  BY <1>1, BooksCorrect, PTL DEF Spec, Hierarchy

(* A list with no client twice: the client taken out is gone from it, the  *)
(* others stay.                                                            *)
Distinct(list) == \A i, j \in DOMAIN list : list[i] = list[j] => i = j
In(c, list) == \E i \in DOMAIN list : list[i] = c

LEMMA WithoutGone ==
  ASSUME NEW list \in Seq(Client), NEW c \in Client, Distinct(list)
  PROVE  /\ Distinct(Without(list, c))
         /\ \A d \in Client : In(d, Without(list, c)) <=> In(d, list) /\ d # c
<1> DEFINE w == Without(list, c)
<1>1. w \in Seq(Client)
  BY WithoutEffect
<1>2. CASE w = list /\ \A i \in DOMAIN list : list[i] # c
  BY <1>2 DEF In
<1>3. CASE \E n \in DOMAIN list : /\ list[n] = c /\ Len(w) = Len(list) - 1
                                  /\ \A i \in DOMAIN w : w[i] = list[IF i < n THEN i ELSE i + 1]
  <2>1. PICK n \in DOMAIN list :
          /\ list[n] = c /\ Len(w) = Len(list) - 1
          /\ \A i \in DOMAIN w : w[i] = list[IF i < n THEN i ELSE i + 1]
    BY <1>3
  <2> HIDE DEF w
  <2> DEFINE at(i) == IF i < n THEN i ELSE i + 1
  <2>2. Len(list) \in Nat /\ DOMAIN list = 1 .. Len(list) /\ DOMAIN w = 1 .. Len(list) - 1
        /\ n \in 1 .. Len(list)
    BY <1>1, <2>1
  <2>3. \A i \in DOMAIN w : at(i) \in DOMAIN list /\ at(i) # n
    BY <2>2
  <2>4. \A i, j \in DOMAIN w : at(i) = at(j) => i = j
    BY <2>2
  <2>5. \A k \in DOMAIN list : k # n => \E i \in DOMAIN w : at(i) = k
    <3> SUFFICES ASSUME NEW k \in DOMAIN list, k # n PROVE \E i \in DOMAIN w : at(i) = k
      OBVIOUS
    <3>1. CASE k < n
      <4>1. k \in DOMAIN w /\ at(k) = k
        BY <2>2, <3>1
      <4> QED
        BY <4>1
    <3>2. CASE k > n
      <4>1. k - 1 \in DOMAIN w /\ at(k - 1) = k
        BY <2>2, <3>2
      <4> QED
        BY <4>1
    <3> QED
      BY <2>2, <3>1, <3>2
  <2>6. \A i \in DOMAIN w : w[i] = list[at(i)]
    BY <2>1
  <2> HIDE DEF at
  <2>7. Distinct(w)
    BY <2>3, <2>4, <2>6 DEF Distinct
  <2>8. \A d \in Client : In(d, w) => In(d, list) /\ d # c
    <3> SUFFICES ASSUME NEW d \in Client, NEW i \in DOMAIN w, w[i] = d
                 PROVE  In(d, list) /\ d # c
      BY DEF In
    <3>1. at(i) \in DOMAIN list /\ at(i) # n /\ list[at(i)] = d
      BY <2>3, <2>6
    <3>2. d # c
      BY <2>1, <3>1 DEF Distinct
    <3> QED
      BY <3>1, <3>2 DEF In
  <2>9. \A d \in Client : In(d, list) /\ d # c => In(d, w)
    <3> SUFFICES ASSUME NEW d \in Client, NEW k \in DOMAIN list, list[k] = d, d # c
                 PROVE  In(d, w)
      BY DEF In
    <3>1. k # n
      BY <2>1
    <3>2. PICK i \in DOMAIN w : at(i) = k
      BY <2>5, <3>1
    <3> QED
      BY <2>6, <3>2 DEF In
  <2> QED
    BY <2>7, <2>8, <2>9 DEF w
<1> QED
  BY <1>2, <1>3, WithoutEffect

LEMMA AddedFirst ==
  ASSUME NEW list \in Seq(Client), NEW c \in Client, Distinct(list), ~In(c, list)
  PROVE  /\ Distinct(<<c>> \o list)
         /\ \A d \in Client : In(d, <<c>> \o list) <=> In(d, list) \/ d = c
<1> DEFINE w == <<c>> \o list
<1>1. /\ w \in Seq(Client) /\ Len(w) = Len(list) + 1 /\ Len(list) \in Nat
      /\ w[1] = c /\ \A i \in 2 .. Len(list) + 1 : w[i] = list[i - 1]
      /\ DOMAIN w = 1 .. Len(list) + 1 /\ DOMAIN list = 1 .. Len(list)
  OBVIOUS
<1> HIDE DEF w
<1>2. Distinct(w)
  <2> SUFFICES ASSUME NEW i \in DOMAIN w, NEW j \in DOMAIN w, w[i] = w[j] PROVE i = j
    BY DEF Distinct
  <2>1. CASE i = 1 /\ j = 1
    BY <2>1
  <2>2. CASE i # 1 /\ j = 1
    <3>1. i - 1 \in DOMAIN list /\ list[i - 1] = c
      BY <1>1, <2>2
    <3> QED
      BY <3>1 DEF In
  <2>3. CASE i = 1 /\ j # 1
    <3>1. j - 1 \in DOMAIN list /\ list[j - 1] = c
      BY <1>1, <2>3
    <3> QED
      BY <3>1 DEF In
  <2>4. CASE i # 1 /\ j # 1
    <3>1. i - 1 \in DOMAIN list /\ j - 1 \in DOMAIN list /\ list[i - 1] = list[j - 1]
      BY <1>1, <2>4
    <3>2. i - 1 = j - 1
      BY <3>1 DEF Distinct
    <3> QED
      BY <1>1, <3>2
  <2> QED
    BY <2>1, <2>2, <2>3, <2>4
<1>3. \A d \in Client : In(d, w) => In(d, list) \/ d = c
  <2> SUFFICES ASSUME NEW d \in Client, NEW i \in DOMAIN w, w[i] = d, d # c PROVE In(d, list)
    BY DEF In
  <2>1. i - 1 \in DOMAIN list /\ list[i - 1] = d
    BY <1>1
  <2> QED
    BY <2>1 DEF In
<1>4. \A d \in Client : In(d, list) \/ d = c => In(d, w)
  <2>1. In(c, w)
    BY <1>1 DEF In
  <2>2. ASSUME NEW d \in Client, NEW i \in DOMAIN list, list[i] = d PROVE In(d, w)
    <3>1. i + 1 \in DOMAIN w /\ w[i + 1] = d
      <4>1. i \in 1 .. Len(list) /\ i + 1 \in 2 .. Len(list) + 1 /\ (i + 1) - 1 = i
        BY <1>1
      <4> QED
        BY <1>1, <2>2, <4>1
    <3> QED
      BY <3>1 DEF In
  <2> QED
    BY <2>1, <2>2 DEF In
<1> QED
  BY <1>2, <1>3, <1>4 DEF w

(* A client whose node has been taken out of user_map.                     *)
Unnaming(c) == \E t \in Thread : th[t].pc \in {"unhash", "unsubscribe"} /\ th[t].cl = c

(* user_map holds the clients that have a name, each once and under it.    *)
Names ==
  /\ \A p \in Place : Distinct(user_map[p])
  /\ \A p \in Place : \A c \in Client : In(c, user_map[p]) =>
       c \in clients /\ mem[c].user_id # None /\ p = Slot[mem[c].user_id] /\ ~Unnaming(c)
  /\ \A c \in clients : mem[c].user_id # None /\ ~Unnaming(c) =>
       In(c, user_map[Slot[mem[c].user_id]])

(* Steps that leave user_map, and who is about to leave it, alone.         *)
Nameless(t) ==
  /\ Moved(t) /\ UNCHANGED <<user_map, clients>>
  /\ \A c \in Client : mem'[c].user_id = mem[c].user_id
  /\ \/ {th[t].pc, th'[t].pc} \cap {"unhash", "unsubscribe"} = {}
     \/ /\ {th[t].pc, th'[t].pc} \subseteq {"unhash", "unsubscribe"}
        /\ th'[t].cl = th[t].cl

LEMMA NamelessNames ==
  ASSUME Types, Names, NEW t \in Thread, Nameless(t)
  PROVE  Names'
<1>1. \A u \in Thread : \A c \in Client :
        th'[u].pc \in {"unhash", "unsubscribe"} /\ th'[u].cl = c
          <=> th[u].pc \in {"unhash", "unsubscribe"} /\ th[u].cl = c
  BY DEF Nameless, Moved
<1>2. \A c \in Client : Unnaming(c)' <=> Unnaming(c)
  BY <1>1 DEF Unnaming
<1>3. /\ user_map' = user_map /\ clients' = clients
      /\ \A c \in Client : mem'[c].user_id = mem[c].user_id
  BY DEF Nameless
<1>4. \A p \in Place : Distinct(user_map'[p])
  BY <1>3 DEF Names
<1>5. ASSUME NEW p \in Place, NEW c \in Client, In(c, user_map'[p])
      PROVE  c \in clients' /\ mem'[c].user_id # None /\ p = Slot[mem'[c].user_id]
             /\ ~Unnaming(c)'
  BY <1>2, <1>3, <1>5 DEF Names
<1>6. ASSUME NEW c \in clients', mem'[c].user_id # None, ~Unnaming(c)'
      PROVE  In(c, user_map'[Slot[mem'[c].user_id]])
  <2>1. c \in clients /\ c \in Client
    BY <1>3, <1>6 DEF Types
  <2>2. mem[c].user_id # None /\ ~Unnaming(c)
    BY <1>2, <1>3, <1>6, <2>1
  <2>3. In(c, user_map[Slot[mem[c].user_id]])
    BY <2>1, <2>2 DEF Names
  <2> QED
    BY <1>3, <2>1, <2>3
<1> QED
  BY <1>4, <1>5, <1>6 DEF Names, Distinct, In

LEMMA StillNames ==
  ASSUME Types, Names, UNCHANGED <<user_map, clients, th>>,
         \A c \in Client : mem'[c].user_id = mem[c].user_id
  PROVE  Names'
BY DEF Names, Types, Unnaming

(* While registry_lock is free, nobody is taken out.                       *)
LEMMA NoRemoval ==
  ASSUME LocksInv, registry_lock = None
  PROVE  /\ \A t \in Thread : th[t].pc \notin Removal
         /\ \A c \in Client : ~Unnaming(c)
BY ThreadsTyped DEF LocksInv, HeldRight, InRegistry, Unnaming, Removal

LEMMA OneRemoval ==
  ASSUME LocksInv, NEW t \in Thread, th[t].pc \in Removal
  PROVE  \A u \in Thread : th[u].pc \in Removal => u = t
BY DEF LocksInv, HeldRight, InRegistry

LEMMA AddNames ==
  ASSUME Books, Names, NEW t \in Thread, Add(t)
  PROVE  Names'
<1>0. /\ Shape /\ Types /\ LocksInv /\ Slots /\ Moved(t) /\ UNCHANGED user_map /\ registry_lock = None
      /\ th[t].pc = "add" /\ th'[t].pc \in {"broadcast", "flag"} /\ th[t].cl \in Client
      /\ mem[th[t].cl].st = "none"
  BY AddEffect DEF Books, Shape, Tidy, Unmade, Add
<1>1. CASE UNCHANGED <<mem, clients, fd_map, current_count>>
  <2>1. Nameless(t)
    BY <1>0, <1>1 DEF Nameless
  <2> QED
    BY <1>0, <2>1, NamelessNames
<1>2. CASE ~UNCHANGED <<mem, clients, fd_map, current_count>>
  <2> DEFINE c == th[t].cl
  <2>1. /\ clients' = clients \cup {c} /\ \A d \in Client : d # c => mem'[d] = mem[d]
        /\ mem'[c].user_id = None /\ c \in Client /\ c \notin clients
    BY <1>0, <1>2, AddEffect DEF Unborn, Slots
  <2> HIDE DEF c
  <2>2. \A d \in Client : ~Unnaming(d)'
    BY <1>0, NoRemoval DEF Unnaming, Moved, Removal
  <2>3. \A p \in Place : \A d \in Client : In(d, user_map[p]) =>
          d \in clients /\ d # c /\ mem[d].user_id # None /\ p = Slot[mem[d].user_id]
    BY <2>1 DEF Names
  <2>4. \A d \in clients' : mem'[d].user_id # None => In(d, user_map[Slot[mem'[d].user_id]])
    BY <1>0, <2>1, NoRemoval DEF Names, Types
  <2>5. \A p \in Place : Distinct(user_map'[p])
    BY <1>0 DEF Names
  <2> QED
    BY <1>0, <2>1, <2>2, <2>3, <2>4, <2>5 DEF Names
<1> QED
  BY <1>1, <1>2

LEMMA SetUserIdNames ==
  ASSUME CutSlot = Slot, Books, Names, NEW t \in Thread, SetUserId(t)
  PROVE  Names'
<1>0. /\ Shape /\ Types /\ LocksInv /\ Slots /\ Moved(t) /\ Rested(t) /\ UNCHANGED clients
      /\ th[t].pc = "auth" /\ th[t].fd \in Fd /\ th[t].key \in Name /\ registry_lock = None
      /\ \A d \in Client : ~Unnaming(d)
      /\ th'[t].pc = "idle"
  BY SetUserIdEffect, NoRemoval, RestingFields DEF Books, Shape, Tidy, SetUserId, Rested
<1>1. CASE UNCHANGED <<mem, user_map>>
  <2>1. Nameless(t)
    BY <1>0, <1>1 DEF Nameless
  <2> QED
    BY <1>0, <2>1, NamelessNames
<1>2. CASE ~UNCHANGED <<mem, user_map>>
  <2>0. \E c \in Client, kept \in [Place -> Seq(Client)] :
          /\ c = fd_map[th[t].fd] /\ mem[c].is_active /\ mem'[c].user_id = th[t].key
          /\ \A d \in Client : d # c => mem'[d] = mem[d]
          /\ kept = IF mem[c].user_id = None THEN user_map
                    ELSE [user_map EXCEPT ![CutSlot[mem[c].user_id]] = Without(@, c)]
          /\ user_map' = [kept EXCEPT ![Slot[th[t].key]] = <<c>> \o @]
    <3>1. UNCHANGED <<mem, user_map>> \/ \E c \in Client, kept \in [Place -> Seq(Client)] :
          /\ c = fd_map[th[t].fd] /\ mem[c].is_active /\ mem'[c].user_id = th[t].key
          /\ \A d \in Client : d # c => mem'[d] = mem[d]
          /\ kept = IF mem[c].user_id = None THEN user_map
                    ELSE [user_map EXCEPT ![CutSlot[mem[c].user_id]] = Without(@, c)]
          /\ user_map' = [kept EXCEPT ![Slot[th[t].key]] = <<c>> \o @]
      BY <1>0, SetUserIdEffect, Zenon
    <3> QED
      BY <1>2, <3>1
  <2>1. PICK c \in Client, kept \in [Place -> Seq(Client)] :
          /\ c = fd_map[th[t].fd] /\ mem'[c].user_id = th[t].key
          /\ \A d \in Client : d # c => mem'[d] = mem[d]
          /\ kept = IF mem[c].user_id = None THEN user_map
                    ELSE [user_map EXCEPT ![CutSlot[mem[c].user_id]] = Without(@, c)]
          /\ user_map' = [kept EXCEPT ![Slot[th[t].key]] = <<c>> \o @]
    BY <2>0
  <2>2. c \in clients
    BY <1>0, <2>1, ThreadsTyped DEF Slots
  <2>3. user_map \in [Place -> Seq(Client)] /\ mem[c].user_id \in Name \cup {None}
    BY <1>0, <2>1 DEF Types, MemState
  <2>4. \A p \in Place : Distinct(kept[p]) /\ \A d \in Client : In(d, kept[p]) <=> In(d, user_map[p]) /\ d # c
    <3> SUFFICES ASSUME NEW p \in Place
                 PROVE  Distinct(kept[p]) /\ \A d \in Client : In(d, kept[p]) <=> In(d, user_map[p]) /\ d # c
      OBVIOUS
    <3>1. Distinct(user_map[p]) /\ (In(c, user_map[p]) => mem[c].user_id # None /\ p = Slot[mem[c].user_id])
      BY DEF Names
    <3>2. CASE mem[c].user_id = None
      BY <2>1, <3>1, <3>2
    <3>3. CASE mem[c].user_id # None /\ p # Slot[mem[c].user_id]
      <4>1. kept[p] = user_map[p]
        BY <2>1, <2>3, <3>3
      <4> QED
        BY <3>1, <3>3, <4>1
    <3>4. CASE mem[c].user_id # None /\ p = Slot[mem[c].user_id]
      <4>1. kept[p] = Without(user_map[p], c)
        BY <2>1, <2>3, <3>4
      <4>2. user_map[p] \in Seq(Client)
        BY <2>3
      <4> QED
        BY <3>1, <4>1, <4>2, WithoutGone
    <3> QED
      BY <3>2, <3>3, <3>4
  <2> DEFINE q == Slot[th[t].key]
  <2>5. q \in Place
    BY <1>0, HashTyped
  <2>6. kept[q] \in Seq(Client) /\ Distinct(kept[q]) /\ ~In(c, kept[q])
    BY <2>4, <2>5
  <2>7. /\ Distinct(<<c>> \o kept[q])
        /\ \A d \in Client : In(d, <<c>> \o kept[q]) <=> In(d, kept[q]) \/ d = c
    BY <2>6, AddedFirst
  <2>8. user_map'[q] = <<c>> \o kept[q] /\ \A p \in Place : p # q => user_map'[p] = kept[p]
    BY <2>1, <2>5
  <2>9. \A p \in Place : Distinct(user_map'[p])
    BY <2>4, <2>7, <2>8
  <2>10. \A p \in Place : \A d \in Client : In(d, user_map'[p]) <=> (In(d, user_map[p]) /\ d # c) \/ (d = c /\ p = q)
    <3> SUFFICES ASSUME NEW p \in Place, NEW d \in Client
                 PROVE  In(d, user_map'[p]) <=> (In(d, user_map[p]) /\ d # c) \/ (d = c /\ p = q)
      OBVIOUS
    <3>1. CASE p = q
      BY <2>4, <2>5, <2>7, <2>8, <3>1
    <3>2. CASE p # q
      BY <2>4, <2>8, <3>2
    <3> QED
      BY <3>1, <3>2
  <2>11. mem'[c].user_id # None /\ q = Slot[mem'[c].user_id]
    BY <1>0, <2>1, RegistryAssumption
  <2>12. \A d \in Client : ~Unnaming(d)'
    BY <1>0 DEF Unnaming, Moved
  <2> HIDE DEF q
  <2>13. \A p \in Place : \A d \in Client : In(d, user_map'[p]) =>
           d \in clients' /\ mem'[d].user_id # None /\ p = Slot[mem'[d].user_id] /\ ~Unnaming(d)'
    <3> SUFFICES ASSUME NEW p \in Place, NEW d \in Client, In(d, user_map'[p])
                 PROVE  d \in clients /\ mem'[d].user_id # None /\ p = Slot[mem'[d].user_id]
      BY <1>0, <2>12
    <3>1. CASE d = c
      BY <2>2, <2>10, <2>11, <3>1
    <3>2. CASE d # c
      <4>1. In(d, user_map[p]) /\ mem'[d] = mem[d]
        BY <2>1, <2>10, <3>2
      <4> QED
        BY <4>1 DEF Names
    <3> QED
      BY <3>1, <3>2
  <2>14. \A d \in clients' : mem'[d].user_id # None => In(d, user_map'[Slot[mem'[d].user_id]])
    <3> SUFFICES ASSUME NEW d \in clients, mem'[d].user_id # None
                 PROVE  In(d, user_map'[Slot[mem'[d].user_id]])
      BY <1>0
    <3>1. d \in Client
      BY <1>0 DEF Types
    <3>2. CASE d = c
      BY <2>5, <2>10, <2>11, <3>1, <3>2
    <3>3. CASE d # c
      <4>1. mem'[d] = mem[d] /\ In(d, user_map[Slot[mem[d].user_id]])
        BY <1>0, <2>1, <3>1, <3>3 DEF Names
      <4>2. Slot[mem[d].user_id] \in Place
        BY <1>0, <3>1, <4>1, HashTyped DEF Types, MemState
      <4> QED
        BY <2>10, <3>1, <3>3, <4>1, <4>2
    <3> QED
      BY <3>2, <3>3
  <2> QED
    BY <2>9, <2>13, <2>14 DEF Names
<1> QED
  BY <1>1, <1>2

LEMMA ForgetUserNames ==
  ASSUME CutSlot = Slot, Books, Names, NEW t \in Thread, ForgetUser(t)
  PROVE  Names'
<1> DEFINE c == th[t].cl
           id == mem[c].user_id
<1>0. /\ Types /\ LocksInv /\ Moved(t) /\ UNCHANGED <<clients, mem>>
      /\ th[t].pc = "forget" /\ th'[t].pc = "unhash" /\ th'[t].cl = c /\ c \in Client
      /\ user_map' = IF id = None THEN user_map
                     ELSE [user_map EXCEPT ![CutSlot[id]] = Without(@, c)]
      /\ user_map \in [Place -> Seq(Client)] /\ id \in Name \cup {None}
  BY ForgetUserEffect DEF Books, Shape, ForgetUser, KeptAll, Types, MemState
<1> HIDE DEF c, id
<1>1. \A d \in Client : (Unnaming(d)' <=> d = c) /\ ~Unnaming(d)
  <2>1. \A u \in Thread : u # t => th[u].pc \notin Removal
    BY <1>0, OneRemoval DEF Removal
  <2> QED
    BY <1>0, <2>1 DEF Unnaming, Moved, Removal
<1>2. \A p \in Place : /\ Distinct(user_map'[p])
                       /\ \A d \in Client : In(d, user_map'[p]) <=> In(d, user_map[p]) /\ d # c
  <2> SUFFICES ASSUME NEW p \in Place
               PROVE  /\ Distinct(user_map'[p])
                      /\ \A d \in Client : In(d, user_map'[p]) <=> In(d, user_map[p]) /\ d # c
    OBVIOUS
  <2>1. Distinct(user_map[p]) /\ (In(c, user_map[p]) => id # None /\ p = Slot[id])
    BY <1>0 DEF Names, id
  <2>2. CASE id = None
    BY <1>0, <2>1, <2>2
  <2>3. CASE id # None /\ p # Slot[id]
    <3>1. user_map'[p] = user_map[p]
      BY <1>0, <2>3
    <3> QED
      BY <2>1, <2>3, <3>1
  <2>4. CASE id # None /\ p = Slot[id]
    <3>1. user_map'[p] = Without(user_map[p], c) /\ user_map[p] \in Seq(Client)
      BY <1>0, <2>4
    <3> QED
      BY <1>0, <2>1, <3>1, WithoutGone
  <2> QED
    BY <2>2, <2>3, <2>4
<1>3. \A p \in Place : \A d \in Client : In(d, user_map'[p]) =>
        d \in clients' /\ mem'[d].user_id # None /\ p = Slot[mem'[d].user_id] /\ ~Unnaming(d)'
  BY <1>0, <1>1, <1>2 DEF Names
<1>4. \A d \in clients' : mem'[d].user_id # None /\ ~Unnaming(d)' =>
        In(d, user_map'[Slot[mem'[d].user_id]])
  <2> SUFFICES ASSUME NEW d \in clients, mem[d].user_id # None, d # c
               PROVE  In(d, user_map'[Slot[mem[d].user_id]])
    BY <1>0, <1>1 DEF Types
  <2>1. d \in Client /\ Slot[mem[d].user_id] \in Place
    BY <1>0, HashTyped DEF Types, MemState
  <2> QED
    BY <1>1, <1>2, <2>1 DEF Names
<1> QED
  BY <1>2, <1>3, <1>4 DEF Names

LEMMA ReleaseNames ==
  ASSUME Books, Names, NEW t \in Thread, Release(t)
  PROVE  Names'
<1> DEFINE c == th[t].cl
<1>0. /\ Types /\ LocksInv /\ Moved(t) /\ UNCHANGED user_map
      /\ th[t].pc = "unsubscribe" /\ th'[t].pc \in {"reaping", "unflag"} /\ c \in Client
      /\ clients' = clients \ {c} /\ \A d \in Client : d # c => mem'[d] = mem[d]
  BY ReleaseEffect DEF Books, Shape, Release, AfterRemove
<1>1. Unnaming(c)
  BY <1>0 DEF Unnaming
<1>2. \A d \in Client : d # c => ~Unnaming(d)
  BY <1>0, OneRemoval DEF Unnaming, Removal
<1> HIDE DEF c
<1>3. \A d \in Client : ~Unnaming(d)'
  BY <1>0, <1>2, OneRemoval DEF Unnaming, Moved, Removal
<1>4. \A p \in Place : \A d \in Client : In(d, user_map[p]) => d # c
  BY <1>1 DEF Names
<1>5. \A p \in Place : \A d \in Client : In(d, user_map'[p]) =>
        d \in clients' /\ mem'[d].user_id # None /\ p = Slot[mem'[d].user_id] /\ ~Unnaming(d)'
  BY <1>0, <1>3, <1>4 DEF Names
<1>6. \A d \in clients' : mem'[d].user_id # None => In(d, user_map'[Slot[mem'[d].user_id]])
  <2> SUFFICES ASSUME NEW d \in clients, d # c, mem'[d].user_id # None
               PROVE  In(d, user_map[Slot[mem'[d].user_id]])
    BY <1>0
  <2> QED
    BY <1>0, <1>2 DEF Names, Types
<1> QED
  BY <1>0, <1>5, <1>6 DEF Names

LEMMA NamesStep ==
  ASSUME CutSlot = Slot, Books, Names, [Next]_vars
  PROVE  Names'
<1>0. Shape /\ Types /\ LocksInv
  BY DEF Books, Shape
<1>1. ASSUME NEW f \in Fd, Accept(f)
      PROVE  Names'
  BY <1>0, <1>1, StillNames DEF Accept, tables
<1>2. ASSUME NEW t \in Worker, NEW f \in Fd, Http(t, f)
      PROVE  Names'
  <2>1. Nameless(t) /\ t \in Thread
    BY <1>0, <1>2, HttpEffect, RestingFields, ThreadsTyped
       DEF Http, Nameless, tables, Rested, KeptAll, ClientOps, BridgeOps, AfterRemove
  <2> QED
    BY <1>0, <2>1, NamelessNames
<1>3. ASSUME NEW t \in Worker, NEW f \in Fd, Message(t, f)
      PROVE  Names'
  <2>1. Nameless(t) /\ t \in Thread
    BY <1>0, <1>3, MessageEffect, RestingFields, ThreadsTyped
       DEF Message, Nameless, tables, Rested, KeptAll, ClientOps, BridgeOps, AfterRemove
  <2> QED
    BY <1>0, <2>1, NamelessNames
<1>4. CASE Internal
  <2>1. Nameless(Bridge) /\ Bridge \in Thread
    BY <1>0, <1>4, InternalEffect, RestingFields, ThreadsTyped
       DEF Internal, Nameless, tables, Rested, KeptAll, ClientOps, BridgeOps,
           AfterRemove
  <2> QED
    BY <1>0, <2>1, NamelessNames
<1>5. ASSUME NEW t \in Thread, Add(t)
      PROVE  Names'
  BY <1>5, AddNames
<1>6. ASSUME NEW t \in Thread, SetFlag(t)
      PROVE  Names'
  <2>1. Moved(t) /\ Rested(t) /\ th[t].pc \notin {"unhash", "unsubscribe"} /\ UNCHANGED tables
    BY <1>0, <1>6, SetFlagEffect DEF SetFlag
  <2>2. Nameless(t)
    BY <2>1, RestingFields DEF Nameless, tables, Rested
  <2> QED
    BY <1>0, <2>2, NamelessNames
<1>7. ASSUME NEW t \in Thread, UpdateActivity(t)
      PROVE  Names'
  <2>1. Nameless(t) /\ t \in Thread
    BY <1>0, <1>7, UpdateActivityEffect, RestingFields, ThreadsTyped
       DEF UpdateActivity, Nameless, tables, Rested, KeptAll, ClientOps,
           BridgeOps, AfterRemove
  <2> QED
    BY <1>0, <2>1, NamelessNames
<1>8. ASSUME NEW t \in Thread, SetUserId(t)
      PROVE  Names'
  BY <1>8, SetUserIdNames
<1>9. ASSUME NEW t \in Thread, SubFind(t)
      PROVE  Names'
  <2>1. Nameless(t) /\ t \in Thread
    BY <1>0, <1>9, SubFindEffect, RestingFields, ThreadsTyped
       DEF SubFind, Nameless, tables, Rested, KeptAll, ClientOps, BridgeOps, AfterRemove
  <2> QED
    BY <1>0, <2>1, NamelessNames
<1>10. ASSUME NEW t \in Thread, SubBucket(t)
      PROVE  Names'
  <2>1. Nameless(t) /\ t \in Thread
    BY <1>0, <1>10, SubBucketEffect, RestingFields, ThreadsTyped
       DEF SubBucket, Nameless, tables, Rested, KeptAll, ClientOps, BridgeOps,
           AfterRemove
  <2> QED
    BY <1>0, <2>1, NamelessNames
<1>11. ASSUME NEW t \in Thread, SubInsert(t)
      PROVE  Names'
  <2>1. Nameless(t) /\ t \in Thread
    BY <1>0, <1>11, SubInsertEffect, RestingFields, ThreadsTyped
       DEF SubInsert, Nameless, tables, Rested, KeptAll, ClientOps, BridgeOps,
           AfterRemove
  <2> QED
    BY <1>0, <2>1, NamelessNames
<1>12. ASSUME NEW t \in Thread, SubRecord(t)
      PROVE  Names'
  <2>1. Nameless(t) /\ t \in Thread
    BY <1>0, <1>12, SubRecordEffect, RestingFields, ThreadsTyped, ZenonT(60)
       DEF SubRecord, Nameless, tables, Rested, KeptAll, ClientOps, BridgeOps,
           AfterRemove
  <2> QED
    BY <1>0, <2>1, NamelessNames
<1>13. ASSUME NEW t \in Thread, WalkClients(t)
      PROVE  Names'
  <2>1. Nameless(t) /\ t \in Thread
    BY <1>0, <1>13, WalkClientsEffect, RestingFields, ThreadsTyped
       DEF WalkClients, Nameless, tables, Rested, KeptAll, ClientOps,
           BridgeOps, AfterRemove
  <2> QED
    BY <1>0, <2>1, NamelessNames
<1>14. ASSUME NEW t \in Thread, PubBucket(t)
      PROVE  Names'
  <2>1. Nameless(t) /\ t \in Thread
    BY <1>0, <1>14, PubBucketEffect, RestingFields, ThreadsTyped
       DEF PubBucket, Nameless, tables, Rested, KeptAll, ClientOps, BridgeOps,
           AfterRemove
  <2> QED
    BY <1>0, <2>1, NamelessNames
<1>15. ASSUME NEW t \in Thread, WalkBucket(t)
      PROVE  Names'
  <2>1. Nameless(t) /\ t \in Thread
    BY <1>0, <1>15, WalkBucketEffect, RestingFields, ThreadsTyped
       DEF WalkBucket, Nameless, tables, Rested, KeptAll, ClientOps, BridgeOps,
           AfterRemove
  <2> QED
    BY <1>0, <2>1, NamelessNames
<1>16. ASSUME NEW t \in Thread, Sent(t)
      PROVE  Names'
  <2>1. Nameless(t) /\ t \in Thread
    BY <1>0, <1>16, SentEffect, RestingFields, ThreadsTyped
       DEF Sent, Nameless, tables, Rested, KeptAll, ClientOps, BridgeOps, AfterRemove
  <2> QED
    BY <1>0, <2>1, NamelessNames
<1>17. ASSUME NEW t \in Thread, Walked(t)
      PROVE  Names'
  <2>1. Nameless(t) /\ t \in Thread
    BY <1>0, <1>17, WalkedEffect, RestingFields, ThreadsTyped
       DEF Walked, Nameless, tables, Rested, KeptAll, ClientOps, BridgeOps, AfterRemove
  <2> QED
    BY <1>0, <2>1, NamelessNames
<1>18. ASSUME NEW t \in Thread, NEW c \in Client, Visit(t, c)
      PROVE  Names'
  <2>1. Nameless(t) /\ t \in Thread
    BY <1>0, <1>18, VisitEffect, RestingFields, ThreadsTyped
       DEF Visit, Nameless, tables, Rested, KeptAll, ClientOps, BridgeOps, AfterRemove
  <2> QED
    BY <1>0, <2>1, NamelessNames
<1>19. ASSUME NEW t \in Thread, FindUser(t)
      PROVE  Names'
  <2>1. Nameless(t) /\ t \in Thread
    BY <1>0, <1>19, FindUserEffect, RestingFields, ThreadsTyped
       DEF FindUser, Nameless, tables, Rested, KeptAll, ClientOps, BridgeOps,
           AfterRemove
  <2> QED
    BY <1>0, <2>1, NamelessNames
<1>20. ASSUME NEW t \in Thread, Validate(t)
      PROVE  Names'
  <2>1. Nameless(t) /\ t \in Thread
    BY <1>0, <1>20, ValidateEffect, RestingFields, ThreadsTyped
       DEF Validate, Nameless, tables, Rested, KeptAll, ClientOps, BridgeOps,
           AfterRemove
  <2> QED
    BY <1>0, <2>1, NamelessNames
<1>21. ASSUME NEW t \in Thread, Written(t)
      PROVE  Names'
  <2>1. Nameless(t) /\ t \in Thread
    BY <1>0, <1>21, WrittenEffect, RestingFields, ThreadsTyped
       DEF Written, Nameless, tables, Rested, KeptAll, ClientOps, BridgeOps, AfterRemove
  <2> QED
    BY <1>0, <2>1, NamelessNames
<1>22. ASSUME NEW t \in Thread, Cleanup(t)
      PROVE  Names'
  <2>1. Nameless(t) /\ t \in Thread
    BY <1>0, <1>22, CleanupEffect, RestingFields, ThreadsTyped
       DEF Cleanup, Nameless, tables, Rested, KeptAll, ClientOps, BridgeOps, AfterRemove
  <2> QED
    BY <1>0, <2>1, NamelessNames
<1>23. ASSUME NEW t \in Thread, RemoveFind(t)
      PROVE  Names'
  <2>1. Nameless(t) /\ t \in Thread
    BY <1>0, <1>23, RemoveFindEffect, RestingFields, ThreadsTyped
       DEF RemoveFind, Nameless, tables, Rested, KeptAll, ClientOps, BridgeOps,
           AfterRemove
  <2> QED
    BY <1>0, <2>1, NamelessNames
<1>24. ASSUME NEW t \in Thread, Deactivate(t)
      PROVE  Names'
  <2>1. Nameless(t) /\ t \in Thread
    BY <1>0, <1>24, DeactivateEffect, RestingFields, ThreadsTyped
       DEF Deactivate, Nameless, tables, Rested, KeptAll, ClientOps, BridgeOps,
           AfterRemove
  <2> QED
    BY <1>0, <2>1, NamelessNames
<1>25. ASSUME NEW t \in Thread, ForgetUser(t)
      PROVE  Names'
  BY <1>25, ForgetUserNames
<1>26. ASSUME NEW t \in Thread, LockHash(t)
      PROVE  Names'
  <2>1. Nameless(t) /\ t \in Thread
    BY <1>0, <1>26, LockHashEffect, RestingFields, ThreadsTyped
       DEF LockHash, Nameless, tables, Rested, KeptAll, ClientOps, BridgeOps,
           AfterRemove
  <2> QED
    BY <1>0, <2>1, NamelessNames
<1>27. ASSUME NEW t \in Thread, NEW k \in Topic, Unsubscribe(t, k)
      PROVE  Names'
  <2>1. Nameless(t) /\ t \in Thread
    BY <1>0, <1>27, UnsubscribeEffect, RestingFields, ThreadsTyped
       DEF Unsubscribe, Nameless, tables, Rested, KeptAll, ClientOps,
           BridgeOps, AfterRemove
  <2> QED
    BY <1>0, <2>1, NamelessNames
<1>28. ASSUME NEW t \in Thread, Release(t)
      PROVE  Names'
  BY <1>28, ReleaseNames
<1>29. ASSUME NEW t \in Thread, ClearFlag(t)
      PROVE  Names'
  <2>1. Nameless(t) /\ t \in Thread
    BY <1>0, <1>29, ClearFlagEffect, RestingFields, ThreadsTyped
       DEF ClearFlag, Nameless, tables, Rested, KeptAll, ClientOps, BridgeOps,
           AfterRemove
  <2> QED
    BY <1>0, <2>1, NamelessNames
<1>30. ASSUME NEW t \in Thread, Shut(t)
      PROVE  Names'
  <2>1. Moved(t) /\ Rested(t) /\ th[t].pc \notin {"unhash", "unsubscribe"} /\ UNCHANGED tables
    BY <1>0, <1>30, ShutEffect DEF Shut
  <2>2. Nameless(t)
    BY <2>1, RestingFields DEF Nameless, tables, Rested
  <2> QED
    BY <1>0, <2>2, NamelessNames
<1>31. CASE Wake
  <2>1. Nameless(Maint) /\ Maint \in Thread
    BY <1>0, <1>31, WakeEffect, RestingFields, ThreadsTyped
       DEF Wake, Nameless, tables, Rested, KeptAll, ClientOps, BridgeOps, AfterRemove
  <2> QED
    BY <1>0, <2>1, NamelessNames
<1>32. CASE Collect
  <2>1. Nameless(Maint) /\ Maint \in Thread
    BY <1>0, <1>32, CollectEffect, RestingFields, ThreadsTyped
       DEF Collect, Nameless, tables, Rested, KeptAll, ClientOps, BridgeOps, AfterRemove
  <2> QED
    BY <1>0, <2>1, NamelessNames
<1>33. ASSUME NEW f \in Fd, ReapClose(f)
      PROVE  Names'
  <2>1. Nameless(Maint) /\ Maint \in Thread
    BY <1>0, <1>33, ReapCloseEffect, RestingFields, ThreadsTyped
       DEF ReapClose, Nameless, tables, Rested, KeptAll, ClientOps, BridgeOps,
           AfterRemove
  <2> QED
    BY <1>0, <2>1, NamelessNames
<1>34. CASE Reaped
  <2>1. Nameless(Maint) /\ Maint \in Thread
    BY <1>0, <1>34, ReapedEffect, RestingFields, ThreadsTyped
       DEF Reaped, Nameless, tables, Rested, KeptAll, ClientOps, BridgeOps, AfterRemove
  <2> QED
    BY <1>0, <2>1, NamelessNames
<1>35. ASSUME NEW c \in Client, Silence(c)
      PROVE  Names'
  BY <1>0, <1>35, SilenceEffect, StillNames DEF Silence, net
<1>36. CASE UNCHANGED vars
  BY <1>0, <1>36, StillNames DEF vars, tables
<1> QED
  BY <1>1, <1>2, <1>3, <1>4, <1>5, <1>6, <1>7, <1>8, <1>9, <1>10, <1>11, <1>12,
     <1>13, <1>14, <1>15, <1>16, <1>17, <1>18, <1>19, <1>20, <1>21, <1>22, <1>23,
     <1>24, <1>25, <1>26, <1>27, <1>28, <1>29, <1>30, <1>31, <1>32, <1>33, <1>34,
     <1>35, <1>36 DEF Next, Registry, Send, Leave, Maintain

(* No client falls silent, so the reaper finds none.                       *)
Quiet == "silent" \notin Ops

NoReap ==
  /\ snatched = {} /\ th[Maint].dead = {} /\ th[Maint].pc \notin Removal \cup {"remove"}
  /\ \A c \in clients : mem[c].seen

LEMMA NoReapAside ==
  ASSUME NoReap, NEW t \in Thread, Moved(t), UNCHANGED snatched, clients' \subseteq clients,
         \A c \in clients' : mem[c].seen => mem'[c].seen,
         t = Maint => th'[t].dead = {} /\ th'[t].pc \notin Removal \cup {"remove"}
  PROVE  NoReap'
BY ThreadsTyped DEF NoReap, Moved

LEMMA NoReapStep ==
  ASSUME Quiet, Books, NoReap, [Next]_vars
  PROVE  NoReap'
<1>0. /\ Shape /\ Types /\ (\A u \in Thread : Placed(u)) /\ Placed(Maint)
      /\ th[Maint].dead = {} /\ th[Maint].pc \notin Removal \cup {"remove"} /\ snatched = {}
  BY ThreadsTyped DEF Books, Shape, NoReap
<1>1. ASSUME NEW f \in Fd, Accept(f)
      PROVE  NoReap'
  BY <1>1 DEF Accept, tables, NoReap
<1>2. ASSUME NEW t \in Worker, NEW f \in Fd, Http(t, f)
      PROVE  NoReap'
  <2>1. /\ Moved(t) /\ t \in Thread /\ UNCHANGED snatched /\ clients' \subseteq clients
        /\ \A c \in clients' : mem[c].seen => mem'[c].seen
    BY <1>0, <1>2, HttpEffect, ThreadsTyped DEF Http, tables, net, Types
  <2>2. t = Maint => th'[t].dead = {} /\ th'[t].pc \notin Removal \cup {"remove"}
    BY <1>0, <1>2, HttpEffect, RestingFields, ThreadsTyped
       DEF Rested, Kept, KeptAll, Removal, Subscribing, Walking, Placed
  <2> QED
    BY <2>1, <2>2, NoReapAside
<1>3. ASSUME NEW t \in Worker, NEW f \in Fd, Message(t, f)
      PROVE  NoReap'
  <2>1. /\ Moved(t) /\ t \in Thread /\ UNCHANGED snatched /\ clients' \subseteq clients
        /\ \A c \in clients' : mem[c].seen => mem'[c].seen
    BY <1>0, <1>3, MessageEffect, ThreadsTyped DEF Message, tables, net, Types
  <2>2. t = Maint => th'[t].dead = {} /\ th'[t].pc \notin Removal \cup {"remove"}
    BY <1>0, <1>3, MessageEffect, RestingFields, ThreadsTyped
       DEF Rested, Kept, KeptAll, Removal, Subscribing, Walking, Placed
  <2> QED
    BY <2>1, <2>2, NoReapAside
<1>4. CASE Internal
  <2>1. /\ Moved(Bridge) /\ Bridge \in Thread /\ UNCHANGED snatched /\ clients' \subseteq clients
        /\ \A c \in clients' : mem[c].seen => mem'[c].seen
    BY <1>0, <1>4, InternalEffect, ThreadsTyped DEF Internal, tables, net, Types
  <2>2. Bridge = Maint => th'[Bridge].dead = {} /\ th'[Bridge].pc \notin Removal \cup {"remove"}
    BY <1>0, <1>4, InternalEffect, RestingFields, ThreadsTyped
       DEF Rested, Kept, KeptAll, Removal, Subscribing, Walking, Placed
  <2> QED
    BY <2>1, <2>2, NoReapAside
<1>5. ASSUME NEW t \in Thread, Add(t)
      PROVE  NoReap'
  <2>1. Moved(t) /\ UNCHANGED snatched /\ t # Maint
    BY <1>0, <1>5, AddEffect, WorkerSteps, ThreadsTyped DEF Add, net
  <2>2. th'[Maint] = th[Maint]
    BY <2>1, ThreadsTyped DEF Moved
  <2>3. \A c \in clients' : mem'[c].seen
    <3>1. CASE UNCHANGED <<mem, clients, fd_map, current_count>>
      BY <3>1 DEF NoReap
    <3>2. CASE ~UNCHANGED <<mem, clients, fd_map, current_count>>
      <4>1. /\ clients' = clients \cup {th[t].cl} /\ mem'[th[t].cl].seen
            /\ \A d \in Client : d # th[t].cl => mem'[d] = mem[d]
        BY <1>0, <1>5, <3>2, AddEffect DEF Unborn
      <4> QED
        BY <1>0, <4>1 DEF NoReap, Types
    <3> QED
      BY <3>1, <3>2
  <2> QED
    BY <2>1, <2>2, <2>3 DEF NoReap
<1>6. ASSUME NEW t \in Thread, SetFlag(t)
      PROVE  NoReap'
  <2>1. /\ Moved(t) /\ t \in Thread /\ UNCHANGED snatched /\ clients' \subseteq clients
        /\ \A c \in clients' : mem[c].seen => mem'[c].seen
    BY <1>0, <1>6, SetFlagEffect, ThreadsTyped DEF SetFlag, tables, net, Types
  <2>2. t = Maint => th'[t].dead = {} /\ th'[t].pc \notin Removal \cup {"remove"}
    BY <1>0, <1>6, SetFlagEffect, RestingFields, ThreadsTyped
       DEF Rested, Kept, KeptAll, Removal, Subscribing, Walking, Placed
  <2> QED
    BY <2>1, <2>2, NoReapAside
<1>7. ASSUME NEW t \in Thread, UpdateActivity(t)
      PROVE  NoReap'
  <2>1. /\ Moved(t) /\ t \in Thread /\ UNCHANGED snatched /\ clients' \subseteq clients
        /\ \A c \in clients' : mem[c].seen => mem'[c].seen
    BY <1>0, <1>7, UpdateActivityEffect, ThreadsTyped DEF UpdateActivity, tables,
       net, Types
  <2>2. t = Maint => th'[t].dead = {} /\ th'[t].pc \notin Removal \cup {"remove"}
    BY <1>0, <1>7, UpdateActivityEffect, RestingFields, ThreadsTyped
       DEF Rested, Kept, KeptAll, Removal, Subscribing, Walking, Placed
  <2> QED
    BY <2>1, <2>2, NoReapAside
<1>8. ASSUME NEW t \in Thread, SetUserId(t)
      PROVE  NoReap'
  <2>1. /\ Moved(t) /\ t \in Thread /\ UNCHANGED snatched /\ clients' \subseteq clients
        /\ \A c \in clients' : mem[c].seen => mem'[c].seen
    BY <1>0, <1>8, SetUserIdEffect, ThreadsTyped DEF SetUserId, tables, net, Types
  <2>2. t = Maint => th'[t].dead = {} /\ th'[t].pc \notin Removal \cup {"remove"}
    BY <1>0, <1>8, SetUserIdEffect, RestingFields, ThreadsTyped
       DEF Rested, Kept, KeptAll, Removal, Subscribing, Walking, Placed
  <2> QED
    BY <2>1, <2>2, NoReapAside
<1>9. ASSUME NEW t \in Thread, SubFind(t)
      PROVE  NoReap'
  <2>1. /\ Moved(t) /\ t \in Thread /\ UNCHANGED snatched /\ clients' \subseteq clients
        /\ \A c \in clients' : mem[c].seen => mem'[c].seen
    BY <1>0, <1>9, SubFindEffect, ThreadsTyped DEF SubFind, tables, net, Types
  <2>2. t = Maint => th'[t].dead = {} /\ th'[t].pc \notin Removal \cup {"remove"}
    BY <1>0, <1>9, SubFindEffect, RestingFields, ThreadsTyped
       DEF Rested, Kept, KeptAll, Removal, Subscribing, Walking, Placed
  <2> QED
    BY <2>1, <2>2, NoReapAside
<1>10. ASSUME NEW t \in Thread, SubBucket(t)
      PROVE  NoReap'
  <2>1. /\ Moved(t) /\ t \in Thread /\ UNCHANGED snatched /\ clients' \subseteq clients
        /\ \A c \in clients' : mem[c].seen => mem'[c].seen
    BY <1>0, <1>10, SubBucketEffect, ThreadsTyped DEF SubBucket, tables, net, Types
  <2>2. t = Maint => th'[t].dead = {} /\ th'[t].pc \notin Removal \cup {"remove"}
    BY <1>0, <1>10, SubBucketEffect, RestingFields, ThreadsTyped
       DEF Rested, Kept, KeptAll, Removal, Subscribing, Walking, Placed
  <2> QED
    BY <2>1, <2>2, NoReapAside
<1>11. ASSUME NEW t \in Thread, SubInsert(t)
      PROVE  NoReap'
  <2>1. /\ Moved(t) /\ t \in Thread /\ UNCHANGED snatched /\ clients' \subseteq clients
        /\ \A c \in clients' : mem[c].seen => mem'[c].seen
    BY <1>0, <1>11, SubInsertEffect, ThreadsTyped DEF SubInsert, tables, net, Types
  <2>2. t = Maint => th'[t].dead = {} /\ th'[t].pc \notin Removal \cup {"remove"}
    BY <1>0, <1>11, SubInsertEffect, RestingFields, ThreadsTyped
       DEF Rested, Kept, KeptAll, Removal, Subscribing, Walking, Placed
  <2> QED
    BY <2>1, <2>2, NoReapAside
<1>12. ASSUME NEW t \in Thread, SubRecord(t)
      PROVE  NoReap'
  <2>1. /\ Moved(t) /\ t \in Thread /\ UNCHANGED snatched /\ clients' \subseteq clients
        /\ \A c \in clients' : mem[c].seen => mem'[c].seen
    BY <1>0, <1>12, SubRecordEffect, ThreadsTyped, ZenonT(60) DEF SubRecord, tables, net, Types
  <2>2. t = Maint => th'[t].dead = {} /\ th'[t].pc \notin Removal \cup {"remove"}
    BY <1>0, <1>12, SubRecordEffect, RestingFields, ThreadsTyped
       DEF Rested, Kept, KeptAll, Removal, Subscribing, Walking, Placed
  <2> QED
    BY <2>1, <2>2, NoReapAside
<1>13. ASSUME NEW t \in Thread, WalkClients(t)
      PROVE  NoReap'
  <2>1. /\ Moved(t) /\ t \in Thread /\ UNCHANGED snatched /\ clients' \subseteq clients
        /\ \A c \in clients' : mem[c].seen => mem'[c].seen
    BY <1>0, <1>13, WalkClientsEffect, ThreadsTyped DEF WalkClients, tables, net, Types
  <2>2. t = Maint => th'[t].dead = {} /\ th'[t].pc \notin Removal \cup {"remove"}
    BY <1>0, <1>13, WalkClientsEffect, RestingFields, ThreadsTyped
       DEF Rested, Kept, KeptAll, Removal, Subscribing, Walking, Placed
  <2> QED
    BY <2>1, <2>2, NoReapAside
<1>14. ASSUME NEW t \in Thread, PubBucket(t)
      PROVE  NoReap'
  <2>1. /\ Moved(t) /\ t \in Thread /\ UNCHANGED snatched /\ clients' \subseteq clients
        /\ \A c \in clients' : mem[c].seen => mem'[c].seen
    BY <1>0, <1>14, PubBucketEffect, ThreadsTyped DEF PubBucket, tables, net, Types
  <2>2. t = Maint => th'[t].dead = {} /\ th'[t].pc \notin Removal \cup {"remove"}
    BY <1>0, <1>14, PubBucketEffect, RestingFields, ThreadsTyped
       DEF Rested, Kept, KeptAll, Removal, Subscribing, Walking, Placed
  <2> QED
    BY <2>1, <2>2, NoReapAside
<1>15. ASSUME NEW t \in Thread, WalkBucket(t)
      PROVE  NoReap'
  <2>1. /\ Moved(t) /\ t \in Thread /\ UNCHANGED snatched /\ clients' \subseteq clients
        /\ \A c \in clients' : mem[c].seen => mem'[c].seen
    BY <1>0, <1>15, WalkBucketEffect, ThreadsTyped DEF WalkBucket, tables, net, Types
  <2>2. t = Maint => th'[t].dead = {} /\ th'[t].pc \notin Removal \cup {"remove"}
    BY <1>0, <1>15, WalkBucketEffect, RestingFields, ThreadsTyped
       DEF Rested, Kept, KeptAll, Removal, Subscribing, Walking, Placed
  <2> QED
    BY <2>1, <2>2, NoReapAside
<1>16. ASSUME NEW t \in Thread, Sent(t)
      PROVE  NoReap'
  <2>1. /\ Moved(t) /\ t \in Thread /\ UNCHANGED snatched /\ clients' \subseteq clients
        /\ \A c \in clients' : mem[c].seen => mem'[c].seen
    BY <1>0, <1>16, SentEffect, ThreadsTyped DEF Sent, tables, net, Types
  <2>2. t = Maint => th'[t].dead = {} /\ th'[t].pc \notin Removal \cup {"remove"}
    BY <1>0, <1>16, SentEffect, RestingFields, ThreadsTyped
       DEF Rested, Kept, KeptAll, Removal, Subscribing, Walking, Placed
  <2> QED
    BY <2>1, <2>2, NoReapAside
<1>17. ASSUME NEW t \in Thread, Walked(t)
      PROVE  NoReap'
  <2>1. /\ Moved(t) /\ t \in Thread /\ UNCHANGED snatched /\ clients' \subseteq clients
        /\ \A c \in clients' : mem[c].seen => mem'[c].seen
    BY <1>0, <1>17, WalkedEffect, ThreadsTyped DEF Walked, tables, net, Types
  <2>2. t = Maint => th'[t].dead = {} /\ th'[t].pc \notin Removal \cup {"remove"}
    BY <1>0, <1>17, WalkedEffect, RestingFields, ThreadsTyped
       DEF Rested, Kept, KeptAll, Removal, Subscribing, Walking, Placed
  <2> QED
    BY <2>1, <2>2, NoReapAside
<1>18. ASSUME NEW t \in Thread, NEW c \in Client, Visit(t, c)
      PROVE  NoReap'
  <2>1. /\ Moved(t) /\ t \in Thread /\ UNCHANGED snatched /\ clients' \subseteq clients
        /\ \A d \in clients' : mem[d].seen => mem'[d].seen
    BY <1>0, <1>18, VisitEffect, ThreadsTyped DEF Visit, tables, net, Types
  <2>2. t = Maint => th'[t].dead = {} /\ th'[t].pc \notin Removal \cup {"remove"}
    BY <1>0, <1>18, VisitEffect, RestingFields, ThreadsTyped
       DEF Rested, Kept, KeptAll, Removal, Subscribing, Walking, Placed
  <2> QED
    BY <2>1, <2>2, NoReapAside
<1>19. ASSUME NEW t \in Thread, FindUser(t)
      PROVE  NoReap'
  <2>1. /\ Moved(t) /\ t \in Thread /\ UNCHANGED snatched /\ clients' \subseteq clients
        /\ \A c \in clients' : mem[c].seen => mem'[c].seen
    BY <1>0, <1>19, FindUserEffect, ThreadsTyped DEF FindUser, tables, net, Types
  <2>2. t = Maint => th'[t].dead = {} /\ th'[t].pc \notin Removal \cup {"remove"}
    BY <1>0, <1>19, FindUserEffect, RestingFields, ThreadsTyped
       DEF Rested, Kept, KeptAll, Removal, Subscribing, Walking, Placed
  <2> QED
    BY <2>1, <2>2, NoReapAside
<1>20. ASSUME NEW t \in Thread, Validate(t)
      PROVE  NoReap'
  <2>1. /\ Moved(t) /\ t \in Thread /\ UNCHANGED snatched /\ clients' \subseteq clients
        /\ \A c \in clients' : mem[c].seen => mem'[c].seen
    BY <1>0, <1>20, ValidateEffect, ThreadsTyped DEF Validate, tables, net, Types
  <2>2. t = Maint => th'[t].dead = {} /\ th'[t].pc \notin Removal \cup {"remove"}
    BY <1>0, <1>20, ValidateEffect, RestingFields, ThreadsTyped
       DEF Rested, Kept, KeptAll, Removal, Subscribing, Walking, Placed
  <2> QED
    BY <2>1, <2>2, NoReapAside
<1>21. ASSUME NEW t \in Thread, Written(t)
      PROVE  NoReap'
  <2>1. /\ Moved(t) /\ t \in Thread /\ UNCHANGED snatched /\ clients' \subseteq clients
        /\ \A c \in clients' : mem[c].seen => mem'[c].seen
    BY <1>0, <1>21, WrittenEffect, ThreadsTyped DEF Written, tables, net, Types
  <2>2. t = Maint => th'[t].dead = {} /\ th'[t].pc \notin Removal \cup {"remove"}
    BY <1>0, <1>21, WrittenEffect, RestingFields, ThreadsTyped
       DEF Rested, Kept, KeptAll, Removal, Subscribing, Walking, Placed
  <2> QED
    BY <2>1, <2>2, NoReapAside
<1>22. ASSUME NEW t \in Thread, Cleanup(t)
      PROVE  NoReap'
  <2>1. /\ Moved(t) /\ t \in Thread /\ UNCHANGED snatched /\ clients' \subseteq clients
        /\ \A c \in clients' : mem[c].seen => mem'[c].seen
    BY <1>0, <1>22, CleanupEffect, ThreadsTyped DEF Cleanup, tables, net, Types
  <2>2. t = Maint => th'[t].dead = {} /\ th'[t].pc \notin Removal \cup {"remove"}
    BY <1>0, <1>22, CleanupEffect, RestingFields, ThreadsTyped
       DEF Rested, Kept, KeptAll, Removal, Subscribing, Walking, Placed
  <2> QED
    BY <2>1, <2>2, NoReapAside
<1>23. ASSUME NEW t \in Thread, RemoveFind(t)
      PROVE  NoReap'
  <2>1. /\ Moved(t) /\ t \in Thread /\ UNCHANGED snatched /\ clients' \subseteq clients
        /\ \A c \in clients' : mem[c].seen => mem'[c].seen
    BY <1>0, <1>23, RemoveFindEffect, ThreadsTyped DEF RemoveFind, tables, net, Types
  <2>2. t = Maint => th'[t].dead = {} /\ th'[t].pc \notin Removal \cup {"remove"}
    BY <1>0, <1>23, RemoveFindEffect, RestingFields, ThreadsTyped
       DEF Rested, Kept, KeptAll, Removal, Subscribing, Walking, Placed
  <2> QED
    BY <2>1, <2>2, NoReapAside
<1>24. ASSUME NEW t \in Thread, Deactivate(t)
      PROVE  NoReap'
  <2>1. /\ Moved(t) /\ t \in Thread /\ UNCHANGED snatched /\ clients' \subseteq clients
        /\ \A c \in clients' : mem[c].seen => mem'[c].seen
    BY <1>0, <1>24, DeactivateEffect, ThreadsTyped, ZenonT(60) DEF Deactivate, tables, net, Types
  <2>2. t = Maint => th'[t].dead = {} /\ th'[t].pc \notin Removal \cup {"remove"}
    BY <1>0, <1>24, DeactivateEffect, RestingFields, ThreadsTyped
       DEF Rested, Kept, KeptAll, Removal, Subscribing, Walking, Placed
  <2> QED
    BY <2>1, <2>2, NoReapAside
<1>25. ASSUME NEW t \in Thread, ForgetUser(t)
      PROVE  NoReap'
  <2>1. /\ Moved(t) /\ t \in Thread /\ UNCHANGED snatched /\ clients' \subseteq clients
        /\ \A c \in clients' : mem[c].seen => mem'[c].seen
    BY <1>0, <1>25, ForgetUserEffect, ThreadsTyped DEF ForgetUser, tables, net, Types
  <2>2. t = Maint => th'[t].dead = {} /\ th'[t].pc \notin Removal \cup {"remove"}
    BY <1>0, <1>25, ForgetUserEffect, RestingFields, ThreadsTyped
       DEF Rested, Kept, KeptAll, Removal, Subscribing, Walking, Placed
  <2> QED
    BY <2>1, <2>2, NoReapAside
<1>26. ASSUME NEW t \in Thread, LockHash(t)
      PROVE  NoReap'
  <2>1. /\ Moved(t) /\ t \in Thread /\ UNCHANGED snatched /\ clients' \subseteq clients
        /\ \A c \in clients' : mem[c].seen => mem'[c].seen
    BY <1>0, <1>26, LockHashEffect, ThreadsTyped DEF LockHash, tables, net, Types
  <2>2. t = Maint => th'[t].dead = {} /\ th'[t].pc \notin Removal \cup {"remove"}
    BY <1>0, <1>26, LockHashEffect, RestingFields, ThreadsTyped
       DEF Rested, Kept, KeptAll, Removal, Subscribing, Walking, Placed
  <2> QED
    BY <2>1, <2>2, NoReapAside
<1>27. ASSUME NEW t \in Thread, NEW k \in Topic, Unsubscribe(t, k)
      PROVE  NoReap'
  <2>1. /\ Moved(t) /\ t \in Thread /\ UNCHANGED snatched /\ clients' \subseteq clients
        /\ \A c \in clients' : mem[c].seen => mem'[c].seen
    BY <1>0, <1>27, UnsubscribeEffect, ThreadsTyped DEF Unsubscribe, tables, net, Types
  <2>2. t = Maint => th'[t].dead = {} /\ th'[t].pc \notin Removal \cup {"remove"}
    BY <1>0, <1>27, UnsubscribeEffect, RestingFields, ThreadsTyped
       DEF Rested, Kept, KeptAll, Removal, Subscribing, Walking, Placed
  <2> QED
    BY <2>1, <2>2, NoReapAside
<1>28. ASSUME NEW t \in Thread, Release(t)
      PROVE  NoReap'
  <2>1. /\ Moved(t) /\ t \in Thread /\ UNCHANGED snatched /\ clients' \subseteq clients
        /\ \A c \in clients' : mem[c].seen => mem'[c].seen
    BY <1>0, <1>28, ReleaseEffect, ThreadsTyped DEF Release, tables, net, Types
  <2>2. t = Maint => th'[t].dead = {} /\ th'[t].pc \notin Removal \cup {"remove"}
    BY <1>0, <1>28, ReleaseEffect, RestingFields, ThreadsTyped
       DEF Rested, Kept, KeptAll, Removal, Subscribing, Walking, Placed
  <2> QED
    BY <2>1, <2>2, NoReapAside
<1>29. ASSUME NEW t \in Thread, ClearFlag(t)
      PROVE  NoReap'
  <2>1. /\ Moved(t) /\ t \in Thread /\ UNCHANGED snatched /\ clients' \subseteq clients
        /\ \A c \in clients' : mem[c].seen => mem'[c].seen
    BY <1>0, <1>29, ClearFlagEffect, ThreadsTyped DEF ClearFlag, tables, net, Types
  <2>2. t = Maint => th'[t].dead = {} /\ th'[t].pc \notin Removal \cup {"remove"}
    BY <1>0, <1>29, ClearFlagEffect, RestingFields, ThreadsTyped
       DEF Rested, Kept, KeptAll, Removal, Subscribing, Walking, Placed
  <2> QED
    BY <2>1, <2>2, NoReapAside
<1>30. ASSUME NEW t \in Thread, Shut(t)
      PROVE  NoReap'
  <2>1. /\ Moved(t) /\ t \in Thread /\ UNCHANGED snatched /\ clients' \subseteq clients
        /\ \A c \in clients' : mem[c].seen => mem'[c].seen
    BY <1>0, <1>30, ShutEffect, ThreadsTyped DEF Shut, tables, net, Types
  <2>2. t = Maint => th'[t].dead = {} /\ th'[t].pc \notin Removal \cup {"remove"}
    BY <1>0, <1>30, ShutEffect, RestingFields, ThreadsTyped
       DEF Rested, Kept, KeptAll, Removal, Subscribing, Walking, Placed
  <2> QED
    BY <2>1, <2>2, NoReapAside
<1>31. CASE Wake
  <2>1. /\ Moved(Maint) /\ Maint \in Thread /\ UNCHANGED snatched /\ clients' \subseteq clients
        /\ \A c \in clients' : mem[c].seen => mem'[c].seen
    BY <1>0, <1>31, WakeEffect, ThreadsTyped DEF Wake, tables, net, Types
  <2>2. Maint = Maint => th'[Maint].dead = {} /\ th'[Maint].pc \notin Removal \cup {"remove"}
    BY <1>0, <1>31, WakeEffect, RestingFields, ThreadsTyped
       DEF Rested, Kept, KeptAll, Removal, Subscribing, Walking, Placed
  <2> QED
    BY <2>1, <2>2, NoReapAside
<1>32. CASE Collect
  <2>1. Moved(Maint) /\ th'[Maint].pc = "reaping" /\ UNCHANGED <<mem, clients, snatched>>
        /\ th'[Maint].dead \subseteq {mem[c].fd : c \in {x \in clients : ~mem[x].seen}}
    BY <1>0, <1>32, CollectEffect DEF Collect, tables, net
  <2>2. th'[Maint].dead = {}
    BY <2>1 DEF NoReap
  <2> QED
    BY <2>1, <2>2, ThreadsTyped DEF NoReap, Removal
<1>33. ASSUME NEW f \in Fd, ReapClose(f)
      PROVE  NoReap'
  BY <1>0, <1>33, ReapCloseEffect
<1>34. CASE Reaped
  <2>1. /\ Moved(Maint) /\ Maint \in Thread /\ UNCHANGED snatched /\ clients' \subseteq clients
        /\ \A c \in clients' : mem[c].seen => mem'[c].seen
    BY <1>0, <1>34, ReapedEffect, ThreadsTyped DEF Reaped, tables, net, Types
  <2>2. Maint = Maint => th'[Maint].dead = {} /\ th'[Maint].pc \notin Removal \cup {"remove"}
    BY <1>0, <1>34, ReapedEffect, RestingFields, ThreadsTyped
       DEF Rested, Kept, KeptAll, Removal, Subscribing, Walking, Placed
  <2> QED
    BY <2>1, <2>2, NoReapAside
<1>35. ASSUME NEW c \in Client, Silence(c)
      PROVE  NoReap'
  BY <1>35 DEF Silence, Quiet
<1>36. CASE UNCHANGED vars
  BY <1>36 DEF vars, tables, net, NoReap
<1> QED
  BY <1>1, <1>2, <1>3, <1>4, <1>5, <1>6, <1>7, <1>8, <1>9, <1>10, <1>11, <1>12,
     <1>13, <1>14, <1>15, <1>16, <1>17, <1>18, <1>19, <1>20, <1>21, <1>22, <1>23,
     <1>24, <1>25, <1>26, <1>27, <1>28, <1>29, <1>30, <1>31, <1>32, <1>33, <1>34,
     <1>35, <1>36 DEF Next, Registry, Send, Leave, Maintain

(* A client has room for every topic.                                      *)
Room == IsFiniteSet(Topic) /\ Cardinality(Topic) <= MaxTopics

(* A subscriber is on record with its client, or about to be put there; a  *)
(* topic that a removal has yet to visit is on its list.                   *)
Justified(c, b) ==
  \/ \E k \in mem[c].topics : Hash[k] = b /\ \A t \in Thread :
       th[t].pc = "unsubscribe" /\ th[t].cl = c => k \in th[t].todo
  \/ \E t \in Thread : th[t].pc = "record" /\ th[t].cl = c /\ Hash[th[t].key] = b

Listed(t) == IF th[t].op = "pub" THEN buckets[Hash[th[t].key]] ELSE clients

SubsOf(t) ==
  /\ th[t].pc \in Subscribing => fd_map[th[t].fd] = th[t].cl
  /\ th[t].pc = "record" => th[t].cl \in buckets[Hash[th[t].key]]
  /\ th[t].pc \in Walking => th[t].todo \subseteq Listed(t)
  /\ th[t].pc = "send" => mem[th[t].cl].is_active

SubsIn == \A b \in Bucket : \A c \in buckets[b] : c \in clients /\ Justified(c, b)

SubsRecorded ==
  \A c \in clients : \A k \in mem[c].topics :
    c \in buckets[Hash[k]] \/ \E t \in Thread : th[t].pc = "unsubscribe" /\ th[t].cl = c

Subs == (\A t \in Thread : SubsOf(t)) /\ SubsIn /\ SubsRecorded

(* Two threads have a client at hand to subscribe or to remove only if     *)
(* they are one: they serve its descriptor.                                *)
LEMMA OneHolder ==
  ASSUME Books, NoReap, Subs, NEW t \in Thread, NEW u \in Thread,
         th[t].pc \in Subscribing \cup Removal, th[u].pc \in Subscribing \cup Removal,
         th[t].cl = th[u].cl
  PROVE  t = u
<1>1. \A v \in {t, u} : /\ fd_map[th[v].fd] = th[v].cl /\ th[v].fd \in Fd /\ th[v].cl \in Client
                        /\ v \in Worker
  <2> SUFFICES ASSUME NEW v \in {t, u}
               PROVE  /\ fd_map[th[v].fd] = th[v].cl /\ th[v].fd \in Fd /\ th[v].cl \in Client
                      /\ v \in Worker
    OBVIOUS
  <2>1. v \in Thread /\ th[v].pc \in Subscribing \cup Removal /\ Placed(v)
    BY DEF Books, Shape
  <2>2. fd_map[th[v].fd] = th[v].cl
    BY <2>1 DEF Books, Tidy, Slots, Subs, SubsOf
  <2>3. v # Maint
    BY <2>1 DEF NoReap, Placed, Subscribing, Walking, Removal
  <2>4. v # Bridge
    BY <2>1 DEF Placed, Walking, Removal, Subscribing
  <2> QED
    BY <2>1, <2>2, <2>3, <2>4 DEF Placed, OnFd, OnClient, Thread
<1>2. mem[th[t].cl].fd = th[t].fd /\ mem[th[u].cl].fd = th[u].fd
  BY <1>1, ThreadsTyped DEF Books, Tidy, Slots
<1>3. th[t].fd = th[u].fd /\ OneServer
  BY <1>2 DEF Books, Tidy
<1> QED
  BY <1>1, <1>3 DEF OneServer

(* Most steps leave the subscriptions alone.                               *)
Away(t) ==
  /\ Moved(t) /\ UNCHANGED <<clients, fd_map, buckets>>
  /\ \A c \in Client : /\ mem'[c].topics = mem[c].topics
                       /\ mem[c].is_active /\ client_lock[c] # None => mem'[c].is_active
  /\ {th[t].pc, th'[t].pc} \cap {"record", "unsubscribe"} = {}
  /\ th'[t].pc \in Subscribing => fd_map[th'[t].fd] = th'[t].cl
  /\ th'[t].pc \in Walking =>
       \/ th'[t].todo \subseteq Listed(t)'
       \/ /\ th[t].pc \in Walking /\ th'[t].todo \subseteq th[t].todo
          /\ th'[t].op = th[t].op /\ th'[t].key = th[t].key
  /\ th'[t].pc = "send" => mem'[th'[t].cl].is_active

LEMMA AwaySubs ==
  ASSUME Books, Subs, NEW t \in Thread, Away(t)
  PROVE  Subs'
<1>0. Types /\ LocksInv /\ \A u \in Thread : Placed(u)
  BY DEF Books, Shape
<1>1. \A u \in Thread : u # t => th'[u] = th[u]
  BY DEF Away, Moved
<1>2. \A u \in Thread : \A p \in {"record", "unsubscribe"} :
        (th'[u].pc = p <=> th[u].pc = p) /\ (th[u].pc = p => th'[u] = th[u])
  BY <1>1 DEF Away
<1>3. \A u \in Thread : SubsOf(u)'
  <2> SUFFICES ASSUME NEW u \in Thread PROVE SubsOf(u)'
    OBVIOUS
  <2>1. SubsOf(u)
    BY DEF Subs
  <2>2. CASE u # t
    <3>1. th'[u] = th[u] /\ Listed(u)' = Listed(u)
      BY <1>1, <2>2 DEF Away, Listed
    <3>2. th[u].pc = "send" => mem'[th[u].cl].is_active
      <4> SUFFICES ASSUME th[u].pc = "send" PROVE mem'[th[u].cl].is_active
        OBVIOUS
      <4>1. th[u].cl \in Client /\ client_lock[th[u].cl] = u
        BY <1>0 DEF Placed, OnClient, LocksInv, HeldRight, InClient
      <4> QED
        BY <2>1, <4>1, ThreadsTyped DEF SubsOf, Away
    <3> QED
      BY <2>1, <3>1, <3>2 DEF SubsOf, Away
  <2>3. CASE u = t
    <3>1. th'[t].pc # "record"
      BY DEF Away
    <3>2. th'[t].pc \in Walking => th'[t].todo \subseteq Listed(t)'
      <4>1. CASE /\ th[t].pc \in Walking /\ th'[t].todo \subseteq th[t].todo
                 /\ th'[t].op = th[t].op /\ th'[t].key = th[t].key
        BY <2>1, <2>3, <4>1 DEF Away, Listed, SubsOf
      <4> QED
        BY <4>1 DEF Away
    <3> QED
      BY <2>3, <3>1, <3>2 DEF Away, SubsOf
  <2> QED
    BY <2>2, <2>3
<1>4. \A c \in Client : \A b \in Bucket : Justified(c, b) => Justified(c, b)'
  BY <1>2 DEF Away, Justified
<1>5. SubsIn'
  BY <1>0, <1>4 DEF Away, Subs, SubsIn, Types
<1>6. SubsRecorded'
  <2> SUFFICES ASSUME NEW c \in clients', NEW k \in mem'[c].topics
               PROVE  c \in buckets'[Hash[k]] \/ \E u \in Thread : th'[u].pc = "unsubscribe" /\ th'[u].cl = c
    BY DEF SubsRecorded
  <2>1. c \in clients /\ k \in mem[c].topics /\ buckets' = buckets
    BY <1>0 DEF Away, Types
  <2>2. c \in buckets[Hash[k]] \/ \E u \in Thread : th[u].pc = "unsubscribe" /\ th[u].cl = c
    BY <2>1 DEF Subs, SubsRecorded
  <2> QED
    BY <1>2, <2>1, <2>2
<1> QED
  BY <1>3, <1>5, <1>6 DEF Subs

LEMMA StillSubs ==
  ASSUME Books, Subs, UNCHANGED <<clients, fd_map, buckets, th>>,
         \A c \in Client : mem'[c].topics = mem[c].topics /\ mem'[c].is_active = mem[c].is_active
  PROVE  Subs'
<1>0. Types /\ \A u \in Thread : Placed(u)
  BY DEF Books, Shape
<1>1. \A u \in Thread : SubsOf(u)'
  BY <1>0 DEF Subs, SubsOf, Listed, Placed, OnClient
<1>2. SubsIn'
  BY <1>0 DEF Subs, SubsIn, Justified, Types
<1>3. SubsRecorded'
  BY <1>0 DEF Subs, SubsRecorded, Types
<1> QED
  BY <1>1, <1>2, <1>3 DEF Subs

(* No bucket has a client that has been unsubscribed.                      *)
LEMMA Unsubscribed ==
  ASSUME Books, NoReap, Subs, NEW t \in Thread, th[t].pc = "unsubscribe", th[t].todo = {}
  PROVE  \A b \in Bucket : th[t].cl \notin buckets[b]
<1> SUFFICES ASSUME NEW b \in Bucket, th[t].cl \in buckets[b] PROVE FALSE
  OBVIOUS
<1>1. Justified(th[t].cl, b)
  BY DEF Subs, SubsIn
<1>2. CASE \E u \in Thread : th[u].pc = "record" /\ th[u].cl = th[t].cl /\ Hash[th[u].key] = b
  BY <1>2, OneHolder DEF Subscribing, Removal
<1>3. CASE \E k \in mem[th[t].cl].topics : Hash[k] = b /\ \A u \in Thread :
             th[u].pc = "unsubscribe" /\ th[u].cl = th[t].cl => k \in th[u].todo
  BY <1>3
<1> QED
  BY <1>1, <1>2, <1>3 DEF Justified

LEMMA AddSubs ==
  ASSUME Books, NoReap, Subs, NEW t \in Thread, Add(t)
  PROVE  Subs'
<1> DEFINE c == th[t].cl
<1>0. /\ Shape /\ Types /\ LocksInv /\ OneServer /\ (\A u \in Thread : Placed(u)) /\ t \in Worker
      /\ Moved(t) /\ KeptAll(t) /\ UNCHANGED buckets
      /\ th[t].pc = "add" /\ th[t].op = "add" /\ c \in Client /\ th[t].fd \in Fd
      /\ th'[t].pc \in {"flag", "broadcast"} /\ c \notin clients
  <2>1. Shape /\ Types /\ Slots /\ LocksInv /\ OneServer /\ Unmade /\ (\A u \in Thread : Placed(u))
    BY DEF Books, Shape, Tidy
  <2>2. th[t].pc = "add" /\ c \in Client
    BY <2>1, AddEffect
  <2>3. c \notin clients
    BY <2>1, <2>2 DEF Unmade, Slots
  <2> QED
    BY <2>1, <2>2, <2>3, AddEffect, WorkerSteps DEF Add, Placed
<1>1. CASE UNCHANGED <<mem, clients, fd_map, current_count>>
  <2>1. Away(t)
    BY <1>0, <1>1 DEF Away, Subscribing, Walking
  <2> QED
    BY <2>1, AwaySubs
<1>2. CASE ~UNCHANGED <<mem, clients, fd_map, current_count>>
  <2>1. /\ clients' = clients \cup {c} /\ \A d \in Client : d # c => mem'[d] = mem[d]
        /\ mem'[c].topics = {}
        /\ \A f \in Fd : f # th[t].fd => fd_map'[f] = fd_map[f]
    BY <1>0, <1>2, AddEffect DEF Unborn
  <2>2. \A u \in Thread : u # t => th'[u] = th[u]
    BY <1>0 DEF Moved
  <2>3. \A u \in Thread : \A p \in {"record", "unsubscribe"} :
          (th'[u].pc = p <=> th[u].pc = p) /\ (th[u].pc = p => th'[u] = th[u])
    BY <1>0, <2>2
  <2>4. \A b \in Bucket : c \notin buckets[b]
    BY <1>0 DEF Subs, SubsIn
  <2> HIDE DEF c
  <2>5. \A u \in Thread : SubsOf(u)'
    <3> SUFFICES ASSUME NEW u \in Thread PROVE SubsOf(u)'
      OBVIOUS
    <3>1. SubsOf(u) /\ Placed(u)
      BY <1>0 DEF Subs
    <3>2. CASE u = t
      BY <1>0, <3>2 DEF SubsOf, Subscribing, Walking
    <3>3. CASE u # t
      <4>1. th'[u] = th[u] /\ Listed(u) \subseteq Listed(u)'
        BY <1>0, <2>1, <2>2, <3>3 DEF Listed
      <4>2. th[u].pc \in Subscribing => fd_map'[th[u].fd] = th[u].cl
        <5> SUFFICES ASSUME th[u].pc \in Subscribing PROVE fd_map'[th[u].fd] = th[u].cl
          OBVIOUS
        <5>1. u \in Worker /\ th[u].fd \in Fd
          BY <1>0, <3>1, WorkerSteps DEF Placed, OnFd
        <5>2. th[u].fd # th[t].fd
          BY <1>0, <3>3, <5>1, OtherFd
        <5> QED
          BY <2>1, <3>1, <5>1, <5>2 DEF SubsOf
      <4>3. th[u].pc = "send" => mem'[th[u].cl].is_active
        <5> SUFFICES ASSUME th[u].pc = "send" PROVE mem'[th[u].cl].is_active
          OBVIOUS
        <5>1. th[u].cl \in Client /\ th[u].cl \in Listed(u)
          BY <3>1 DEF SubsOf, Placed, OnClient, Walking
        <5>2. th[u].cl # c
          <6>1. CASE th[u].op = "pub"
            <7>1. Hash[th[u].key] \in Bucket
              BY <3>1, <6>1, HashTyped DEF Placed
            <7> QED
              BY <2>4, <5>1, <6>1, <7>1 DEF Listed
          <6>2. CASE th[u].op # "pub"
            BY <1>0, <5>1, <6>2 DEF Listed
          <6> QED
            BY <6>1, <6>2
        <5> QED
          BY <2>1, <3>1, <5>1, <5>2 DEF SubsOf
      <4> QED
        BY <1>0, <3>1, <4>1, <4>2, <4>3 DEF SubsOf
    <3> QED
      BY <3>2, <3>3
  <2>6. SubsIn'
    <3> SUFFICES ASSUME NEW b \in Bucket, NEW d \in buckets[b]
                 PROVE  d \in clients' /\ Justified(d, b)'
      BY <1>0 DEF SubsIn
    <3>1. d \in clients /\ d \in Client /\ d # c /\ Justified(d, b)
      BY <1>0, <2>4 DEF Subs, SubsIn, Types
    <3>2. mem'[d] = mem[d]
      BY <2>1, <3>1
    <3> QED
      BY <2>1, <2>3, <3>1, <3>2 DEF Justified
  <2>7. SubsRecorded'
    <3> SUFFICES ASSUME NEW d \in clients', NEW k \in mem'[d].topics
                 PROVE  d \in buckets[Hash[k]] \/ \E u \in Thread : th'[u].pc = "unsubscribe" /\ th'[u].cl = d
      BY <1>0 DEF SubsRecorded
    <3>1. d # c /\ d \in clients /\ mem'[d] = mem[d]
      BY <1>0, <2>1 DEF Types
    <3> QED
      BY <2>3, <3>1 DEF Subs, SubsRecorded
  <2> QED
    BY <2>5, <2>6, <2>7 DEF Subs
<1> QED
  BY <1>1, <1>2

LEMMA SubInsertSubs ==
  ASSUME Books, NoReap, Subs, NEW t \in Thread, SubInsert(t)
  PROVE  Subs'
<1> DEFINE c == th[t].cl
           b == Hash[th[t].key]
<1>0. /\ Shape /\ Types /\ LocksInv /\ (\A u \in Thread : Placed(u))
      /\ Moved(t) /\ UNCHANGED <<mem, clients, fd_map>>
      /\ th[t].pc = "insert" /\ c \in Client /\ b \in Bucket
  BY SubInsertEffect DEF Books, Shape, SubInsert
<1>1. CASE Rested(t) /\ UNCHANGED buckets
  <2>1. Away(t)
    BY <1>0, <1>1, RestingFields DEF Away, Rested, Subscribing, Walking
  <2> QED
    BY <2>1, AwaySubs
<1>2. CASE ~(Rested(t) /\ UNCHANGED buckets)
  <2>1. /\ KeptAll(t) /\ th'[t].pc = "record"
        /\ buckets'[b] = buckets[b] \cup {c}
        /\ \A d \in Bucket : d # b => buckets'[d] = buckets[d]
    BY <1>0, <1>2, SubInsertEffect
  <2>2. /\ th'[t].cl = c /\ th'[t].key = th[t].key /\ th'[t].fd = th[t].fd
        /\ \A u \in Thread : u # t => th'[u] = th[u]
    BY <1>0, <2>1 DEF KeptAll, Kept, Moved
  <2>3. \A d \in Bucket : buckets[d] \subseteq buckets'[d]
    BY <2>1
  <2>4. fd_map[th[t].fd] = c /\ c \in clients
    <3>1. fd_map[th[t].fd] = c /\ th[t].fd \in Fd
      BY <1>0 DEF Subs, SubsOf, Subscribing, Placed, OnFd
    <3> QED
      BY <1>0, <3>1, ThreadsTyped DEF Books, Tidy, Slots
  <2>5. \A u \in Thread : SubsOf(u)'
    <3> SUFFICES ASSUME NEW u \in Thread PROVE SubsOf(u)'
      OBVIOUS
    <3>1. SubsOf(u) /\ Placed(u)
      BY <1>0 DEF Subs
    <3>2. CASE u = t
      BY <1>0, <2>1, <2>2, <2>4, <3>2 DEF SubsOf, Walking
    <3>3. CASE u # t
      <4>1. th'[u] = th[u]
        BY <2>2, <3>3
      <4>2. th[u].pc = "record" => th[u].cl \in buckets'[Hash[th[u].key]]
        <5>1. th[u].pc = "record" => Hash[th[u].key] \in Bucket
          BY <3>1, HashTyped DEF Placed, Subscribing
        <5> QED
          BY <2>3, <3>1, <5>1 DEF SubsOf
      <4>3. th[u].pc \in Walking => th[u].todo \subseteq Listed(u)'
        <5>1. th[u].op = "pub" => Hash[th[u].key] \in Bucket
          BY <3>1, HashTyped DEF Placed
        <5>2. Listed(u) \subseteq Listed(u)'
          BY <1>0, <2>3, <4>1, <5>1 DEF Listed
        <5> QED
          BY <3>1, <5>2 DEF SubsOf
      <4> QED
        BY <1>0, <3>1, <4>1, <4>2, <4>3 DEF SubsOf
    <3> QED
      BY <3>2, <3>3
  <2>6. \A u \in Thread : th[u].pc \in {"record", "unsubscribe"} => u # t /\ th'[u] = th[u]
    BY <1>0, <2>2
  <2>6a. \A u \in Thread : th'[u].pc = "unsubscribe" => th'[u] = th[u]
    BY <2>1, <2>2
  <2>7. SubsIn'
    <3> SUFFICES ASSUME NEW d \in Bucket, NEW x \in buckets'[d]
                 PROVE  x \in clients /\ Justified(x, d)'
      BY <1>0 DEF SubsIn
    <3>1. CASE x \in buckets[d]
      <4>1. x \in clients /\ Justified(x, d)
        BY <3>1 DEF Subs, SubsIn
      <4> QED
        BY <1>0, <2>6, <2>6a, <4>1 DEF Justified
    <3>2. CASE x \notin buckets[d]
      <4>1. x = c /\ d = b
        BY <2>1, <3>2
      <4> QED
        BY <2>1, <2>2, <2>4, <4>1 DEF Justified
    <3> QED
      BY <3>1, <3>2
  <2>8. SubsRecorded'
    <3> SUFFICES ASSUME NEW x \in clients, NEW k \in mem[x].topics
                 PROVE  x \in buckets'[Hash[k]] \/ \E u \in Thread : th'[u].pc = "unsubscribe" /\ th'[u].cl = x
      BY <1>0 DEF SubsRecorded
    <3>1. Hash[k] \in Bucket
      BY <1>0, HashTyped DEF Types, MemState
    <3>2. x \in buckets[Hash[k]] \/ \E u \in Thread : th[u].pc = "unsubscribe" /\ th[u].cl = x
      BY DEF Subs, SubsRecorded
    <3> QED
      BY <2>3, <2>6, <3>1, <3>2
  <2> QED
    BY <2>5, <2>7, <2>8 DEF Subs
<1> QED
  BY <1>1, <1>2

LEMMA SubRecordSubs ==
  ASSUME Room, Books, NoReap, Subs, NEW t \in Thread, SubRecord(t)
  PROVE  Subs'
<1> DEFINE c == th[t].cl
           k == th[t].key
<1>0. /\ Shape /\ Types /\ LocksInv /\ (\A u \in Thread : Placed(u))
      /\ UNCHANGED <<clients, fd_map, buckets>> /\ Rested(t)
      /\ \A u \in Thread : u # t => th'[u] = th[u]
      /\ th[t].pc = "record" /\ c \in Client /\ k \in Topic /\ th'[t].pc = "idle"
      /\ \A d \in Client : /\ mem'[d].is_active = mem[d].is_active
                           /\ d # c => mem'[d].topics = mem[d].topics
      /\ mem'[c].topics = IF Cardinality(mem[c].topics) < MaxTopics
                          THEN mem[c].topics \cup {k} ELSE mem[c].topics
  BY SubRecordEffect, RestingFields DEF Books, Shape, SubRecord, Moved, Rested
<1>1. mem'[c].topics = mem[c].topics \cup {k}
  <2> SUFFICES ASSUME ~(Cardinality(mem[c].topics) < MaxTopics) PROVE k \in mem[c].topics
    BY <1>0
  <2> DEFINE S == mem[c].topics
  <2>1. S \subseteq Topic
    BY <1>0 DEF Types, MemState
  <2>2. IsFiniteSet(Topic) /\ Cardinality(Topic) <= MaxTopics
    BY DEF Room
  <2> HIDE DEF S
  <2>3. SUFFICES ASSUME k \notin S PROVE FALSE
    BY DEF S
  <2>4. IsFiniteSet(S \cup {k}) /\ Cardinality(S \cup {k}) <= Cardinality(Topic)
    BY <1>0, <2>1, <2>2, FS_Subset
  <2>5. IsFiniteSet(S) /\ Cardinality(S) \in Nat /\ Cardinality(Topic) \in Nat
    BY <2>1, <2>2, FS_Subset, FS_CardinalityType
  <2>6. Cardinality(S \cup {k}) = Cardinality(S) + 1
    BY <2>3, <2>5, FS_AddElement
  <2>7. MaxTopics \in Nat
    BY RegistryAssumption
  <2>8. ~(Cardinality(S) < MaxTopics)
    BY DEF S
  <2> QED
    BY <2>2, <2>4, <2>5, <2>6, <2>7, <2>8
<1> HIDE DEF c, k
<1>2. \A u \in Thread : th[u].pc = "unsubscribe" => th[u].cl # c
  BY <1>0, OneHolder DEF Subscribing, Removal, c
<1>3. \A u \in Thread : /\ th'[u].pc # "idle" => u # t /\ th'[u] = th[u]
                        /\ th[u].pc # "record" => th'[u] = th[u]
  BY <1>0
<1>4. \A u \in Thread : SubsOf(u)'
  <2> SUFFICES ASSUME NEW u \in Thread PROVE SubsOf(u)'
    OBVIOUS
  <2>1. SubsOf(u) /\ Placed(u)
    BY <1>0 DEF Subs
  <2>2. CASE u = t
    BY <1>0, <2>2 DEF SubsOf, Walking, Subscribing
  <2>3. CASE u # t
    <3>1. th'[u] = th[u] /\ Listed(u)' = Listed(u)
      BY <1>0, <2>3 DEF Listed
    <3> QED
      BY <1>0, <2>1, <3>1 DEF SubsOf, Placed, OnClient
  <2> QED
    BY <2>2, <2>3
<1>5. SubsIn'
  <2> SUFFICES ASSUME NEW d \in Bucket, NEW x \in buckets[d]
               PROVE  x \in clients /\ Justified(x, d)'
    BY <1>0 DEF SubsIn
  <2>1. x \in clients /\ x \in Client /\ Justified(x, d)
    BY <1>0 DEF Subs, SubsIn, Types
  <2>2. mem[x].topics \subseteq mem'[x].topics
    BY <1>0, <1>1, <2>1
  <2>3. CASE \E j \in mem[x].topics : Hash[j] = d /\ \A u \in Thread :
               th[u].pc = "unsubscribe" /\ th[u].cl = x => j \in th[u].todo
    <3>1. PICK j \in mem[x].topics : Hash[j] = d /\ \A u \in Thread :
               th[u].pc = "unsubscribe" /\ th[u].cl = x => j \in th[u].todo
      BY <2>3
    <3>2. j \in mem'[x].topics
      BY <2>2
    <3>3. \A u \in Thread : th'[u].pc = "unsubscribe" /\ th'[u].cl = x => j \in th'[u].todo
      BY <1>3, <3>1
    <3> QED
      BY <2>1, <3>1, <3>2, <3>3 DEF Justified
  <2>4. CASE \E u \in Thread : th[u].pc = "record" /\ th[u].cl = x /\ Hash[th[u].key] = d
    <3>1. PICK u \in Thread : th[u].pc = "record" /\ th[u].cl = x /\ Hash[th[u].key] = d
      BY <2>4
    <3>2. CASE u = t
      <4>1. k \in mem'[x].topics /\ Hash[k] = d /\ x = c
        BY <1>1, <3>1, <3>2 DEF c, k
      <4>2. \A v \in Thread : ~(th'[v].pc = "unsubscribe" /\ th'[v].cl = x)
        BY <1>2, <1>3, <4>1
      <4> QED
        BY <2>1, <4>1, <4>2 DEF Justified
    <3>3. CASE u # t
      BY <1>0, <2>1, <3>1, <3>3 DEF Justified
    <3> QED
      BY <3>2, <3>3
  <2> QED
    BY <2>1, <2>3, <2>4 DEF Justified
<1>6. SubsRecorded'
  <2> SUFFICES ASSUME NEW x \in clients, NEW j \in mem'[x].topics
               PROVE  x \in buckets[Hash[j]] \/ \E u \in Thread : th'[u].pc = "unsubscribe" /\ th'[u].cl = x
    BY <1>0 DEF SubsRecorded
  <2>1. x \in Client
    BY <1>0 DEF Types
  <2>2. CASE j \in mem[x].topics
    <3>1. x \in buckets[Hash[j]] \/ \E u \in Thread : th[u].pc = "unsubscribe" /\ th[u].cl = x
      BY <2>2 DEF Subs, SubsRecorded
    <3> QED
      BY <1>3, <3>1
  <2>3. CASE j \notin mem[x].topics
    <3>1. x = c /\ j = k
      BY <1>0, <1>1, <2>1, <2>3
    <3> QED
      BY <1>0, <3>1 DEF Subs, SubsOf, c, k
  <2> QED
    BY <2>2, <2>3
<1> QED
  BY <1>4, <1>5, <1>6 DEF Subs

LEMMA LockHashSubs ==
  ASSUME Books, NoReap, Subs, NEW t \in Thread, LockHash(t)
  PROVE  Subs'
<1> DEFINE c == th[t].cl
<1>0. /\ Types /\ LocksInv /\ (\A u \in Thread : Placed(u))
      /\ UNCHANGED <<mem, clients, fd_map, buckets>>
      /\ \A u \in Thread : u # t => th'[u] = th[u]
      /\ th[t].pc = "unhash" /\ th'[t].pc = "unsubscribe" /\ c \in Client /\ th'[t].cl = c
      /\ th'[t].todo = mem[c].topics
  BY LockHashEffect DEF Books, Shape, LockHash, Moved, tables
<1> HIDE DEF c
<1>1. \A u \in Thread : SubsOf(u)'
  <2> SUFFICES ASSUME NEW u \in Thread PROVE SubsOf(u)'
    OBVIOUS
  <2>1. SubsOf(u)
    BY DEF Subs
  <2>2. CASE u = t
    BY <1>0, <2>2 DEF SubsOf, Walking, Subscribing
  <2>3. CASE u # t
    BY <1>0, <2>1, <2>3 DEF SubsOf, Listed
  <2> QED
    BY <2>2, <2>3
<1>2. SubsIn'
  <2> SUFFICES ASSUME NEW d \in Bucket, NEW x \in buckets[d]
               PROVE  x \in clients /\ Justified(x, d)'
    BY <1>0 DEF SubsIn
  <2>1. x \in clients /\ Justified(x, d)
    BY DEF Subs, SubsIn
  <2>2. CASE \E j \in mem[x].topics : Hash[j] = d /\ \A u \in Thread :
               th[u].pc = "unsubscribe" /\ th[u].cl = x => j \in th[u].todo
    <3>1. PICK j \in mem[x].topics : Hash[j] = d /\ \A u \in Thread :
               th[u].pc = "unsubscribe" /\ th[u].cl = x => j \in th[u].todo
      BY <2>2
    <3>2. \A u \in Thread : th'[u].pc = "unsubscribe" /\ th'[u].cl = x => j \in th'[u].todo
      BY <1>0, <3>1
    <3> QED
      BY <1>0, <2>1, <3>1, <3>2 DEF Justified
  <2>3. CASE \E u \in Thread : th[u].pc = "record" /\ th[u].cl = x /\ Hash[th[u].key] = d
    <3>1. PICK u \in Thread : th[u].pc = "record" /\ th[u].cl = x /\ Hash[th[u].key] = d
      BY <2>3
    <3>2. th'[u] = th[u]
      BY <1>0, <3>1
    <3> QED
      BY <2>1, <3>1, <3>2 DEF Justified
  <2> QED
    BY <2>1, <2>2, <2>3 DEF Justified
<1>3. SubsRecorded'
  <2>1. \A u \in Thread : th[u].pc = "unsubscribe" => th'[u] = th[u]
    BY <1>0
  <2> QED
    BY <1>0, <2>1 DEF Subs, SubsRecorded
<1> QED
  BY <1>1, <1>2, <1>3 DEF Subs

LEMMA UnsubscribeSubs ==
  ASSUME Books, NoReap, Subs, NEW t \in Thread, NEW k \in Topic, Unsubscribe(t, k)
  PROVE  Subs'
<1> DEFINE c == th[t].cl
           b == Hash[k]
<1>0. /\ Types /\ LocksInv /\ (\A u \in Thread : Placed(u))
      /\ UNCHANGED <<mem, clients, fd_map>>
      /\ \A u \in Thread : u # t => th'[u] = th[u]
      /\ th[t].pc = "unsubscribe" /\ th'[t].pc = "unsubscribe" /\ c \in Client /\ th'[t].cl = c
      /\ th'[t].todo = th[t].todo \ {k} /\ b \in Bucket
      /\ buckets'[b] = buckets[b] \ {c} /\ \A d \in Bucket : d # b => buckets'[d] = buckets[d]
      /\ topic_lock[b] = None
  BY UnsubscribeEffect DEF Books, Shape, Unsubscribe, Moved, Free
<1>0a. \A u \in Thread : th[u].pc \in Subscribing => th[u].cl # c
  <2> SUFFICES ASSUME NEW u \in Thread, th[u].pc \in Subscribing, th[u].cl = c PROVE FALSE
    OBVIOUS
  <2>1. u = t
    BY <1>0, OneHolder DEF Removal
  <2> QED
    BY <1>0, <2>1 DEF Subscribing
<1> HIDE DEF c, b
<1>1. \A u \in Thread : SubsOf(u)'
  <2> SUFFICES ASSUME NEW u \in Thread PROVE SubsOf(u)'
    OBVIOUS
  <2>1. SubsOf(u) /\ Placed(u) /\ HeldRight(u)
    BY <1>0 DEF Subs, LocksInv
  <2>2. CASE u = t
    BY <1>0, <2>2 DEF SubsOf, Walking, Subscribing
  <2>3. CASE u # t
    <3>1. th'[u] = th[u]
      BY <1>0, <2>3
    <3>2. th[u].pc = "record" => th[u].cl \in buckets'[Hash[th[u].key]]
      <4>1. th[u].pc = "record" => Hash[th[u].key] \in Bucket
        BY <2>1, HashTyped DEF Placed, Subscribing
      <4> QED
        BY <1>0, <1>0a, <2>1, <4>1 DEF SubsOf, Subscribing
    <3>3. th[u].pc \in Walking => Listed(u)' = Listed(u)
      <4>1. CASE th[u].op = "pub" /\ th[u].pc \in Walking
        <5>1. Hash[th[u].key] \in Bucket
          BY <2>1, <4>1, HashTyped DEF Placed
        <5>2. topic_lock[Hash[th[u].key]] = u
          BY <2>1, <4>1, <5>1 DEF HeldRight, InTopic
        <5>3. Hash[th[u].key] # b
          BY <1>0, <5>2, ThreadsTyped
        <5> QED
          BY <1>0, <3>1, <4>1, <5>1, <5>3 DEF Listed
      <4>2. CASE th[u].op # "pub"
        BY <1>0, <3>1, <4>2 DEF Listed
      <4> QED
        BY <4>1, <4>2
    <3> QED
      BY <1>0, <2>1, <3>1, <3>2, <3>3 DEF SubsOf
  <2> QED
    BY <2>2, <2>3
<1>2. SubsIn'
  <2> SUFFICES ASSUME NEW d \in Bucket, NEW x \in buckets'[d]
               PROVE  x \in clients /\ Justified(x, d)'
    BY <1>0 DEF SubsIn
  <2>1. x \in buckets[d] /\ x \in clients /\ Justified(x, d) /\ (d = b => x # c)
    BY <1>0 DEF Subs, SubsIn
  <2>2. CASE \E j \in mem[x].topics : Hash[j] = d /\ \A u \in Thread :
               th[u].pc = "unsubscribe" /\ th[u].cl = x => j \in th[u].todo
    <3>1. PICK j \in mem[x].topics : Hash[j] = d /\ \A u \in Thread :
               th[u].pc = "unsubscribe" /\ th[u].cl = x => j \in th[u].todo
      BY <2>2
    <3>2. \A u \in Thread : th'[u].pc = "unsubscribe" /\ th'[u].cl = x => j \in th'[u].todo
      <4> SUFFICES ASSUME NEW u \in Thread, th'[u].pc = "unsubscribe", th'[u].cl = x
                   PROVE  j \in th'[u].todo
        OBVIOUS
      <4>1. CASE u = t
        <5>1. x = c /\ j # k
          BY <1>0, <2>1, <3>1, <4>1 DEF b
        <5> QED
          BY <1>0, <3>1, <4>1, <5>1 DEF c
      <4>2. CASE u # t
        BY <1>0, <3>1, <4>2
      <4> QED
        BY <4>1, <4>2
    <3> QED
      BY <1>0, <2>1, <3>1, <3>2 DEF Justified
  <2>3. CASE \E u \in Thread : th[u].pc = "record" /\ th[u].cl = x /\ Hash[th[u].key] = d
    <3>1. PICK u \in Thread : th[u].pc = "record" /\ th[u].cl = x /\ Hash[th[u].key] = d
      BY <2>3
    <3>2. th'[u] = th[u]
      BY <1>0, <3>1
    <3> QED
      BY <2>1, <3>1, <3>2 DEF Justified
  <2> QED
    BY <2>1, <2>2, <2>3 DEF Justified
<1>3. SubsRecorded'
  <2> SUFFICES ASSUME NEW x \in clients, NEW j \in mem[x].topics
               PROVE  x \in buckets'[Hash[j]] \/ \E u \in Thread : th'[u].pc = "unsubscribe" /\ th'[u].cl = x
    BY <1>0 DEF SubsRecorded
  <2>1. Hash[j] \in Bucket
    BY <1>0, HashTyped DEF Types, MemState
  <2>2. x \in buckets[Hash[j]] \/ \E u \in Thread : th[u].pc = "unsubscribe" /\ th[u].cl = x
    BY DEF Subs, SubsRecorded
  <2>3. CASE x = c
    BY <1>0, <2>3
  <2>4. CASE x # c
    <3>1. \A u \in Thread : th[u].cl = x => th'[u] = th[u]
      BY <1>0, <2>4 DEF c
    <3> QED
      BY <1>0, <2>1, <2>2, <2>4, <3>1
  <2> QED
    BY <2>3, <2>4
<1> QED
  BY <1>1, <1>2, <1>3 DEF Subs

LEMMA ReleaseSubs ==
  ASSUME Books, NoReap, Subs, NEW t \in Thread, Release(t)
  PROVE  Subs'
<1> DEFINE c == th[t].cl
<1>0. /\ Types /\ LocksInv /\ OneServer /\ (\A u \in Thread : Placed(u)) /\ UNCHANGED buckets
      /\ \A u \in Thread : u # t => th'[u] = th[u]
      /\ th[t].pc = "unsubscribe" /\ th[t].todo = {} /\ th'[t].pc \in {"reaping", "unflag"}
      /\ c \in Client /\ th[t].fd \in Fd
      /\ clients' = clients \ {c} /\ \A d \in Client : d # c => mem'[d] = mem[d]
      /\ \A f \in Fd : f # th[t].fd => fd_map'[f] = fd_map[f]
  BY ReleaseEffect DEF Books, Shape, Tidy, Release, Moved, AfterRemove
<1>0a. \A u \in Thread : u # t /\ th[u].pc \in Subscribing \cup Removal => th[u].cl # c
  BY <1>0, OneHolder DEF Removal
<1>0b. \A d \in Bucket : c \notin buckets[d]
  BY <1>0, Unsubscribed
<1>0c. registry_lock = t
  BY <1>0 DEF LocksInv, HeldRight, InRegistry, Removal
<1> HIDE DEF c
<1>1. \A u \in Thread : SubsOf(u)'
  <2> SUFFICES ASSUME NEW u \in Thread PROVE SubsOf(u)'
    OBVIOUS
  <2>1. SubsOf(u) /\ Placed(u) /\ HeldRight(u)
    BY <1>0 DEF Subs, LocksInv
  <2>2. CASE u = t
    BY <1>0, <2>2 DEF SubsOf, Walking, Subscribing
  <2>3. CASE u # t
    <3>1. th'[u] = th[u]
      BY <1>0, <2>3
    <3>2. th[u].pc \in Subscribing => fd_map'[th[u].fd] = th[u].cl
      <4> SUFFICES ASSUME th[u].pc \in Subscribing PROVE fd_map'[th[u].fd] = th[u].cl
        OBVIOUS
      <4>1. fd_map[th[u].fd] = th[u].cl /\ th[u].fd \in Fd /\ th[u].cl # c
        BY <1>0a, <2>1, <2>3 DEF SubsOf, Placed, OnFd
      <4>2. fd_map[th[t].fd] = c
        BY <1>0 DEF Books, Tidy, Slots, Removal, c
      <4> QED
        BY <1>0, <4>1, <4>2
    <3>3. th[u].pc \in Walking => th[u].op = "pub" /\ Listed(u)' = Listed(u) /\ Hash[th[u].key] \in Bucket
      <4>1. th[u].pc \in Walking => th[u].op = "pub" /\ Hash[th[u].key] \in Bucket
        BY <1>0c, <2>1, <2>3, HashTyped DEF HeldRight, InRegistry, Placed
      <4> QED
        BY <1>0, <3>1, <4>1 DEF Listed
    <3>4. th[u].pc = "send" => mem'[th[u].cl].is_active
      <4> SUFFICES ASSUME th[u].pc = "send" PROVE mem'[th[u].cl].is_active
        OBVIOUS
      <4>1. th[u].cl \in Client /\ th[u].cl \in buckets[Hash[th[u].key]] /\ mem[th[u].cl].is_active
        BY <2>1, <3>3 DEF SubsOf, Placed, OnClient, Walking, Listed
      <4>2. th[u].cl # c
        BY <1>0b, <3>3, <4>1 DEF Walking
      <4> QED
        BY <1>0, <4>1, <4>2
    <3> QED
      BY <1>0, <2>1, <3>1, <3>2, <3>3, <3>4 DEF SubsOf
  <2> QED
    BY <2>2, <2>3
<1>2. SubsIn'
  <2> SUFFICES ASSUME NEW d \in Bucket, NEW x \in buckets[d]
               PROVE  x \in clients' /\ Justified(x, d)'
    BY <1>0 DEF SubsIn
  <2>1. x \in clients /\ Justified(x, d) /\ x # c /\ x \in Client
    BY <1>0, <1>0b DEF Subs, SubsIn, Types
  <2>2. mem'[x] = mem[x] /\ x \in clients'
    BY <1>0, <2>1
  <2>3. \A u \in Thread : th[u].pc = "record" => th'[u] = th[u]
    BY <1>0
  <2>4. \A u \in Thread : th'[u].pc = "unsubscribe" => th'[u] = th[u]
    BY <1>0
  <2> QED
    BY <2>1, <2>2, <2>3, <2>4 DEF Justified
<1>3. SubsRecorded'
  <2> SUFFICES ASSUME NEW x \in clients, x # c, NEW j \in mem'[x].topics
               PROVE  x \in buckets[Hash[j]] \/ \E u \in Thread : th'[u].pc = "unsubscribe" /\ th'[u].cl = x
    BY <1>0 DEF SubsRecorded
  <2>1. mem'[x] = mem[x]
    BY <1>0 DEF Types
  <2>2. x \in buckets[Hash[j]] \/ \E u \in Thread : th[u].pc = "unsubscribe" /\ th[u].cl = x
    BY <2>1 DEF Subs, SubsRecorded
  <2>3. \A u \in Thread : th[u].cl = x => th'[u] = th[u]
    BY <1>0 DEF c
  <2> QED
    BY <2>2, <2>3
<1> QED
  BY <1>1, <1>2, <1>3 DEF Subs

LEMMA SubsStep ==
  ASSUME Room, Quiet, Books, NoReap, Subs, [Next]_vars
  PROVE  Subs'
<1>0. /\ Shape /\ Types /\ (\A u \in Thread : Placed(u) /\ SubsOf(u))
      /\ th[Maint].pc \notin Removal \cup {"remove"}
      /\ None \notin ClientOps \cup BridgeOps
  BY RegistryAssumption DEF Books, Shape, NoReap, Subs
<1>1. ASSUME NEW f \in Fd, Accept(f)
      PROVE  Subs'
  BY <1>1, StillSubs DEF Accept, tables
<1>2. ASSUME NEW t \in Worker, NEW f \in Fd, Http(t, f)
      PROVE  Subs'
  <2>1. /\ Moved(t) /\ t \in Thread /\ UNCHANGED <<clients, fd_map, buckets>>
        /\ \A d \in Client : /\ mem'[d].topics = mem[d].topics
                             /\ mem[d].is_active /\ client_lock[d] # None => mem'[d].is_active
    BY <1>0, <1>2, HttpEffect, ThreadsTyped DEF Http, tables, Types
  <2>2. /\ {th[t].pc, th'[t].pc} \cap {"record", "unsubscribe"} = {}
        /\ th'[t].pc \in Subscribing => fd_map[th'[t].fd] = th'[t].cl
        /\ th'[t].pc \in Walking =>
             \/ th'[t].todo \subseteq Listed(t)'
             \/ /\ th[t].pc \in Walking /\ th'[t].todo \subseteq th[t].todo
                /\ th'[t].op = th[t].op /\ th'[t].key = th[t].key
        /\ th'[t].pc = "send" => mem'[th'[t].cl].is_active
    BY <1>0, <1>2, <2>1, HttpEffect, RestingFields, ThreadsTyped
       DEF Http, Listed, Rested, Kept, KeptAll, Subscribing, Walking, Removal, tables,
           ClientOps, BridgeOps, AfterRemove, Placed, SubsOf
  <2> QED
    BY <2>1, <2>2, AwaySubs DEF Away
<1>3. ASSUME NEW t \in Worker, NEW f \in Fd, Message(t, f)
      PROVE  Subs'
  <2>1. /\ Moved(t) /\ t \in Thread /\ UNCHANGED <<clients, fd_map, buckets>>
        /\ \A d \in Client : /\ mem'[d].topics = mem[d].topics
                             /\ mem[d].is_active /\ client_lock[d] # None => mem'[d].is_active
    BY <1>0, <1>3, MessageEffect, ThreadsTyped DEF Message, tables, Types
  <2>2. /\ {th[t].pc, th'[t].pc} \cap {"record", "unsubscribe"} = {}
        /\ th'[t].pc \in Subscribing => fd_map[th'[t].fd] = th'[t].cl
        /\ th'[t].pc \in Walking =>
             \/ th'[t].todo \subseteq Listed(t)'
             \/ /\ th[t].pc \in Walking /\ th'[t].todo \subseteq th[t].todo
                /\ th'[t].op = th[t].op /\ th'[t].key = th[t].key
        /\ th'[t].pc = "send" => mem'[th'[t].cl].is_active
    BY <1>0, <1>3, <2>1, MessageEffect, RestingFields, ThreadsTyped
       DEF Message, Listed, Rested, Kept, KeptAll, Subscribing, Walking,
           Removal, tables,
           ClientOps, BridgeOps, AfterRemove, Placed, SubsOf
  <2> QED
    BY <2>1, <2>2, AwaySubs DEF Away
<1>4. CASE Internal
  <2>1. /\ Moved(Bridge) /\ Bridge \in Thread /\ UNCHANGED <<clients, fd_map, buckets>>
        /\ \A d \in Client : /\ mem'[d].topics = mem[d].topics
                             /\ mem[d].is_active /\ client_lock[d] # None => mem'[d].is_active
    BY <1>0, <1>4, InternalEffect, ThreadsTyped DEF Internal, tables, Types
  <2>2. /\ {th[Bridge].pc, th'[Bridge].pc} \cap {"record", "unsubscribe"} = {}
        /\ th'[Bridge].pc \in Subscribing => fd_map[th'[Bridge].fd] = th'[Bridge].cl
        /\ th'[Bridge].pc \in Walking =>
             \/ th'[Bridge].todo \subseteq Listed(Bridge)'
             \/ /\ th[Bridge].pc \in Walking /\ th'[Bridge].todo \subseteq th[Bridge].todo
                /\ th'[Bridge].op = th[Bridge].op /\ th'[Bridge].key = th[Bridge].key
        /\ th'[Bridge].pc = "send" => mem'[th'[Bridge].cl].is_active
    BY <1>0, <1>4, <2>1, InternalEffect, RestingFields, ThreadsTyped
       DEF Internal, Listed, Rested, Kept, KeptAll, Subscribing, Walking,
           Removal, tables,
           ClientOps, BridgeOps, AfterRemove, Placed, SubsOf
  <2> QED
    BY <2>1, <2>2, AwaySubs DEF Away
<1>5. ASSUME NEW t \in Thread, Add(t)
      PROVE  Subs'
  BY <1>5, AddSubs
<1>6. ASSUME NEW t \in Thread, SetFlag(t)
      PROVE  Subs'
  <2>1. /\ Moved(t) /\ t \in Thread /\ UNCHANGED <<clients, fd_map, buckets>>
        /\ \A d \in Client : /\ mem'[d].topics = mem[d].topics
                             /\ mem[d].is_active /\ client_lock[d] # None => mem'[d].is_active
    BY <1>0, <1>6, SetFlagEffect, ThreadsTyped DEF SetFlag, tables, Types
  <2>2. /\ {th[t].pc, th'[t].pc} \cap {"record", "unsubscribe"} = {}
        /\ th'[t].pc \in Subscribing => fd_map[th'[t].fd] = th'[t].cl
        /\ th'[t].pc \in Walking =>
             \/ th'[t].todo \subseteq Listed(t)'
             \/ /\ th[t].pc \in Walking /\ th'[t].todo \subseteq th[t].todo
                /\ th'[t].op = th[t].op /\ th'[t].key = th[t].key
        /\ th'[t].pc = "send" => mem'[th'[t].cl].is_active
    BY <1>0, <1>6, SetFlagEffect, RestingFields DEF Rested, Subscribing, Walking
  <2> QED
    BY <2>1, <2>2, AwaySubs DEF Away
<1>7. ASSUME NEW t \in Thread, UpdateActivity(t)
      PROVE  Subs'
  <2>1. /\ Moved(t) /\ t \in Thread /\ UNCHANGED <<clients, fd_map, buckets>>
        /\ \A d \in Client : /\ mem'[d].topics = mem[d].topics
                             /\ mem[d].is_active /\ client_lock[d] # None => mem'[d].is_active
    BY <1>0, <1>7, UpdateActivityEffect, ThreadsTyped DEF UpdateActivity, tables, Types
  <2>2. /\ {th[t].pc, th'[t].pc} \cap {"record", "unsubscribe"} = {}
        /\ th'[t].pc \in Subscribing => fd_map[th'[t].fd] = th'[t].cl
        /\ th'[t].pc \in Walking =>
             \/ th'[t].todo \subseteq Listed(t)'
             \/ /\ th[t].pc \in Walking /\ th'[t].todo \subseteq th[t].todo
                /\ th'[t].op = th[t].op /\ th'[t].key = th[t].key
        /\ th'[t].pc = "send" => mem'[th'[t].cl].is_active
    BY <1>0, <1>7, UpdateActivityEffect, RestingFields DEF Rested, Subscribing, Walking
  <2> QED
    BY <2>1, <2>2, AwaySubs DEF Away
<1>8. ASSUME NEW t \in Thread, SetUserId(t)
      PROVE  Subs'
  <2>1. /\ Moved(t) /\ t \in Thread /\ UNCHANGED <<clients, fd_map, buckets>>
        /\ \A d \in Client : /\ mem'[d].topics = mem[d].topics
                             /\ mem[d].is_active /\ client_lock[d] # None => mem'[d].is_active
    BY <1>0, <1>8, SetUserIdEffect, ThreadsTyped DEF SetUserId, tables, Types
  <2>2. /\ {th[t].pc, th'[t].pc} \cap {"record", "unsubscribe"} = {}
        /\ th'[t].pc \in Subscribing => fd_map[th'[t].fd] = th'[t].cl
        /\ th'[t].pc \in Walking =>
             \/ th'[t].todo \subseteq Listed(t)'
             \/ /\ th[t].pc \in Walking /\ th'[t].todo \subseteq th[t].todo
                /\ th'[t].op = th[t].op /\ th'[t].key = th[t].key
        /\ th'[t].pc = "send" => mem'[th'[t].cl].is_active
    <3>1. th[t].pc = "auth" /\ th'[t].pc = "idle"
      BY <1>0, <1>8, SetUserIdEffect, RestingFields DEF Rested
    <3> QED
      BY <3>1 DEF Subscribing, Walking
  <2> QED
    BY <2>1, <2>2, AwaySubs DEF Away
<1>9. ASSUME NEW t \in Thread, SubFind(t)
      PROVE  Subs'
  <2>1. /\ Moved(t) /\ t \in Thread /\ UNCHANGED <<clients, fd_map, buckets>>
        /\ \A d \in Client : /\ mem'[d].topics = mem[d].topics
                             /\ mem[d].is_active /\ client_lock[d] # None => mem'[d].is_active
    BY <1>0, <1>9, SubFindEffect, ThreadsTyped DEF SubFind, tables, Types
  <2>2. /\ {th[t].pc, th'[t].pc} \cap {"record", "unsubscribe"} = {}
        /\ th'[t].pc \in Subscribing => fd_map[th'[t].fd] = th'[t].cl
        /\ th'[t].pc \in Walking =>
             \/ th'[t].todo \subseteq Listed(t)'
             \/ /\ th[t].pc \in Walking /\ th'[t].todo \subseteq th[t].todo
                /\ th'[t].op = th[t].op /\ th'[t].key = th[t].key
        /\ th'[t].pc = "send" => mem'[th'[t].cl].is_active
    BY <1>0, <1>9, <2>1, SubFindEffect, RestingFields, ThreadsTyped
       DEF SubFind, Listed, Rested, Kept, KeptAll, Subscribing, Walking,
           Removal, tables,
           ClientOps, BridgeOps, AfterRemove, Placed, SubsOf
  <2> QED
    BY <2>1, <2>2, AwaySubs DEF Away
<1>10. ASSUME NEW t \in Thread, SubBucket(t)
      PROVE  Subs'
  <2>1. /\ Moved(t) /\ t \in Thread /\ UNCHANGED <<clients, fd_map, buckets>>
        /\ \A d \in Client : /\ mem'[d].topics = mem[d].topics
                             /\ mem[d].is_active /\ client_lock[d] # None => mem'[d].is_active
    BY <1>0, <1>10, SubBucketEffect, ThreadsTyped DEF SubBucket, tables, Types
  <2>2. /\ {th[t].pc, th'[t].pc} \cap {"record", "unsubscribe"} = {}
        /\ th'[t].pc \in Subscribing => fd_map[th'[t].fd] = th'[t].cl
        /\ th'[t].pc \in Walking =>
             \/ th'[t].todo \subseteq Listed(t)'
             \/ /\ th[t].pc \in Walking /\ th'[t].todo \subseteq th[t].todo
                /\ th'[t].op = th[t].op /\ th'[t].key = th[t].key
        /\ th'[t].pc = "send" => mem'[th'[t].cl].is_active
    BY <1>0, <1>10, <2>1, SubBucketEffect, RestingFields, ThreadsTyped
       DEF SubBucket, Listed, Rested, Kept, KeptAll, Subscribing, Walking,
           Removal, tables,
           ClientOps, BridgeOps, AfterRemove, Placed, SubsOf
  <2> QED
    BY <2>1, <2>2, AwaySubs DEF Away
<1>11. ASSUME NEW t \in Thread, SubInsert(t)
      PROVE  Subs'
  BY <1>11, SubInsertSubs
<1>12. ASSUME NEW t \in Thread, SubRecord(t)
      PROVE  Subs'
  BY <1>12, SubRecordSubs
<1>13. ASSUME NEW t \in Thread, WalkClients(t)
      PROVE  Subs'
  <2>1. /\ Moved(t) /\ t \in Thread /\ UNCHANGED <<clients, fd_map, buckets>>
        /\ \A d \in Client : /\ mem'[d].topics = mem[d].topics
                             /\ mem[d].is_active /\ client_lock[d] # None => mem'[d].is_active
    BY <1>0, <1>13, WalkClientsEffect, ThreadsTyped DEF WalkClients, tables, Types
  <2>2. /\ {th[t].pc, th'[t].pc} \cap {"record", "unsubscribe"} = {}
        /\ th'[t].pc \in Subscribing => fd_map[th'[t].fd] = th'[t].cl
        /\ th'[t].pc \in Walking =>
             \/ th'[t].todo \subseteq Listed(t)'
             \/ /\ th[t].pc \in Walking /\ th'[t].todo \subseteq th[t].todo
                /\ th'[t].op = th[t].op /\ th'[t].key = th[t].key
        /\ th'[t].pc = "send" => mem'[th'[t].cl].is_active
    BY <1>0, <1>13, <2>1, WalkClientsEffect, RestingFields, ThreadsTyped
       DEF WalkClients, Listed, Rested, Kept, KeptAll, Subscribing, Walking,
           Removal, tables,
           ClientOps, BridgeOps, AfterRemove, Placed, SubsOf
  <2> QED
    BY <2>1, <2>2, AwaySubs DEF Away
<1>14. ASSUME NEW t \in Thread, PubBucket(t)
      PROVE  Subs'
  <2>1. /\ Moved(t) /\ t \in Thread /\ UNCHANGED <<clients, fd_map, buckets>>
        /\ \A d \in Client : /\ mem'[d].topics = mem[d].topics
                             /\ mem[d].is_active /\ client_lock[d] # None => mem'[d].is_active
    BY <1>0, <1>14, PubBucketEffect, ThreadsTyped DEF PubBucket, tables, Types
  <2>2. /\ {th[t].pc, th'[t].pc} \cap {"record", "unsubscribe"} = {}
        /\ th'[t].pc \in Subscribing => fd_map[th'[t].fd] = th'[t].cl
        /\ th'[t].pc \in Walking =>
             \/ th'[t].todo \subseteq Listed(t)'
             \/ /\ th[t].pc \in Walking /\ th'[t].todo \subseteq th[t].todo
                /\ th'[t].op = th[t].op /\ th'[t].key = th[t].key
        /\ th'[t].pc = "send" => mem'[th'[t].cl].is_active
    BY <1>0, <1>14, <2>1, PubBucketEffect, RestingFields, ThreadsTyped
       DEF PubBucket, Listed, Rested, Kept, KeptAll, Subscribing, Walking,
           Removal, tables,
           ClientOps, BridgeOps, AfterRemove, Placed, SubsOf
  <2> QED
    BY <2>1, <2>2, AwaySubs DEF Away
<1>15. ASSUME NEW t \in Thread, WalkBucket(t)
      PROVE  Subs'
  <2>1. /\ Moved(t) /\ t \in Thread /\ UNCHANGED <<clients, fd_map, buckets>>
        /\ \A d \in Client : /\ mem'[d].topics = mem[d].topics
                             /\ mem[d].is_active /\ client_lock[d] # None => mem'[d].is_active
    BY <1>0, <1>15, WalkBucketEffect, ThreadsTyped DEF WalkBucket, tables, Types
  <2>2. /\ {th[t].pc, th'[t].pc} \cap {"record", "unsubscribe"} = {}
        /\ th'[t].pc \in Subscribing => fd_map[th'[t].fd] = th'[t].cl
        /\ th'[t].pc \in Walking =>
             \/ th'[t].todo \subseteq Listed(t)'
             \/ /\ th[t].pc \in Walking /\ th'[t].todo \subseteq th[t].todo
                /\ th'[t].op = th[t].op /\ th'[t].key = th[t].key
        /\ th'[t].pc = "send" => mem'[th'[t].cl].is_active
    BY <1>0, <1>15, <2>1, WalkBucketEffect, RestingFields, ThreadsTyped, ZenonT(60)
       DEF WalkBucket, Listed, Rested, Kept, KeptAll, Subscribing, Walking,
           Removal, tables,
           ClientOps, BridgeOps, AfterRemove, Placed, SubsOf
  <2> QED
    BY <2>1, <2>2, AwaySubs DEF Away
<1>16. ASSUME NEW t \in Thread, Sent(t)
      PROVE  Subs'
  <2>1. /\ Moved(t) /\ t \in Thread /\ UNCHANGED <<clients, fd_map, buckets>>
        /\ \A d \in Client : /\ mem'[d].topics = mem[d].topics
                             /\ mem[d].is_active /\ client_lock[d] # None => mem'[d].is_active
    BY <1>0, <1>16, SentEffect, ThreadsTyped DEF Sent, tables, Types
  <2>2. /\ {th[t].pc, th'[t].pc} \cap {"record", "unsubscribe"} = {}
        /\ th'[t].pc \in Subscribing => fd_map[th'[t].fd] = th'[t].cl
        /\ th'[t].pc \in Walking =>
             \/ th'[t].todo \subseteq Listed(t)'
             \/ /\ th[t].pc \in Walking /\ th'[t].todo \subseteq th[t].todo
                /\ th'[t].op = th[t].op /\ th'[t].key = th[t].key
        /\ th'[t].pc = "send" => mem'[th'[t].cl].is_active
    BY <1>0, <1>16, SentEffect DEF Kept, Subscribing, Walking
  <2> QED
    BY <2>1, <2>2, AwaySubs DEF Away
<1>17. ASSUME NEW t \in Thread, Walked(t)
      PROVE  Subs'
  <2>1. /\ Moved(t) /\ t \in Thread /\ UNCHANGED <<clients, fd_map, buckets>>
        /\ \A d \in Client : /\ mem'[d].topics = mem[d].topics
                             /\ mem[d].is_active /\ client_lock[d] # None => mem'[d].is_active
    BY <1>0, <1>17, WalkedEffect, ThreadsTyped DEF Walked, tables, Types
  <2>2. /\ {th[t].pc, th'[t].pc} \cap {"record", "unsubscribe"} = {}
        /\ th'[t].pc \in Subscribing => fd_map[th'[t].fd] = th'[t].cl
        /\ th'[t].pc \in Walking =>
             \/ th'[t].todo \subseteq Listed(t)'
             \/ /\ th[t].pc \in Walking /\ th'[t].todo \subseteq th[t].todo
                /\ th'[t].op = th[t].op /\ th'[t].key = th[t].key
        /\ th'[t].pc = "send" => mem'[th'[t].cl].is_active
    BY <1>0, <1>17, <2>1, WalkedEffect, RestingFields, ThreadsTyped
       DEF Walked, Listed, Rested, Kept, KeptAll, Subscribing, Walking, Removal, tables,
           ClientOps, BridgeOps, AfterRemove, Placed, SubsOf
  <2> QED
    BY <2>1, <2>2, AwaySubs DEF Away
<1>18. ASSUME NEW t \in Thread, NEW c \in Client, Visit(t, c)
      PROVE  Subs'
  <2>1. /\ Moved(t) /\ t \in Thread /\ UNCHANGED <<clients, fd_map, buckets>>
        /\ \A d \in Client : /\ mem'[d].topics = mem[d].topics
                             /\ mem[d].is_active /\ client_lock[d] # None => mem'[d].is_active
    BY <1>0, <1>18, VisitEffect, ThreadsTyped DEF Visit, tables, Types
  <2>2. /\ {th[t].pc, th'[t].pc} \cap {"record", "unsubscribe"} = {}
        /\ th'[t].pc \in Subscribing => fd_map[th'[t].fd] = th'[t].cl
        /\ th'[t].pc \in Walking =>
             \/ th'[t].todo \subseteq Listed(t)'
             \/ /\ th[t].pc \in Walking /\ th'[t].todo \subseteq th[t].todo
                /\ th'[t].op = th[t].op /\ th'[t].key = th[t].key
        /\ th'[t].pc = "send" => mem'[th'[t].cl].is_active
    BY <1>0, <1>18, <2>1, VisitEffect, RestingFields, ThreadsTyped
       DEF Visit, Listed, Rested, Kept, KeptAll, Subscribing, Walking, Removal, tables,
           ClientOps, BridgeOps, AfterRemove, Placed, SubsOf
  <2> QED
    BY <2>1, <2>2, AwaySubs DEF Away
<1>19. ASSUME NEW t \in Thread, FindUser(t)
      PROVE  Subs'
  <2>1. /\ Moved(t) /\ t \in Thread /\ UNCHANGED <<clients, fd_map, buckets>>
        /\ \A d \in Client : /\ mem'[d].topics = mem[d].topics
                             /\ mem[d].is_active /\ client_lock[d] # None => mem'[d].is_active
    BY <1>0, <1>19, FindUserEffect, ThreadsTyped DEF FindUser, tables, Types
  <2>2. /\ {th[t].pc, th'[t].pc} \cap {"record", "unsubscribe"} = {}
        /\ th'[t].pc \in Subscribing => fd_map[th'[t].fd] = th'[t].cl
        /\ th'[t].pc \in Walking =>
             \/ th'[t].todo \subseteq Listed(t)'
             \/ /\ th[t].pc \in Walking /\ th'[t].todo \subseteq th[t].todo
                /\ th'[t].op = th[t].op /\ th'[t].key = th[t].key
        /\ th'[t].pc = "send" => mem'[th'[t].cl].is_active
    <3>1. th[t].pc \in {"private", "ipc"} /\ th'[t].pc \in {"idle", "validate", "write"}
      BY <1>0, <1>19, FindUserEffect, RestingFields DEF Rested
    <3> QED
      BY <3>1 DEF Subscribing, Walking
  <2> QED
    BY <2>1, <2>2, AwaySubs DEF Away
<1>20. ASSUME NEW t \in Thread, Validate(t)
      PROVE  Subs'
  <2>1. /\ Moved(t) /\ t \in Thread /\ UNCHANGED <<clients, fd_map, buckets>>
        /\ \A d \in Client : /\ mem'[d].topics = mem[d].topics
                             /\ mem[d].is_active /\ client_lock[d] # None => mem'[d].is_active
    BY <1>0, <1>20, ValidateEffect, ThreadsTyped DEF Validate, tables, Types
  <2>2. /\ {th[t].pc, th'[t].pc} \cap {"record", "unsubscribe"} = {}
        /\ th'[t].pc \in Subscribing => fd_map[th'[t].fd] = th'[t].cl
        /\ th'[t].pc \in Walking =>
             \/ th'[t].todo \subseteq Listed(t)'
             \/ /\ th[t].pc \in Walking /\ th'[t].todo \subseteq th[t].todo
                /\ th'[t].op = th[t].op /\ th'[t].key = th[t].key
        /\ th'[t].pc = "send" => mem'[th'[t].cl].is_active
    BY <1>0, <1>20, <2>1, ValidateEffect, RestingFields, ThreadsTyped
       DEF Validate, Listed, Rested, Kept, KeptAll, Subscribing, Walking,
           Removal, tables,
           ClientOps, BridgeOps, AfterRemove, Placed, SubsOf
  <2> QED
    BY <2>1, <2>2, AwaySubs DEF Away
<1>21. ASSUME NEW t \in Thread, Written(t)
      PROVE  Subs'
  <2>1. /\ Moved(t) /\ t \in Thread /\ UNCHANGED <<clients, fd_map, buckets>>
        /\ \A d \in Client : /\ mem'[d].topics = mem[d].topics
                             /\ mem[d].is_active /\ client_lock[d] # None => mem'[d].is_active
    BY <1>0, <1>21, WrittenEffect, ThreadsTyped DEF Written, tables, Types
  <2>2. /\ {th[t].pc, th'[t].pc} \cap {"record", "unsubscribe"} = {}
        /\ th'[t].pc \in Subscribing => fd_map[th'[t].fd] = th'[t].cl
        /\ th'[t].pc \in Walking =>
             \/ th'[t].todo \subseteq Listed(t)'
             \/ /\ th[t].pc \in Walking /\ th'[t].todo \subseteq th[t].todo
                /\ th'[t].op = th[t].op /\ th'[t].key = th[t].key
        /\ th'[t].pc = "send" => mem'[th'[t].cl].is_active
    BY <1>0, <1>21, WrittenEffect, RestingFields DEF Rested, Subscribing, Walking
  <2> QED
    BY <2>1, <2>2, AwaySubs DEF Away
<1>22. ASSUME NEW t \in Thread, Cleanup(t)
      PROVE  Subs'
  <2>1. /\ Moved(t) /\ t \in Thread /\ UNCHANGED <<clients, fd_map, buckets>>
        /\ \A d \in Client : /\ mem'[d].topics = mem[d].topics
                             /\ mem[d].is_active /\ client_lock[d] # None => mem'[d].is_active
    BY <1>0, <1>22, CleanupEffect, ThreadsTyped DEF Cleanup, tables, Types
  <2>2. /\ {th[t].pc, th'[t].pc} \cap {"record", "unsubscribe"} = {}
        /\ th'[t].pc \in Subscribing => fd_map[th'[t].fd] = th'[t].cl
        /\ th'[t].pc \in Walking =>
             \/ th'[t].todo \subseteq Listed(t)'
             \/ /\ th[t].pc \in Walking /\ th'[t].todo \subseteq th[t].todo
                /\ th'[t].op = th[t].op /\ th'[t].key = th[t].key
        /\ th'[t].pc = "send" => mem'[th'[t].cl].is_active
    BY <1>0, <1>22, <2>1, CleanupEffect, RestingFields, ThreadsTyped
       DEF Cleanup, Listed, Rested, Kept, KeptAll, Subscribing, Walking,
           Removal, tables,
           ClientOps, BridgeOps, AfterRemove, Placed, SubsOf
  <2> QED
    BY <2>1, <2>2, AwaySubs DEF Away
<1>23. ASSUME NEW t \in Thread, RemoveFind(t)
      PROVE  Subs'
  <2>1. /\ Moved(t) /\ t \in Thread /\ UNCHANGED <<clients, fd_map, buckets>>
        /\ \A d \in Client : /\ mem'[d].topics = mem[d].topics
                             /\ mem[d].is_active /\ client_lock[d] # None => mem'[d].is_active
    BY <1>0, <1>23, RemoveFindEffect, ThreadsTyped DEF RemoveFind, tables, Types
  <2>2. /\ {th[t].pc, th'[t].pc} \cap {"record", "unsubscribe"} = {}
        /\ th'[t].pc \in Subscribing => fd_map[th'[t].fd] = th'[t].cl
        /\ th'[t].pc \in Walking =>
             \/ th'[t].todo \subseteq Listed(t)'
             \/ /\ th[t].pc \in Walking /\ th'[t].todo \subseteq th[t].todo
                /\ th'[t].op = th[t].op /\ th'[t].key = th[t].key
        /\ th'[t].pc = "send" => mem'[th'[t].cl].is_active
    BY <1>0, <1>23, <2>1, RemoveFindEffect, RestingFields, ThreadsTyped
       DEF RemoveFind, Listed, Rested, Kept, KeptAll, Subscribing, Walking,
           Removal, tables,
           ClientOps, BridgeOps, AfterRemove, Placed, SubsOf
  <2> QED
    BY <2>1, <2>2, AwaySubs DEF Away
<1>24. ASSUME NEW t \in Thread, Deactivate(t)
      PROVE  Subs'
  <2>1. /\ Moved(t) /\ t \in Thread /\ UNCHANGED <<clients, fd_map, buckets>>
        /\ \A d \in Client : /\ mem'[d].topics = mem[d].topics
                             /\ mem[d].is_active /\ client_lock[d] # None => mem'[d].is_active
    <3>1. /\ Moved(t) /\ UNCHANGED <<clients, fd_map, buckets>>
          /\ client_lock[th[t].cl] = None
          /\ \A d \in Client : mem'[d].topics = mem[d].topics
          /\ \A d \in Client : d # th[t].cl => mem'[d].is_active = mem[d].is_active
      BY <1>0, <1>24, DeactivateEffect DEF Deactivate
    <3> QED
      BY <3>1
  <2>2. /\ {th[t].pc, th'[t].pc} \cap {"record", "unsubscribe"} = {}
        /\ th'[t].pc \in Subscribing => fd_map[th'[t].fd] = th'[t].cl
        /\ th'[t].pc \in Walking =>
             \/ th'[t].todo \subseteq Listed(t)'
             \/ /\ th[t].pc \in Walking /\ th'[t].todo \subseteq th[t].todo
                /\ th'[t].op = th[t].op /\ th'[t].key = th[t].key
        /\ th'[t].pc = "send" => mem'[th'[t].cl].is_active
    BY <1>0, <1>24, <2>1, DeactivateEffect, RestingFields, ThreadsTyped, ZenonT(60)
       DEF Deactivate, Listed, Rested, Kept, KeptAll, Subscribing, Walking,
           Removal, tables,
           ClientOps, BridgeOps, AfterRemove, Placed, SubsOf
  <2> QED
    BY <2>1, <2>2, AwaySubs DEF Away
<1>25. ASSUME NEW t \in Thread, ForgetUser(t)
      PROVE  Subs'
  <2>1. /\ Moved(t) /\ t \in Thread /\ UNCHANGED <<clients, fd_map, buckets>>
        /\ \A d \in Client : /\ mem'[d].topics = mem[d].topics
                             /\ mem[d].is_active /\ client_lock[d] # None => mem'[d].is_active
    BY <1>0, <1>25, ForgetUserEffect, ThreadsTyped DEF ForgetUser, tables, Types
  <2>2. /\ {th[t].pc, th'[t].pc} \cap {"record", "unsubscribe"} = {}
        /\ th'[t].pc \in Subscribing => fd_map[th'[t].fd] = th'[t].cl
        /\ th'[t].pc \in Walking =>
             \/ th'[t].todo \subseteq Listed(t)'
             \/ /\ th[t].pc \in Walking /\ th'[t].todo \subseteq th[t].todo
                /\ th'[t].op = th[t].op /\ th'[t].key = th[t].key
        /\ th'[t].pc = "send" => mem'[th'[t].cl].is_active
    BY <1>0, <1>25, <2>1, ForgetUserEffect, RestingFields, ThreadsTyped
       DEF ForgetUser, Listed, Rested, Kept, KeptAll, Subscribing, Walking,
           Removal, tables,
           ClientOps, BridgeOps, AfterRemove, Placed, SubsOf
  <2> QED
    BY <2>1, <2>2, AwaySubs DEF Away
<1>26. ASSUME NEW t \in Thread, LockHash(t)
      PROVE  Subs'
  BY <1>26, LockHashSubs
<1>27. ASSUME NEW t \in Thread, NEW k \in Topic, Unsubscribe(t, k)
      PROVE  Subs'
  BY <1>27, UnsubscribeSubs
<1>28. ASSUME NEW t \in Thread, Release(t)
      PROVE  Subs'
  BY <1>28, ReleaseSubs
<1>29. ASSUME NEW t \in Thread, ClearFlag(t)
      PROVE  Subs'
  <2>1. /\ Moved(t) /\ t \in Thread /\ UNCHANGED <<clients, fd_map, buckets>>
        /\ \A d \in Client : /\ mem'[d].topics = mem[d].topics
                             /\ mem[d].is_active /\ client_lock[d] # None => mem'[d].is_active
    BY <1>0, <1>29, ClearFlagEffect, ThreadsTyped DEF ClearFlag, tables, Types
  <2>2. /\ {th[t].pc, th'[t].pc} \cap {"record", "unsubscribe"} = {}
        /\ th'[t].pc \in Subscribing => fd_map[th'[t].fd] = th'[t].cl
        /\ th'[t].pc \in Walking =>
             \/ th'[t].todo \subseteq Listed(t)'
             \/ /\ th[t].pc \in Walking /\ th'[t].todo \subseteq th[t].todo
                /\ th'[t].op = th[t].op /\ th'[t].key = th[t].key
        /\ th'[t].pc = "send" => mem'[th'[t].cl].is_active
    BY <1>0, <1>29, <2>1, ClearFlagEffect, RestingFields, ThreadsTyped
       DEF ClearFlag, Listed, Rested, Kept, KeptAll, Subscribing, Walking,
           Removal, tables,
           ClientOps, BridgeOps, AfterRemove, Placed, SubsOf
  <2> QED
    BY <2>1, <2>2, AwaySubs DEF Away
<1>30. ASSUME NEW t \in Thread, Shut(t)
      PROVE  Subs'
  <2>1. /\ Moved(t) /\ t \in Thread /\ UNCHANGED <<clients, fd_map, buckets>>
        /\ \A d \in Client : /\ mem'[d].topics = mem[d].topics
                             /\ mem[d].is_active /\ client_lock[d] # None => mem'[d].is_active
    BY <1>0, <1>30, ShutEffect, ThreadsTyped DEF Shut, tables, Types
  <2>2. /\ {th[t].pc, th'[t].pc} \cap {"record", "unsubscribe"} = {}
        /\ th'[t].pc \in Subscribing => fd_map[th'[t].fd] = th'[t].cl
        /\ th'[t].pc \in Walking =>
             \/ th'[t].todo \subseteq Listed(t)'
             \/ /\ th[t].pc \in Walking /\ th'[t].todo \subseteq th[t].todo
                /\ th'[t].op = th[t].op /\ th'[t].key = th[t].key
        /\ th'[t].pc = "send" => mem'[th'[t].cl].is_active
    BY <1>0, <1>30, ShutEffect, RestingFields DEF Rested, Subscribing, Walking
  <2> QED
    BY <2>1, <2>2, AwaySubs DEF Away
<1>31. CASE Wake
  <2>1. /\ Moved(Maint) /\ Maint \in Thread /\ UNCHANGED <<clients, fd_map, buckets>>
        /\ \A d \in Client : /\ mem'[d].topics = mem[d].topics
                             /\ mem[d].is_active /\ client_lock[d] # None => mem'[d].is_active
    BY <1>0, <1>31, WakeEffect, ThreadsTyped DEF Wake, tables, Types
  <2>2. /\ {th[Maint].pc, th'[Maint].pc} \cap {"record", "unsubscribe"} = {}
        /\ th'[Maint].pc \in Subscribing => fd_map[th'[Maint].fd] = th'[Maint].cl
        /\ th'[Maint].pc \in Walking =>
             \/ th'[Maint].todo \subseteq Listed(Maint)'
             \/ /\ th[Maint].pc \in Walking /\ th'[Maint].todo \subseteq th[Maint].todo
                /\ th'[Maint].op = th[Maint].op /\ th'[Maint].key = th[Maint].key
        /\ th'[Maint].pc = "send" => mem'[th'[Maint].cl].is_active
    BY <1>0, <1>31, <2>1, WakeEffect, RestingFields, ThreadsTyped
       DEF Wake, Listed, Rested, Kept, KeptAll, Subscribing, Walking, Removal, tables,
           ClientOps, BridgeOps, AfterRemove, Placed, SubsOf
  <2> QED
    BY <2>1, <2>2, AwaySubs DEF Away
<1>32. CASE Collect
  <2>1. /\ Moved(Maint) /\ Maint \in Thread /\ UNCHANGED <<clients, fd_map, buckets>>
        /\ \A d \in Client : /\ mem'[d].topics = mem[d].topics
                             /\ mem[d].is_active /\ client_lock[d] # None => mem'[d].is_active
    BY <1>0, <1>32, CollectEffect, ThreadsTyped DEF Collect, tables, Types
  <2>2. /\ {th[Maint].pc, th'[Maint].pc} \cap {"record", "unsubscribe"} = {}
        /\ th'[Maint].pc \in Subscribing => fd_map[th'[Maint].fd] = th'[Maint].cl
        /\ th'[Maint].pc \in Walking =>
             \/ th'[Maint].todo \subseteq Listed(Maint)'
             \/ /\ th[Maint].pc \in Walking /\ th'[Maint].todo \subseteq th[Maint].todo
                /\ th'[Maint].op = th[Maint].op /\ th'[Maint].key = th[Maint].key
        /\ th'[Maint].pc = "send" => mem'[th'[Maint].cl].is_active
    BY <1>0, <1>32, <2>1, CollectEffect, RestingFields, ThreadsTyped
       DEF Collect, Listed, Rested, Kept, KeptAll, Subscribing, Walking,
           Removal, tables,
           ClientOps, BridgeOps, AfterRemove, Placed, SubsOf
  <2> QED
    BY <2>1, <2>2, AwaySubs DEF Away
<1>33. ASSUME NEW f \in Fd, ReapClose(f)
      PROVE  Subs'
  <2>1. /\ Moved(Maint) /\ Maint \in Thread /\ UNCHANGED <<clients, fd_map, buckets>>
        /\ \A d \in Client : /\ mem'[d].topics = mem[d].topics
                             /\ mem[d].is_active /\ client_lock[d] # None => mem'[d].is_active
    BY <1>0, <1>33, ReapCloseEffect, ThreadsTyped DEF ReapClose, tables, Types
  <2>2. /\ {th[Maint].pc, th'[Maint].pc} \cap {"record", "unsubscribe"} = {}
        /\ th'[Maint].pc \in Subscribing => fd_map[th'[Maint].fd] = th'[Maint].cl
        /\ th'[Maint].pc \in Walking =>
             \/ th'[Maint].todo \subseteq Listed(Maint)'
             \/ /\ th[Maint].pc \in Walking /\ th'[Maint].todo \subseteq th[Maint].todo
                /\ th'[Maint].op = th[Maint].op /\ th'[Maint].key = th[Maint].key
        /\ th'[Maint].pc = "send" => mem'[th'[Maint].cl].is_active
    BY <1>0, <1>33, <2>1, ReapCloseEffect, RestingFields, ThreadsTyped
       DEF ReapClose, Listed, Rested, Kept, KeptAll, Subscribing, Walking,
           Removal, tables,
           ClientOps, BridgeOps, AfterRemove, Placed, SubsOf
  <2> QED
    BY <2>1, <2>2, AwaySubs DEF Away
<1>34. CASE Reaped
  <2>1. /\ Moved(Maint) /\ Maint \in Thread /\ UNCHANGED <<clients, fd_map, buckets>>
        /\ \A d \in Client : /\ mem'[d].topics = mem[d].topics
                             /\ mem[d].is_active /\ client_lock[d] # None => mem'[d].is_active
    BY <1>0, <1>34, ReapedEffect, ThreadsTyped DEF Reaped, tables, Types
  <2>2. /\ {th[Maint].pc, th'[Maint].pc} \cap {"record", "unsubscribe"} = {}
        /\ th'[Maint].pc \in Subscribing => fd_map[th'[Maint].fd] = th'[Maint].cl
        /\ th'[Maint].pc \in Walking =>
             \/ th'[Maint].todo \subseteq Listed(Maint)'
             \/ /\ th[Maint].pc \in Walking /\ th'[Maint].todo \subseteq th[Maint].todo
                /\ th'[Maint].op = th[Maint].op /\ th'[Maint].key = th[Maint].key
        /\ th'[Maint].pc = "send" => mem'[th'[Maint].cl].is_active
    BY <1>0, <1>34, <2>1, ReapedEffect, RestingFields, ThreadsTyped
       DEF Reaped, Listed, Rested, Kept, KeptAll, Subscribing, Walking, Removal, tables,
           ClientOps, BridgeOps, AfterRemove, Placed, SubsOf
  <2> QED
    BY <2>1, <2>2, AwaySubs DEF Away
<1>35. ASSUME NEW c \in Client, Silence(c)
      PROVE  Subs'
  BY <1>0, <1>35, SilenceEffect, StillSubs DEF Silence
<1>36. CASE UNCHANGED vars
  BY <1>36, StillSubs DEF vars, tables
<1> QED
  BY <1>1, <1>2, <1>3, <1>4, <1>5, <1>6, <1>7, <1>8, <1>9, <1>10, <1>11, <1>12,
     <1>13, <1>14, <1>15, <1>16, <1>17, <1>18, <1>19, <1>20, <1>21, <1>22, <1>23,
     <1>24, <1>25, <1>26, <1>27, <1>28, <1>29, <1>30, <1>31, <1>32, <1>33, <1>34,
     <1>35, <1>36 DEF Next, Registry, Send, Leave, Maintain

(* What keeps a name fits what a client may send: the place a name is kept *)
(* under is the place it is found under.                                   *)
Fits == CutSlot = Slot

LEMMA StandingStart ==
  ASSUME Init
  PROVE  Names /\ NoReap /\ Subs
<1>0. /\ \A t \in Thread : th[t] = Resting
      /\ clients = {} /\ snatched = {} /\ \A c \in Client : mem[c] = Unborn
      /\ \A b \in Bucket : buckets[b] = {}
      /\ \A p \in Place : user_map[p] = <<>>
  BY DEF Init
<1>1. Names
  <2>1. \A p \in Place : DOMAIN user_map[p] = {}
    BY <1>0
  <2> QED
    BY <1>0, <2>1 DEF Names, Distinct, In
<1>2. NoReap
  BY <1>0, RestingFields, ThreadsTyped DEF NoReap, Removal
<1>3. Subs
  BY <1>0, RestingFields DEF Subs, SubsOf, SubsIn, SubsRecorded, Subscribing, Walking
<1> QED
  BY <1>1, <1>2, <1>3

(* A client in a slot is named by its record alone, whatever the reaper    *)
(* does and however many clients there are.                                *)
THEOREM NamesCorrect == ASSUME Fits PROVE Spec => [](Books /\ Names)
<1>1. Init => Books /\ Names
  BY BooksStart, StandingStart
<1>2. (Books /\ Names) /\ [Next]_vars => (Books /\ Names)'
  BY BooksStep, NamesStep DEF Fits
<1> QED
  BY <1>1, <1>2, PTL DEF Spec

(* A subscriber is on record with its client, and a client that is         *)
(* subscribed or sent to has a slot, while no client falls silent: the     *)
(* inductive invariant of the topics.                                      *)
THEOREM SubsCorrect ==
  ASSUME Quiet, Room
  PROVE  Spec => [](Books /\ NoReap /\ Subs)
<1>1. Init => Books /\ NoReap /\ Subs
  BY BooksStart, StandingStart
<1>2. (Books /\ NoReap /\ Subs) /\ [Next]_vars => (Books /\ NoReap /\ Subs)'
  BY BooksStep, NoReapStep, SubsStep
<1> QED
  BY <1>1, <1>2, PTL DEF Spec

LEMMA NamedThen == ASSUME Books, Names PROVE NamedOnce
<1> SUFFICES ASSUME NEW c \in clients, ~Removing(c), NEW p \in Place
             PROVE  Cardinality({i \in DOMAIN user_map[p] : user_map[p][i] = c})
                      = IF mem[c].user_id # None /\ p = Slot[mem[c].user_id] THEN 1 ELSE 0
  BY DEF NamedOnce
<1> DEFINE I == {i \in DOMAIN user_map[p] : user_map[p][i] = c}
<1>1. c \in Client /\ ~Unnaming(c)
  BY DEF Books, Shape, Types, Removing, Unnaming
<1>2. CASE mem[c].user_id # None /\ p = Slot[mem[c].user_id]
  <2>1. In(c, user_map[p]) /\ Distinct(user_map[p])
    BY <1>1, <1>2 DEF Names
  <2>2. PICK i \in DOMAIN user_map[p] : user_map[p][i] = c
    BY <2>1 DEF In
  <2>3. I = {i}
    BY <2>1, <2>2 DEF Distinct
  <2> HIDE DEF I
  <2>4. Cardinality(I) = 1
    BY <2>3, FS_Singleton
  <2> QED
    BY <1>2, <2>4 DEF I
<1>3. CASE ~(mem[c].user_id # None /\ p = Slot[mem[c].user_id])
  <2>1. ~In(c, user_map[p])
    BY <1>1, <1>3 DEF Names
  <2>2. I = {}
    BY <2>1 DEF In
  <2> HIDE DEF I
  <2>3. Cardinality(I) = 0
    BY <2>2, FS_EmptySet
  <2> QED
    BY <1>3, <2>3 DEF I
<1> QED
  BY <1>2, <1>3

LEMMA SubscribedThen == ASSUME Books, Subs PROVE Subscribed
<1> SUFFICES ASSUME NEW c \in clients, NEW b \in Bucket, ~Removing(c)
             PROVE  \/ c \in buckets[b] <=> \E k \in mem[c].topics : Hash[k] = b
                    \/ \E t \in Thread : th[t].pc = "record" /\ th[t].cl = c
  BY DEF Subscribed
<1>1. c \in buckets[b] => \/ \E k \in mem[c].topics : Hash[k] = b
                          \/ \E t \in Thread : th[t].pc = "record" /\ th[t].cl = c
  BY DEF Subs, SubsIn, Justified
<1>2. \A k \in mem[c].topics : Hash[k] = b => c \in buckets[b]
  BY DEF Subs, SubsRecorded, Removing
<1> QED
  BY <1>1, <1>2

(* What a client recorded, its name and its topics, is where the tables    *)
(* have it, at any number of threads and clients: ws_registry_remove, which*)
(* walks the record, leaves nothing behind.  A name that is cut short, or  *)
(* one topic too many, breaks it.                                          *)
THEOREM RecordedCorrect ==
  ASSUME Fits, Quiet, Room
  PROVE  Spec => []Recorded
<1>1. Spec => [](Books /\ Names) /\ [](Books /\ NoReap /\ Subs)
  BY NamesCorrect, SubsCorrect
<1>2. Books /\ Names /\ Subs => Recorded
  BY NamedThen, SubscribedThen DEF Recorded
<1> QED
  BY <1>1, <1>2, PTL

(* Who sends to a client, or is about to subscribe or remove it, has one   *)
(* that is registered.                                                     *)
LEMMA AtHand ==
  ASSUME Books, Subs, NEW t \in Thread,
         th[t].pc \in {"send"} \cup Subscribing \cup Removal
  PROVE  th[t].cl \in clients /\ mem[th[t].cl].st = "live"
<1>0. Types /\ Slots /\ Placed(t) /\ SubsOf(t)
  BY DEF Books, Shape, Tidy, Subs
<1>1. CASE th[t].pc = "send"
  <2>1. th[t].cl \in Client /\ th[t].cl \in Listed(t)
    BY <1>0, <1>1 DEF Placed, SubsOf, OnClient, Walking
  <2>2. th[t].cl \in clients
    <3>1. CASE th[t].op = "pub"
      <4>1. Hash[th[t].key] \in Bucket
        BY <1>0, <3>1, HashTyped DEF Placed
      <4> QED
        BY <2>1, <3>1, <4>1 DEF Listed, Subs, SubsIn
    <3> QED
      BY <2>1, <3>1 DEF Listed
  <2> QED
    BY <1>0, <2>1, <2>2 DEF Slots
<1>2. CASE th[t].pc \in Subscribing \cup Removal
  <2>1. th[t].fd \in Fd /\ th[t].cl \in Client
    BY <1>0, <1>2 DEF Placed, OnFd, OnClient
  <2>2. fd_map[th[t].fd] = th[t].cl
    BY <1>0, <1>2 DEF Slots, SubsOf
  <2> QED
    BY <1>0, <2>1, <2>2, ThreadsTyped DEF Slots
<1> QED
  BY <1>1, <1>2

(* Whoever writes under client_lock writes to a client whose removal has   *)
(* not begun, on the connection it came with.                              *)
THEOREM LockedWriteCorrect ==
  ASSUME Quiet, Room
  PROVE  Spec => []LockedWrite
<1>1. ASSUME Books, NoReap, Subs PROVE LockedWrite
  <2> SUFFICES ASSUME NEW t \in Thread, th[t].pc = "send"
               PROVE  /\ mem[th[t].cl].st = "live" /\ mem[th[t].cl].is_active
                      /\ client_lock[th[t].cl] = t
                      /\ conn[mem[th[t].cl].fd] = th[t].cl \/ snatched # {}
    BY DEF LockedWrite
  <2>1. th[t].cl \in clients /\ mem[th[t].cl].st = "live"
    BY <1>1, AtHand
  <2>2. mem[th[t].cl].is_active
    BY <1>1 DEF Subs, SubsOf
  <2>3. client_lock[th[t].cl] = t
    BY <1>1, <2>1 DEF Books, Shape, Types, LocksInv, HeldRight, InClient
  <2>4. conn[mem[th[t].cl].fd] = th[t].cl
    BY <1>1, <2>1 DEF NoReap, Books, Tidy, Serving
  <2> QED
    BY <2>1, <2>2, <2>3, <2>4
<1> QED
  BY <1>1, SubsCorrect, PTL

(* No client that was freed is reachable from a table, or in use by a      *)
(* thread, at any number of threads, descriptors, clients and names.       *)
THEOREM NoDanglingCorrect ==
  ASSUME Fits, Quiet, Room
  PROVE  Spec => []NoDangling
<1>1. ASSUME Books, Names, Subs PROVE NoDangling
  <2> SUFFICES ASSUME NEW c \in Client, mem[c].st = "freed", Reachable(c) PROVE FALSE
    BY DEF NoDangling
  <2>0. Types /\ Slots
    BY <1>1 DEF Books, Shape, Tidy
  <2>1. c \notin clients
    BY <2>0 DEF Slots
  <2>2. \A f \in Fd : fd_map[f] # c
    BY <2>0, <2>1, ThreadsTyped DEF Slots
  <2>3. \A b \in Bucket : c \notin buckets[b]
    BY <1>1, <2>1 DEF Subs, SubsIn
  <2>4. \A p \in Place : c \notin ToSet(user_map[p])
    BY <1>1, <2>1 DEF Names, In, ToSet
  <2>5. \A t \in Thread : th[t].pc \in {"insert", "record", "send", "deactivate", "forget"}
                            => th[t].cl # c
    BY <1>1, <2>1, AtHand DEF Subscribing, Removal
  <2> QED
    BY <2>1, <2>2, <2>3, <2>4, <2>5 DEF Reachable
<1>2. Spec => [](Books /\ Names) /\ [](Books /\ NoReap /\ Subs)
  BY NamesCorrect, SubsCorrect
<1> QED
  BY <1>1, <1>2, PTL
=============================================================================
