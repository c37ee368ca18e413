------------------------------ MODULE WsRegistry ------------------------------
(***************************************************************************)
(* The registry of WebSocket clients, halmos_ws_registry.c, and what       *)
(* halmos_ws_system.c does with it: upgrade, dispatch of a client's        *)
(* message, messages from the IPC bridge, cleanup, heartbeat and reaper.   *)
(*                                                                         *)
(* A section under a mutex is one action.  A mutex is a variable where a   *)
(* thread waits or sends while it holds one: registry_lock, hash_lock, the *)
(* topic_lock of a bucket, the client_lock of a client.  user_map_lock     *)
(* never is held that long.                                                *)
(*                                                                         *)
(* Only HTTP/1 upgrades register: nothing calls ws_registry_add_h2.  A     *)
(* client is named by the connection it came with, so clients that follow  *)
(* each other on one descriptor differ.                                    *)
(***************************************************************************)
EXTENDS Integers, Sequences, FiniteSets, SequencesExt

CONSTANTS
  Worker,           (* threads that dispatch                                *)
  Bridge, Maint,    (* main, which serves the bridge; the maintenance thread*)
  None,             (* NULL                                                 *)
  Fd,               (* descriptors                                          *)
  Topic, Hash,      (* topic keys and hash_topic                            *)
  Name,             (* user ids ...                                         *)
  Slot, CutSlot,    (* ... their place in user_map, and the place of what   *)
                    (* strncpy keeps of them                                *)
  Ops,              (* what clients and the bridge do                       *)
  MaxClients,       (* MAX_WS_CLIENTS                                       *)
  MaxTopics,        (* MAX_TOPICS_PER_USER                                  *)
  MaxConn           (* bound: connections ever accepted                     *)

Thread == Worker \cup {Bridge, Maint}
Client == 1 .. MaxConn
Bucket == {Hash[k] : k \in Topic}
Place  == {Slot[n] : n \in Name} \cup {CutSlot[n] : n \in Name}
Key    == Topic \cup Name \cup {None}

ClientOps == {"auth", "private", "broadcast", "pub", "sub", "pong", "close"}
BridgeOps == {"ipc", "broadcast", "identity"}

ASSUME RegistryAssumption ==
  /\ {MaxClients, MaxTopics, MaxConn} \subseteq Nat
  /\ Bridge # Maint /\ {Bridge, Maint} \cap Worker = {}
  /\ None \notin Thread \cup Fd \cup Client \cup Topic \cup Name
  /\ None \notin ClientOps \cup BridgeOps \cup {"add", "flag", "heartbeat"}
  /\ Topic \cap Name = {}
  /\ Ops \subseteq ClientOps \cup BridgeOps \cup {"silent"}

VARIABLES
  mem,              (* HalmosWSClient                                       *)
  clients,          (* registry.clients, the slots in use                   *)
  fd_map, current_count,
  buckets,          (* the subscribers of each topic bucket                 *)
  user_map,
  ws_fd_map,        (* halmos_is_websocket_fd                               *)
  conn, accepted,   (* the connection behind each descriptor, 0 if closed   *)
  upgraded,         (* the connections that asked for a WebSocket           *)
  snatched,         (* the connections the reaper closed                    *)
  registry_lock, hash_lock, topic_lock, client_lock,
  th                (* what each thread is doing                            *)

tables == <<mem, clients, fd_map, current_count, buckets, user_map>>
locks  == <<registry_lock, hash_lock, topic_lock, client_lock>>
net    == <<ws_fd_map, conn, accepted, upgraded, snatched>>
vars   == <<tables, net, locks, th>>

(* st: not allocated, live, freed by the owner of the connection, or freed *)
(* by the reaper; the descriptor of a freed client is kept for the reader. *)
Unborn == [st |-> "none", fd |-> None, is_active |-> FALSE, seen |-> FALSE,
           user_id |-> None, topics |-> {}]

(* pc: the next step; op: what for; fd: the descriptor served; cl: the     *)
(* client at hand; key: topic or name; todo: clients or topics to visit;   *)
(* dead: the descriptors the reaper collected.                             *)
Resting == [pc |-> "idle", op |-> None, fd |-> None, cl |-> 0,
            key |-> None, todo |-> {}, dead |-> {}]

At(t, p)   == th[t].pc = p
Goto(t, p) == th' = [th EXCEPT ![t].pc = p]
Rest(t)    == th' = [th EXCEPT ![t] = Resting]
Free(lock) == lock = None

Found(t)  == fd_map[th[t].fd]
Active(c) == c # None /\ mem[c].is_active

-----------------------------------------------------------------------------
(* ws_registry_init: nobody is registered.                                 *)
Init ==
  /\ mem = [c \in Client |-> Unborn]
  /\ clients = {} /\ current_count = 0
  /\ fd_map = [f \in Fd |-> None]
  /\ buckets = [b \in Bucket |-> {}]
  /\ user_map = [p \in Place |-> <<>>]
  /\ ws_fd_map = [f \in Fd |-> FALSE]
  /\ conn = [f \in Fd |-> 0] /\ accepted = 0
  /\ upgraded = {} /\ snatched = {}
  /\ registry_lock = None /\ hash_lock = None
  /\ topic_lock = [b \in Bucket |-> None]
  /\ client_lock = [c \in Client |-> None]
  /\ th = [t \in Thread |-> Resting]

(* A connection is accepted; the kernel reuses descriptors.                *)
Accept(f) ==
  /\ conn[f] = 0 /\ accepted < MaxConn
  /\ accepted' = accepted + 1
  /\ conn' = [conn EXCEPT ![f] = accepted']
  /\ UNCHANGED <<tables, locks, ws_fd_map, upgraded, snatched, th>>

Turn(t, f, c, op, k) ==
  th' = [th EXCEPT ![t] = [Resting EXCEPT !.pc = op, !.op = op, !.fd = f,
                                          !.cl = c, !.key = k]]

KeysOf(op) == CASE op \in {"pub", "sub"} -> Topic
                [] op \in {"auth", "private", "ipc", "identity"} -> Name
                [] OTHER -> {None}

(* An event on a connection: one worker at a time has it, EPOLLONESHOT.    *)
CanServe(t, f) ==
  /\ At(t, "idle") /\ conn[f] # 0
  /\ \A u \in Worker : th[u].fd # f

(* http1_manager_routing_bridge: an upgrade request, or a client that goes.*)
(* Whether ws_upgrade_handshake succeeds is not looked at.                 *)
Http(t, f) ==
  /\ CanServe(t, f) /\ ~ws_fd_map[f]
  /\ \/ /\ \E p \in {"add", "flag"} : Turn(t, f, conn[f], p, None)
        /\ upgraded' = upgraded \cup {conn[f]}
     \/ Turn(t, f, 0, "close", None) /\ UNCHANGED upgraded
  /\ UNCHANGED <<tables, locks, ws_fd_map, conn, accepted, snatched>>

(* ws_system_dispatch, ws_system_on_message: a frame of the client.        *)
Message(t, f) ==
  /\ CanServe(t, f) /\ ws_fd_map[f]
  /\ \E op \in Ops \cap ClientOps : \E k \in KeysOf(op) : Turn(t, f, 0, op, k)
  /\ UNCHANGED <<tables, locks, net>>

(* ws_system_internal_dispatch: a message of a backend.  SET_IDENTITY      *)
(* names any descriptor.                                                   *)
Internal ==
  /\ At(Bridge, "idle")
  /\ \E op \in Ops \cap BridgeOps : \E k \in KeysOf(op) :
       IF op = "identity" THEN \E f \in Fd : Turn(Bridge, f, 0, "auth", k)
                          ELSE Turn(Bridge, None, 0, op, k)
  /\ UNCHANGED <<tables, locks, net>>

-----------------------------------------------------------------------------
(***************************************************************************)
(* Registration, activity, identity and subscription.                      *)
(***************************************************************************)

(* ws_registry_add, then the broadcast of ws_upgrade_handshake; a client   *)
(* that finds no slot goes on unregistered.                                *)
Add(t) ==
  /\ At(t, "add") /\ Free(registry_lock)
  /\ IF Cardinality(clients) < MaxClients
     THEN LET c == th[t].cl
          IN  /\ mem' = [mem EXCEPT ![c] = [Unborn EXCEPT
                           !.st = "live", !.fd = th[t].fd, !.is_active = TRUE, !.seen = TRUE]]
              /\ clients' = clients \cup {c}
              /\ fd_map' = [fd_map EXCEPT ![th[t].fd] = c]
              /\ current_count' = current_count + 1
              /\ Goto(t, "broadcast")
     ELSE /\ Goto(t, "flag")
          /\ UNCHANGED <<mem, clients, fd_map, current_count>>
  /\ UNCHANGED <<buckets, user_map, locks, net>>

(* halmos_set_websocket_fd, by the handshake and by its caller.            *)
SetFlag(t) ==
  /\ At(t, "flag")
  /\ ws_fd_map' = [ws_fd_map EXCEPT ![th[t].fd] = TRUE]
  /\ Rest(t)
  /\ UNCHANGED <<tables, locks, conn, accepted, upgraded, snatched>>

(* ws_registry_update_activity.                                            *)
UpdateActivity(t) ==
  /\ At(t, "pong") /\ Free(registry_lock)
  /\ mem' = IF Found(t) = None THEN mem ELSE [mem EXCEPT ![Found(t)].seen = TRUE]
  /\ Rest(t)
  /\ UNCHANGED <<clients, fd_map, current_count, buckets, user_map, locks, net>>

Without(list, c) == RemoveFirst(list, c) (* the first node of c goes       *)

(* ws_registry_set_user_id: the old node is looked for where what was kept *)
(* of the id hashes to, the new one goes where the whole id does.          *)
SetUserId(t) ==
  /\ At(t, "auth") /\ Free(registry_lock)
  /\ IF Active(Found(t))
     THEN LET c   == Found(t)
              old == mem[c].user_id
              kept == IF old = None THEN user_map
                     ELSE [user_map EXCEPT ![CutSlot[old]] = Without(@, c)]
          IN  /\ mem' = [mem EXCEPT ![c].user_id = th[t].key]
              /\ user_map' = [kept EXCEPT ![Slot[th[t].key]] = <<c>> \o @]
     ELSE UNCHANGED <<mem, user_map>>
  /\ Rest(t)
  /\ UNCHANGED <<clients, fd_map, current_count, buckets, locks, net>>

(* ws_registry_add_to_topic: the client is looked up ...                   *)
SubFind(t) ==
  /\ At(t, "sub") /\ Free(registry_lock)
  /\ IF Active(Found(t))
     THEN th' = [th EXCEPT ![t].cl = Found(t), ![t].pc = "subscribe"]
     ELSE Rest(t)
  /\ UNCHANGED <<tables, locks, net>>

(* ... the bucket under hash_lock, made if it was not there ...            *)
SubBucket(t) ==
  /\ At(t, "subscribe") /\ Free(hash_lock)
  /\ Goto(t, "insert")
  /\ UNCHANGED <<tables, locks, net>>

(* ... the subscriber is inserted unless there is one ...                  *)
SubInsert(t) ==
  LET b == Hash[th[t].key]
  IN  /\ At(t, "insert") /\ Free(topic_lock[b])
      /\ IF th[t].cl \in buckets[b]
         THEN Rest(t) /\ UNCHANGED buckets
         ELSE /\ buckets' = [buckets EXCEPT ![b] = @ \cup {th[t].cl}]
              /\ Goto(t, "record")
      /\ UNCHANGED <<mem, clients, fd_map, current_count, user_map, locks, net>>

(* Fault: the topic is not recorded. *)
SubRecordNothing(t) ==
  /\ At(t, "record") /\ Free(client_lock[th[t].cl])
  /\ Rest(t)
  /\ UNCHANGED <<tables, locks, net>>

(* ... and the topic recorded with the client, if there is room.           *)
SubRecord(t) ==
  LET c == th[t].cl
  IN  /\ At(t, "record") /\ Free(client_lock[c])
      /\ mem' = IF Cardinality(mem[c].topics) < MaxTopics
                THEN [mem EXCEPT ![c].topics = @ \cup {th[t].key}] ELSE mem
      /\ Rest(t)
      /\ UNCHANGED <<clients, fd_map, current_count, buckets, user_map, locks, net>>

-----------------------------------------------------------------------------
(***************************************************************************)
(* Sending to clients: ws_registry_broadcast and ws_registry_heartbeat     *)
(* walk over the slots under registry_lock, ws_registry_publish over a     *)
(* bucket under its topic_lock; each write is made under the client_lock.  *)
(***************************************************************************)

Walk(t, S) == th' = [th EXCEPT ![t].todo = S, ![t].pc = "walk"]

WalkClients(t) ==
  /\ th[t].pc \in {"broadcast", "heartbeat"} /\ Free(registry_lock)
  /\ registry_lock' = t
  /\ Walk(t, {c \in clients : mem[c].is_active})
  /\ UNCHANGED <<tables, net, hash_lock, topic_lock, client_lock>>

(* ws_registry_publish reads the bucket under hash_lock ...                *)
PubBucket(t) ==
  /\ At(t, "pub") /\ Free(hash_lock)
  /\ Goto(t, "publish")
  /\ UNCHANGED <<tables, locks, net>>

(* ... and walks over it.                                                  *)
WalkBucket(t) ==
  LET b == Hash[th[t].key]
  IN  /\ At(t, "publish") /\ Free(topic_lock[b])
      /\ topic_lock' = [topic_lock EXCEPT ![b] = t]
      /\ Walk(t, buckets[b])
      /\ UNCHANGED <<tables, net, registry_lock, hash_lock, client_lock>>

Casting(t) == th[t].op \in {"add", "broadcast"}

(* An active client is locked and written to; broadcast passes over one    *)
(* that is locked (trylock), the others wait for it.                       *)
Visit(t, c) ==
  /\ At(t, "walk") /\ c \in th[t].todo
  /\ IF mem[c].is_active /\ Free(client_lock[c])
     THEN /\ client_lock' = [client_lock EXCEPT ![c] = t]
          /\ th' = [th EXCEPT ![t].cl = c, ![t].pc = "send"]
     ELSE /\ mem[c].is_active => Casting(t)
          /\ th' = [th EXCEPT ![t].todo = @ \ {c}]
          /\ UNCHANGED client_lock
  /\ UNCHANGED <<tables, net, registry_lock, hash_lock, topic_lock>>

Sent(t) ==
  /\ At(t, "send")
  /\ client_lock' = [client_lock EXCEPT ![th[t].cl] = None]
  /\ th' = [th EXCEPT ![t].todo = @ \ {th[t].cl}, ![t].pc = "walk"]
  /\ UNCHANGED <<tables, net, registry_lock, hash_lock, topic_lock>>

Walked(t) ==
  /\ At(t, "walk") /\ th[t].todo = {}
  /\ IF th[t].op = "pub"
     THEN /\ topic_lock' = [topic_lock EXCEPT ![Hash[th[t].key]] = None]
          /\ UNCHANGED registry_lock
     ELSE registry_lock' = None /\ UNCHANGED topic_lock
  /\ CASE th[t].op = "add"       -> Goto(t, "flag")
       [] th[t].op = "heartbeat" -> Goto(t, "reap")
       [] OTHER                  -> Rest(t)
  /\ UNCHANGED <<tables, net, hash_lock, client_lock>>

(* ACT_PRIVATE and the bridge look the user up: ws_registry_get_session_info. *)
FindUser(t) ==
  LET list == user_map[Slot[th[t].key]]
      node == SelectInSeq(list, LAMBDA c : mem[c].is_active /\ mem[c].user_id = th[t].key)
  IN  /\ th[t].pc \in {"private", "ipc"}
      /\ IF node = 0 \/ Slot[th[t].key] # CutSlot[th[t].key]
         THEN Rest(t)
         ELSE th' = [th EXCEPT ![t].cl = list[node],
                               ![t].pc = IF At(t, "ipc") THEN "validate" ELSE "write"]
      /\ UNCHANGED <<tables, locks, net>>

(* Only the bridge has ws_registry_validate_session look at the session.   *)
Validate(t) ==
  /\ At(t, "validate") /\ Free(registry_lock)
  /\ IF fd_map[mem[th[t].cl].fd] = th[t].cl /\ mem[th[t].cl].is_active
     THEN Goto(t, "write") ELSE Rest(t)
  /\ UNCHANGED <<tables, locks, net>>

(* ws_system_send_text, with no lock held.                                 *)
Written(t) ==
  /\ At(t, "write")
  /\ Rest(t)
  /\ UNCHANGED <<tables, locks, net>>

-----------------------------------------------------------------------------
(***************************************************************************)
(* core_event_loop_cleanup_connection calls ws_system_cleanup_fd and then  *)
(* closes the descriptor; ws_registry_remove holds registry_lock.          *)
(***************************************************************************)

Cleanup(t) ==
  /\ At(t, "close")
  /\ Goto(t, IF ws_fd_map[th[t].fd] THEN "remove" ELSE "shut")
  /\ UNCHANGED <<tables, locks, net>>

AfterRemove(t) == IF t = Maint THEN "reaping" ELSE "unflag"

RemoveFind(t) ==
  /\ At(t, "remove") /\ Free(registry_lock)
  /\ IF Found(t) = None
     THEN Goto(t, AfterRemove(t)) /\ UNCHANGED registry_lock
     ELSE /\ registry_lock' = t
          /\ th' = [th EXCEPT ![t].cl = Found(t), ![t].pc = "deactivate"]
  /\ UNCHANGED <<tables, net, hash_lock, topic_lock, client_lock>>

(* Fault: the client_lock is not waited for. *)
DeactivateUnlocked(t) ==
  /\ At(t, "deactivate")
  /\ mem' = [mem EXCEPT ![th[t].cl].is_active = FALSE]
  /\ Goto(t, "forget")
  /\ UNCHANGED <<clients, fd_map, current_count, buckets, user_map, locks, net>>

(* Fault: the client_lock is kept while the client is unlinked. *)
DeactivateKeepsLock(t) ==
  LET c == th[t].cl
  IN  /\ At(t, "deactivate") /\ Free(client_lock[c])
      /\ mem' = [mem EXCEPT ![c].is_active = FALSE]
      /\ client_lock' = [client_lock EXCEPT ![c] = t]
      /\ Goto(t, "forget")
      /\ UNCHANGED <<clients, fd_map, current_count, buckets, user_map,
                     registry_lock, hash_lock, topic_lock, net>>

Deactivate(t) ==
  LET c == th[t].cl
  IN  /\ At(t, "deactivate") /\ Free(client_lock[c])
      /\ mem' = [mem EXCEPT ![c].is_active = FALSE]
      /\ Goto(t, "forget")
      /\ UNCHANGED <<clients, fd_map, current_count, buckets, user_map, locks, net>>

(* The node in user_map goes, where what was kept of the id hashes to.     *)
ForgetUser(t) ==
  LET id == mem[th[t].cl].user_id
  IN  /\ At(t, "forget")
      /\ user_map' = IF id = None THEN user_map
                     ELSE [user_map EXCEPT ![CutSlot[id]] = Without(@, th[t].cl)]
      /\ Goto(t, "unhash")
      /\ UNCHANGED <<mem, clients, fd_map, current_count, buckets, locks, net>>

(* Fault: the last topic is passed over. *)
LockHashShort(t) ==
  LET known == mem[th[t].cl].topics
  IN  /\ At(t, "unhash") /\ Free(hash_lock)
      /\ hash_lock' = t
      /\ \E k \in known \cup {None} :
           th' = [th EXCEPT ![t].todo = known \ {k}, ![t].pc = "unsubscribe"]
      /\ UNCHANGED <<tables, net, registry_lock, topic_lock, client_lock>>

LockHash(t) ==
  /\ At(t, "unhash") /\ Free(hash_lock)
  /\ hash_lock' = t
  /\ th' = [th EXCEPT ![t].todo = mem[th[t].cl].topics, ![t].pc = "unsubscribe"]
  /\ UNCHANGED <<tables, net, registry_lock, topic_lock, client_lock>>

(* Each topic the client recorded.                                         *)
Unsubscribe(t, k) ==
  /\ At(t, "unsubscribe") /\ k \in th[t].todo /\ Free(topic_lock[Hash[k]])
  /\ buckets' = [buckets EXCEPT ![Hash[k]] = @ \ {th[t].cl}]
  /\ th' = [th EXCEPT ![t].todo = @ \ {k}]
  /\ UNCHANGED <<mem, clients, fd_map, current_count, user_map, locks, net>>

(* Fault: the slot stays taken. *)
ReleaseKeepsSlot(t) ==
  LET c == th[t].cl
  IN  /\ At(t, "unsubscribe") /\ th[t].todo = {}
      /\ fd_map' = [fd_map EXCEPT ![th[t].fd] = None]
      /\ current_count' = current_count - 1
      /\ mem' = [mem EXCEPT ![c] = [Unborn EXCEPT
                   !.st = IF t = Maint THEN "reaped" ELSE "freed", !.fd = mem[c].fd]]
      /\ registry_lock' = None /\ hash_lock' = None
      /\ Goto(t, AfterRemove(t))
      /\ UNCHANGED <<clients, buckets, user_map, topic_lock, client_lock, net>>

(* The slot and the entry of the descriptor are cleared, the client freed. *)
Release(t) ==
  LET c == th[t].cl
  IN  /\ At(t, "unsubscribe") /\ th[t].todo = {}
      /\ clients' = clients \ {c}
      /\ fd_map' = [fd_map EXCEPT ![th[t].fd] = None]
      /\ current_count' = current_count - 1
      /\ mem' = [mem EXCEPT ![c] = [Unborn EXCEPT
                   !.st = IF t = Maint THEN "reaped" ELSE "freed", !.fd = mem[c].fd]]
      /\ registry_lock' = None /\ hash_lock' = None
      /\ Goto(t, AfterRemove(t))
      /\ UNCHANGED <<buckets, user_map, topic_lock, client_lock, net>>

ClearFlag(t) ==
  /\ At(t, "unflag")
  /\ ws_fd_map' = [ws_fd_map EXCEPT ![th[t].fd] = FALSE]
  /\ Goto(t, "shut")
  /\ UNCHANGED <<tables, locks, conn, accepted, upgraded, snatched>>

Shut(t) ==
  /\ At(t, "shut")
  /\ conn' = [conn EXCEPT ![th[t].fd] = 0]
  /\ Rest(t)
  /\ UNCHANGED <<tables, locks, ws_fd_map, accepted, upgraded, snatched>>

-----------------------------------------------------------------------------
(***************************************************************************)
(* ws_system_maintenance_run: heartbeat, then reaper.                      *)
(***************************************************************************)

Wake ==
  /\ At(Maint, "idle")
  /\ Turn(Maint, None, 0, "heartbeat", None)
  /\ UNCHANGED <<tables, locks, net>>

(* 90 seconds without a PONG.                                              *)
Silence(c) ==
  /\ "silent" \in Ops /\ mem[c].seen
  /\ mem' = [mem EXCEPT ![c].seen = FALSE]
  /\ UNCHANGED <<clients, fd_map, current_count, buckets, user_map, locks, net, th>>

(* ws_registry_reaper collects the descriptors under registry_lock ...     *)
Collect ==
  /\ At(Maint, "reap") /\ Free(registry_lock)
  /\ th' = [th EXCEPT ![Maint].pc = "reaping",
              ![Maint].dead = {mem[c].fd : c \in {x \in clients :
                                 mem[x].is_active /\ ~mem[x].seen}}]
  /\ UNCHANGED <<tables, locks, net>>

(* ... and, with no lock, closes each and removes what it belongs to then. *)
ReapClose(f) ==
  /\ At(Maint, "reaping") /\ f \in th[Maint].dead
  /\ conn' = [conn EXCEPT ![f] = 0]
  /\ snatched' = snatched \cup ({conn[f]} \ {0})
  /\ th' = [th EXCEPT ![Maint].fd = f, ![Maint].dead = @ \ {f}, ![Maint].pc = "remove"]
  /\ UNCHANGED <<tables, locks, ws_fd_map, accepted, upgraded>>

Reaped ==
  /\ At(Maint, "reaping") /\ th[Maint].dead = {}
  /\ Rest(Maint)
  /\ UNCHANGED <<tables, locks, net>>

-----------------------------------------------------------------------------
Registry(t) ==
  \/ Add(t) \/ SetFlag(t) \/ UpdateActivity(t) \/ SetUserId(t)
  \/ SubFind(t) \/ SubBucket(t) \/ SubInsert(t) \/ SubRecord(t)

Send(t) ==
  \/ WalkClients(t) \/ PubBucket(t) \/ WalkBucket(t) \/ Sent(t) \/ Walked(t)
  \/ \E c \in Client : Visit(t, c)
  \/ FindUser(t) \/ Validate(t) \/ Written(t)

Leave(t) ==
  \/ Cleanup(t) \/ RemoveFind(t) \/ Deactivate(t) \/ ForgetUser(t) \/ LockHash(t)
  \/ \E k \in Topic : Unsubscribe(t, k)
  \/ Release(t) \/ ClearFlag(t) \/ Shut(t)

Maintain ==
  \/ Wake \/ Collect \/ Reaped
  \/ \E f \in Fd : ReapClose(f)

Next ==
  \/ \E f \in Fd : Accept(f)
  \/ \E t \in Worker, f \in Fd : Http(t, f) \/ Message(t, f)
  \/ Internal
  \/ \E t \in Thread : Registry(t) \/ Send(t) \/ Leave(t)
  \/ Maintain
  \/ \E c \in Client : Silence(c)

Spec == Init /\ [][Next]_vars
=============================================================================
