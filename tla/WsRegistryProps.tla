---------------------------- MODULE WsRegistryProps ----------------------------
(***************************************************************************)
(* What the registry of WebSocket clients promises.                        *)
(***************************************************************************)
EXTENDS WsRegistry

Step == {"idle", "add", "flag", "pong", "auth", "sub", "subscribe", "insert", "record",
         "broadcast", "heartbeat", "pub", "publish", "walk", "send",
         "private", "ipc", "validate", "write",
         "close", "remove", "deactivate", "forget", "unhash", "unsubscribe",
         "unflag", "shut", "reap", "reaping"}

(* The type invariant; the slots are never more than there are.            *)
TypeOK ==
  /\ mem \in [Client -> [st : {"none", "live", "freed", "reaped"}, fd : Fd \cup {None},
                         is_active : BOOLEAN, seen : BOOLEAN,
                         user_id : Name \cup {None}, topics : SUBSET Topic]]
  /\ clients \subseteq Client /\ Cardinality(clients) <= MaxClients
  /\ fd_map \in [Fd -> Client \cup {None}]
  /\ current_count \in 0 .. MaxClients
  /\ buckets \in [Bucket -> SUBSET Client]
  /\ user_map \in [Place -> Seq(Client)]
  /\ ws_fd_map \in [Fd -> BOOLEAN]
  /\ conn \in [Fd -> Client \cup {0}]
  /\ accepted \in 0 .. MaxConn
  /\ upgraded \cup snatched \subseteq Client
  /\ {registry_lock, hash_lock} \subseteq Thread \cup {None}
  /\ topic_lock \in [Bucket -> Thread \cup {None}]
  /\ client_lock \in [Client -> Thread \cup {None}]
  /\ th \in [Thread -> [pc : Step, op : Step \cup {None}, fd : Fd \cup {None},
                        cl : Client \cup {0}, key : Key,
                        todo : SUBSET (Client \cup Topic), dead : SUBSET Fd]]

Reachable(c) ==
  \/ c \in clients
  \/ \E f \in Fd : fd_map[f] = c
  \/ \E b \in Bucket : c \in buckets[b]
  \/ \E p \in Place : c \in ToSet(user_map[p])
  \/ \E t \in Thread : /\ th[t].pc \in {"insert", "record", "send", "deactivate", "forget"}
                       /\ th[t].cl = c

(* No client freed by its own cleanup is reachable from a table or in use  *)
(* by a thread: ws_registry_remove finds every pointer to it.              *)
NoDangling == \A c \in Client : mem[c].st = "freed" => ~Reachable(c)

(* The tables agree: a descriptor leads to a client that has a slot and    *)
(* that descriptor, the count is the number of slots, and a slot is found  *)
(* by its descriptor as long as the reaper has closed none.                *)
TablesAgree ==
  /\ current_count = Cardinality(clients)
  /\ \A f \in Fd : fd_map[f] # None => fd_map[f] \in clients /\ mem[fd_map[f]].fd = f
  /\ \A c \in clients : \/ fd_map[mem[c].fd] = c
                        \/ snatched # {}

Removing(c) ==
  \E t \in Thread : th[t].cl = c /\ th[t].pc \in {"forget", "unhash", "unsubscribe"}

(* A client is in user_map once if it has a name, under that name, and not *)
(* at all if it has none.                                                  *)
NamedOnce ==
  \A c \in clients : ~Removing(c) =>
    \A p \in Place : Cardinality({i \in DOMAIN user_map[p] : user_map[p][i] = c})
                       = IF mem[c].user_id # None /\ p = Slot[mem[c].user_id] THEN 1 ELSE 0

(* What a client recorded is where it is subscribed: ws_registry_remove    *)
(* relies on the record alone.                                             *)
Subscribed ==
  \A c \in clients, b \in Bucket : ~Removing(c) =>
    \/ c \in buckets[b] <=> \E k \in mem[c].topics : Hash[k] = b
    \/ \E t \in Thread : th[t].pc = "record" /\ th[t].cl = c

(* A connection is spoken to as a WebSocket only if it asked for one, as   *)
(* long as the reaper, which leaves the mark, has not closed one.          *)
FlagOwn ==
  \A f \in Fd : ws_fd_map[f] /\ conn[f] # 0 /\ snatched = {} => conn[f] \in upgraded

(* Whoever writes under client_lock writes to a client whose removal has   *)
(* not begun, and to its connection: it is not closed, let alone used      *)
(* again, until the write is done, as long as the reaper has closed none.  *)
LockedWrite ==
  \A t \in Thread : th[t].pc = "send" =>
    LET c == th[t].cl
    IN  /\ mem[c].st = "live" /\ mem[c].is_active
        /\ client_lock[c] = t
        /\ conn[mem[c].fd] = c \/ snatched # {}

(* The levels of the lock hierarchy in halmos_ws_registry.h.               *)
Held(t) ==
  {1 : x \in {x \in {1} : registry_lock = t}}
    \cup {2 : x \in {x \in {1} : hash_lock = t}}
    \cup {3 : b \in {b \in Bucket : topic_lock[b] = t}}
    \cup {5 : c \in {c \in Client : client_lock[c] = t}}

(* A lock is taken only by a thread that holds none of its level or of a   *)
(* level below: no cycle of waits can arise.                               *)
Hierarchy ==
  [][\A t \in Thread : \A l \in Held(t)' \ Held(t) : \A k \in Held(t) : k < l]_vars

(* A private message is written to the connection of the user it names.    *)
Addressed ==
  \A t \in Thread : th[t].pc = "write" => conn[mem[th[t].cl].fd] = th[t].cl
(* What a client recorded, its name and its topics, is where the tables     *)
(* have it: the removal walks the record alone.                            *)
Recorded == NamedOnce /\ Subscribed

(* The tables of the registry agree with each other, with their types and   *)
(* with the connections behind the descriptors.                            *)
Tables == TypeOK /\ TablesAgree /\ FlagOwn
=============================================================================
