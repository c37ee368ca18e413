----------------------------- MODULE FcgiPoolProps -----------------------------
(***************************************************************************)
(* What the pool of backend connections promises.                          *)
(***************************************************************************)
EXTENDS FcgiPool

Point == {"idle", "quota", "reuse", "create", "store", "params",
          "stdin", "recv", "splice", "stalled", "discard", "release"}
Acquiring == {"idle", "quota", "reuse", "create"}

Socket  == [open : BOOLEAN, home : Node, alive : BOOLEAN,
            owed : Seq([req : Request, begun : BOOLEAN]),
            out : Seq([req : Request, kind : {"stdout", "redirect", "end"}])]
Session == [req : 0 .. MaxRequest, node : Node, fd : Fd \cup {NoFd},
            http : {"http1", "http2", "none"}, body : Nat, attempt : 0 .. Attempts,
            got : 0 .. MaxRequest]

(* The type invariant; a session that got past acquire has a descriptor.   *)
TypeOK ==
  /\ sock \in [Fd -> Socket]
  /\ connections \in [Slot -> [sockfd : Fd \cup {NoFd}, in_use : BOOLEAN, node : Node]]
  /\ active_counts \in [Backend -> Int]
  /\ pc \in [Thread -> Point]
  /\ ses \in [Thread -> Session]
  /\ asked \in 0 .. MaxRequest
  /\ \A t \in Thread : /\ pc[t] # "idle" => ses[t].req \in Request
                       /\ pc[t] \notin Acquiring => ses[t].fd \in Fd

Reusing(b) == {t \in Thread : pc[t] = "reuse" /\ AcquireIndex(ses[t].node) = b}

(* The quota of a backend is exceeded only by requests that passed the     *)
(* first check together: by fewer than there are threads, however often    *)
(* they come back and whatever is lost.  fcgi_pool_conn_acquire, two       *)
(* checks.                                                                 *)
OverQuota ==
  \A b \in Backend :
    active_counts[b] + Cardinality(Reusing(b)) <= Quota[b] + Cardinality(Thread) - 1

Talking == {t \in Thread : pc[t] \in {"params", "stdin", "recv", "splice", "stalled"}}

(* Two sessions never talk on the same descriptor, and each talks on an    *)
(* open connection: acquire hands out each socket once.                    *)
OneHolder ==
  \A t \in Talking :
    /\ Peer(t).open
    /\ \A u \in Talking : ses[u].fd = ses[t].fd => u = t

(* A slot of the pool has a number of its own, open, that leads to the     *)
(* node the slot names; it is marked in use when a session has it.         *)
SlotHome ==
  \A i \in Slot : connections[i].sockfd # NoFd =>
    LET f == connections[i].sockfd
    IN  /\ sock[f].open
        /\ sock[f].home = connections[i].node
        /\ \A j \in Slot : connections[j].sockfd = f => j = i
        /\ (\E t \in Talking : ses[t].fd = f) => connections[i].in_use

(* The score of a group is the number of its connections in use: what the  *)
(* adaptive quota is compared with.                                        *)
CountsExact ==
  \A b \in Backend :
    active_counts[b] = Cardinality({i \in Slot : /\ connections[i].in_use
                                                 /\ Group[connections[i].node] = b})

(* A client is answered with the response to its own request: what is left *)
(* of an earlier one never reaches the next user of the connection.        *)
AnswerOwn ==
  \A t \in Thread : ses[t].got # 0 => ses[t].got = ses[t].req

(* An HTTP/1 session reads END_REQUEST only behind its own response: it    *)
(* is never taken for complete with nothing sent to the client.            *)
NeverEmpty == [][\A t \in Thread : ReadEnd(t) => ses[t].got = ses[t].req]_vars

(* The node that serves a request is the one the load balancer chose.      *)
SentHome ==
  \A t \in Talking : Peer(t).open => Peer(t).home = ses[t].node

(* No connection is lost: each open socket is in a slot or in the hands of *)
(* a session.                                                              *)
NoneLost ==
  \A f \in Fd : sock[f].open =>
    \/ \E i \in Slot : connections[i].sockfd = f
    \/ \E t \in Thread : ses[t].fd = f

(* The reader gives a backend that is still connected its 30 seconds: it   *)
(* does not fail in the middle of a response.                              *)
Patient ==
  [][\A t \in Thread : ReadFails(t) => ~Peer(t).alive]_vars

(* Every HTTP/1 request ends, whatever the backends do, unless its reader  *)
(* stalls for ever inside a record.  (An HTTP/2 request may wait for its   *)
(* backend as long as its client stays.)                                   *)
Ends ==
  \A t \in Thread :
    []<>(pc[t] # "stalled") => (pc[t] # "idle" /\ IsHttp1(t) ~> pc[t] = "idle")

(* The pool, the sockets and the sessions tell the same story: who holds a  *)
(* socket, where it leads, that none is lost, and how many are in use.     *)
PoolSound == OneHolder /\ SlotHome /\ NoneLost /\ CountsExact
=============================================================================
