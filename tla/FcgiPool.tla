------------------------------- MODULE FcgiPool -------------------------------
(***************************************************************************)
(* The pool of backend connections, halmos_fcgi_pool.c, and the FastCGI    *)
(* sessions that use it: halmos_fcgi_session.c and the response reader of  *)
(* halmos_fcgi_proto.c, driven by http1_manager_session (which polls for   *)
(* one session until it ends) or by http2_response_flush_active_streams.   *)
(*                                                                         *)
(* A thread here is whoever drives one request: a worker for HTTP/1, a     *)
(* stream for HTTP/2.  Connections are descriptor numbers, which the       *)
(* kernel reuses.  Requests have identities, which they lack on the wire:  *)
(* there every HTTP/1 request is number 1.                                 *)
(*                                                                         *)
(* A section under fcgi_pool.lock is one action; the quota test before it, *)
(* socket creation and each close() outside it are actions of their own.   *)
(* The bytes of a response are records: one STDOUT and one END_REQUEST.    *)
(***************************************************************************)
EXTENDS Integers, Sequences, FiniteSets

CONSTANTS
  Thread,       (* who drives a request                                     *)
  Node,         (* backend nodes of the configuration and of the vhosts ... *)
  Configured,   (* ... those in the global configuration                    *)
  Address,      (* the IP or socket path of each node                       *)
  Port,         (* its port, 0 for a Unix socket                            *)
  Group,        (* its group: 0 PHP, 1 Rust, 2 Python                       *)
  Quota,        (* php_quota, rust_quota, python_quota                      *)
  PoolSize,     (* pool_size                                                *)
  Fd, NoFd,     (* descriptor numbers, and -1                               *)
  Protocols,    (* by which of "http1" and "http2" a thread's requests come *)
  Bodies,       (* the lengths of their bodies, in chunks of STDIN          *)
  Attempts,     (* max_attempts, the turns an HTTP/1 session has            *)
  Faults,       (* what may go wrong outside; see Trouble                   *)
  MaxRequest    (* bound: requests ever made                                *)

(* refused    socket or connect fails                                      *)
(* idleclose  a backend closes a connection that waits in the pool         *)
(* died       a backend closes a connection at any time                    *)
(* slow       a backend takes longer than a poll, of 1 s                   *)
(* pieces     a response arrives in two pieces                             *)
(* stalled    the payload of a record pauses, or the client takes no more  *)
(* gone       the client leaves while the backend works                    *)
Trouble == {"refused", "idleclose", "died", "slow", "pieces", "stalled", "gone"}

Backend == 0 .. 2
Slot    == 1 .. PoolSize
Request == 1 .. MaxRequest

ASSUME ConfigAssumption ==
  /\ Node # {} /\ Configured \subseteq Node
  /\ Port \in [Node -> Nat]
  /\ Group \in [Node -> Backend]
  /\ Quota \in [Backend -> Nat]
  /\ Protocols \in [Thread -> SUBSET {"http1", "http2"}]
  /\ Bodies \subseteq Nat
  /\ Faults \subseteq Trouble

ASSUME BoundAssumption ==
  /\ {PoolSize, MaxRequest, Attempts} \subseteq Nat
  /\ NoFd \notin Fd
  /\ Thread # {} /\ IsFiniteSet(Thread)

VARIABLES
  sock,            (* what is behind each descriptor                        *)
  connections,     (* fcgi_pool.connections                                 *)
  active_counts,
  pc, ses,         (* each thread and its session                           *)
  asked            (* how many requests were made                           *)

poolVars == <<connections, active_counts>>
vars == <<sock, poolVars, pc, ses, asked>>

SomeNode == CHOOSE n \in Node : TRUE

(* A socket: the node it leads to, whether the backend still has it open,  *)
(* the requests the backend is to answer, the records not yet read.        *)
Connected(n) == [open |-> TRUE, home |-> n, alive |-> TRUE, owed |-> <<>>, out |-> <<>>]
Closed == [open |-> FALSE, home |-> SomeNode, alive |-> FALSE, owed |-> <<>>, out |-> <<>>]

FreeSlot == [sockfd |-> NoFd, in_use |-> FALSE, node |-> SomeNode]
NoSession == [req |-> 0, node |-> SomeNode, fd |-> NoFd,
              http |-> "none", body |-> 0, attempt |-> 0, got |-> 0]

Goto(t, p) == pc' = [pc EXCEPT ![t] = p]

(* The session ends; got says which request the client was answered for.   *)
Finish(t) ==
  /\ Goto(t, "idle")
  /\ ses' = [ses EXCEPT ![t] = NoSession]

Peer(t) == sock[ses[t].fd]     (* the socket the session talks on          *)

(* The scans of the code stop at the first that fits.                      *)
Least(S) == CHOOSE i \in S : \A j \in S : i <= j

-----------------------------------------------------------------------------
(* get_backend_index: the first group with a node that fits, else PHP.     *)
IndexOf(S) ==
  IF S = {} THEN 0 ELSE Least({Group[m] : m \in S})

IsUnix(n) == Port[n] = 0

(* Acquire always passes the target, so only addresses are compared ...    *)
AcquireIndex(n) == IndexOf({m \in Configured : Address[m] = Address[n]})

(* ... release passes NULL for a TCP slot, so ports are.                   *)
ReleaseIndex(n) ==
  IndexOf({m \in Configured : IF IsUnix(n) THEN Address[m] = Address[n]
                                          ELSE Port[m] = Port[n]})

(* The slots acquire may reuse for node n.                                 *)
Belongs(i, n) ==
  LET s == connections[i]
  IN  /\ s.sockfd # NoFd /\ ~s.in_use
      /\ IF IsUnix(n) THEN IsUnix(s.node) /\ Address[s.node] = Address[n]
                      ELSE ~IsUnix(s.node) /\ Port[s.node] = Port[n]

(* poll(fd, POLLIN | POLLRDHUP, 0) = 0: open, nothing to read, no hangup.  *)
Quiet(f) == sock[f].open /\ sock[f].alive /\ sock[f].out = <<>>

(* recv(fd, MSG_PEEK | MSG_DONTWAIT) # 0 and no socket error: anything but *)
(* a plain end of file.  A closed number counts: EBADF is -1, not 0.       *)
Healthy(f) ==
  ~sock[f].open \/ sock[f].alive \/ sock[f].out # <<>>

(* close() of each number in F, whatever is behind it.                     *)
CloseAll(F) == sock' = [f \in Fd |-> IF f \in F THEN Closed ELSE sock[f]]

-----------------------------------------------------------------------------
Init ==
  /\ sock = [f \in Fd |-> Closed]
  /\ connections = [i \in Slot |-> FreeSlot]
  /\ active_counts = [b \in Backend |-> 0]
  /\ pc = [t \in Thread |-> "idle"]
  /\ ses = [t \in Thread |-> NoSession]
  /\ asked = 0

(* A request is routed to a backend; the load balancer may pick any node.  *)
Begin(t) ==
  /\ pc[t] = "idle" /\ asked < MaxRequest
  /\ asked' = asked + 1
  /\ \E n \in Node, p \in Protocols[t], b \in Bodies :
       ses' = [ses EXCEPT ![t] = [NoSession EXCEPT !.req = asked', !.node = n,
                                                   !.http = p, !.body = b]]
  /\ Goto(t, "quota")
  /\ UNCHANGED <<sock, poolVars>>

BelowQuota(t) ==
  LET b == AcquireIndex(ses[t].node) IN active_counts[b] < Quota[b]

(* fcgi_pool_conn_acquire: the quota is read before the lock is taken.     *)
CheckQuota(t) ==
  /\ pc[t] = "quota"
  /\ Goto(t, IF BelowQuota(t) THEN "reuse" ELSE "create")
  /\ UNCHANGED <<sock, poolVars, ses, asked>>

Count(b, d) == active_counts' = [active_counts EXCEPT ![b] = @ + d]

(* Fault: the first slot with the node's connection is taken, quiet or not. *)
ReuseUnpolled(t) ==
  LET mine  == {i \in Slot : Belongs(i, ses[t].node)}
      first == Least(mine)
  IN  /\ pc[t] = "reuse"
      /\ IF mine = {}
         THEN /\ Goto(t, "create")
              /\ UNCHANGED <<poolVars, ses>>
         ELSE /\ connections' = [connections EXCEPT ![first].in_use = TRUE]
              /\ ses' = [ses EXCEPT ![t].fd = connections[first].sockfd]
              /\ Count(AcquireIndex(ses[t].node), 1)
              /\ Goto(t, "params")
      /\ UNCHANGED <<sock, asked>>

(* The scan under the lock: the unusable connections before the first      *)
(* quiet one are closed, that one is taken; the quota is not read again.   *)
Reuse(t) ==
  LET n     == ses[t].node
      mine  == {i \in Slot : Belongs(i, n)}
      quiet == {i \in mine : Quiet(connections[i].sockfd)}
      first == Least(quiet)
      bad   == {i \in mine \ quiet : quiet = {} \/ i < first}
      swept == [i \in Slot |-> IF i \in bad
                               THEN [connections[i] EXCEPT !.sockfd = NoFd]
                               ELSE connections[i]]
  IN  /\ pc[t] = "reuse"
      /\ CloseAll({connections[i].sockfd : i \in bad})
      /\ IF quiet = {}
         THEN /\ connections' = swept
              /\ Goto(t, "create")
              /\ UNCHANGED <<active_counts, ses>>
         ELSE /\ connections' = [swept EXCEPT ![first].in_use = TRUE]
              /\ ses' = [ses EXCEPT ![t].fd = connections[first].sockfd]
              /\ Count(AcquireIndex(n), 1)
              /\ Goto(t, "params")
      /\ UNCHANGED <<asked>>

(* create_backend_socket, outside the lock.                                *)
Create(t) ==
  /\ pc[t] = "create"
  /\ \E f \in Fd :
       /\ ~sock[f].open
       /\ sock' = [sock EXCEPT ![f] = Connected(ses[t].node)]
       /\ ses' = [ses EXCEPT ![t].fd = f]
  /\ Goto(t, "store")
  /\ UNCHANGED <<poolVars, asked>>

NoSocket == "refused" \in Faults \/ \A f \in Fd : sock[f].open

(* Fault: the session goes on with descriptor -1. *)
CreateFailsAnyway(t) ==
  /\ pc[t] = "create" /\ NoSocket
  /\ Goto(t, "store")
  /\ UNCHANGED <<sock, poolVars, ses, asked>>

(* It fails, or there is no descriptor left: the client is answered 502.   *)
CreateFails(t) ==
  /\ pc[t] = "create" /\ NoSocket
  /\ Finish(t)
  /\ UNCHANGED <<sock, poolVars, asked>>

Empty == {i \in Slot : connections[i].sockfd = NoFd}

(* Fault: the quota is not checked a second time. *)
StoreUnchecked(t) ==
  /\ pc[t] = "store"
  /\ IF Empty # {}
     THEN /\ connections' = [connections EXCEPT ![Least(Empty)] =
               [sockfd |-> ses[t].fd, in_use |-> TRUE, node |-> ses[t].node]]
          /\ Count(AcquireIndex(ses[t].node), 1)
     ELSE UNCHANGED poolVars
  /\ Goto(t, "params")
  /\ UNCHANGED <<sock, ses, asked>>

(* The second quota check and the first empty slot; otherwise the          *)
(* connection bypasses the pool.                                           *)
Store(t) ==
  /\ pc[t] = "store"
  /\ IF BelowQuota(t) /\ Empty # {}
     THEN /\ connections' = [connections EXCEPT ![Least(Empty)] =
               [sockfd |-> ses[t].fd, in_use |-> TRUE, node |-> ses[t].node]]
          /\ Count(AcquireIndex(ses[t].node), 1)
     ELSE UNCHANGED poolVars
  /\ Goto(t, "params")
  /\ UNCHANGED <<sock, ses, asked>>

-----------------------------------------------------------------------------
(***************************************************************************)
(* The session: fcgi_session_http1_step and fcgi_session_http2_step.       *)
(***************************************************************************)

Sending   == {"params", "stdin"}
Waiting   == Sending \cup {"recv"}
IsHttp1(t) == ses[t].http = "http1"

(* Fault: the last one is never had. *)
OneTurnFewer(t) == IsHttp1(t) => ses[t].attempt + 1 < Attempts

(* Each turn of the loop in http1_manager_session is an attempt, whether   *)
(* it polls in vain or gets on; HTTP/2 counts none.                        *)
HasTurn(t) == IsHttp1(t) => ses[t].attempt < Attempts
Turned(t) == ses[t].attempt + IF IsHttp1(t) THEN 1 ELSE 0

(* BEGIN_REQUEST and PARAMS are out: the backend has a request.            *)
SendParams(t) ==
  /\ pc[t] = "params" /\ HasTurn(t) /\ Peer(t).open /\ Peer(t).alive
  /\ sock' = [sock EXCEPT ![ses[t].fd].owed =
                Append(@, [req |-> ses[t].req, begun |-> FALSE])]
  /\ ses' = [ses EXCEPT ![t].attempt = Turned(t)]
  /\ Goto(t, IF ses[t].body > 0 THEN "stdin" ELSE "recv")
  /\ UNCHANGED <<poolVars, asked>>

(* One chunk a turn, the end of STDIN with the last.                       *)
SendStdin(t) ==
  /\ pc[t] = "stdin" /\ HasTurn(t) /\ Peer(t).open /\ Peer(t).alive
  /\ ses' = [ses EXCEPT ![t].body = IF @ > 0 THEN @ - 1 ELSE 0,
                       ![t].attempt = Turned(t)]
  /\ Goto(t, IF ses[t].body > 1 THEN "stdin" ELSE "recv")
  /\ UNCHANGED <<sock, poolVars, asked>>

(* send() fails.  Both protocols set their error state, but only HTTP/1    *)
(* looks at it again, in fcgi_session_destroy.                             *)
SendFails(t) ==
  /\ pc[t] \in Sending /\ HasTurn(t) /\ Peer(t).open /\ ~Peer(t).alive
  /\ Goto(t, IF IsHttp1(t) THEN "discard" ELSE "release")
  /\ UNCHANGED <<sock, poolVars, ses, asked>>

(* http1_manager_session sees POLLERR or POLLHUP and gives up; the session *)
(* keeps the state it had.                                                 *)
HangUp(t) ==
  /\ pc[t] \in Waiting /\ IsHttp1(t) /\ HasTurn(t)
  /\ Peer(t).open /\ ~Peer(t).alive
  /\ Goto(t, "release")
  /\ UNCHANGED <<sock, poolVars, ses, asked>>

InVain(t) ==
  /\ pc[t] \in Waiting /\ IsHttp1(t) /\ HasTurn(t)
  /\ \/ ~Peer(t).open
     \/ /\ "slow" \in Faults /\ Peer(t).alive
        /\ pc[t] = "recv" => Peer(t).out = <<>>

(* Fault: a poll in vain is not counted. *)
PollUncounted(t) ==
  /\ InVain(t)
  /\ UNCHANGED vars

(* A poll in vain: it times out, or the number is not open (POLLNVAL).     *)
PollInVain(t) ==
  /\ InVain(t)
  /\ ses' = [ses EXCEPT ![t].attempt = Turned(t)]
  /\ UNCHANGED <<sock, poolVars, pc, asked>>

(* ... or the attempts are used up.  Again the session keeps its state.    *)
GiveUp(t) ==
  /\ pc[t] \in Waiting /\ ~HasTurn(t)
  /\ Goto(t, "release")
  /\ UNCHANGED <<sock, poolVars, ses, asked>>

(* POLLIN: fcgi_io_splice_response starts to read records.                 *)
StartReading(t) ==
  /\ pc[t] = "recv" /\ IsHttp1(t) /\ HasTurn(t) /\ Peer(t).open
  /\ Peer(t).out # <<>> \/ ~Peer(t).alive
  /\ Goto(t, "splice")
  /\ UNCHANGED <<sock, poolVars, ses, asked>>

Consume(t) == sock' = [sock EXCEPT ![ses[t].fd].out = Tail(@)]
AtStdout(t) == Peer(t).out # <<>> /\ Head(Peer(t).out).kind # "end"
Answered(t) == ses' = [ses EXCEPT ![t].got = Head(Peer(t).out).req]

(* After the headers of a redirect the reader stops, successfully, before  *)
(* END_REQUEST.                                                            *)
AfterStdout(t) == IF Head(Peer(t).out).kind = "redirect" THEN "release" ELSE "splice"

(* A STDOUT record goes to the client.                                     *)
ReadStdout(t) ==
  /\ pc[t] = "splice" /\ AtStdout(t)
  /\ Answered(t)
  /\ Consume(t)
  /\ Goto(t, AfterStdout(t))
  /\ UNCHANGED <<poolVars, asked>>

(* The payload of a later record pauses, or the client's socket is full:   *)
(* splice() and the TLS writer try again without a limit, ...              *)
StallBegins(t) ==
  /\ pc[t] = "splice" /\ AtStdout(t) /\ "stalled" \in Faults
  /\ Answered(t)
  /\ Goto(t, "stalled")
  /\ UNCHANGED <<sock, poolVars, asked>>

(* ... until the rest is through, ...                                      *)
StallEnds(t) ==
  /\ pc[t] = "stalled" /\ AtStdout(t)
  /\ Consume(t)
  /\ Goto(t, AfterStdout(t))
  /\ UNCHANGED <<poolVars, ses, asked>>

(* ... or the backend or the client closes.                                *)
StallFails(t) ==
  /\ pc[t] = "stalled"
  /\ ~Peer(t).alive \/ "gone" \in Faults
  /\ CloseAll({ses[t].fd})
  /\ Goto(t, "discard")
  /\ UNCHANGED <<poolVars, ses, asked>>

(* END_REQUEST: success, whatever came before it.                          *)
ReadEnd(t) ==
  /\ pc[t] = "splice" /\ Peer(t).out # <<>> /\ Head(Peer(t).out).kind = "end"
  /\ Consume(t)
  /\ Goto(t, "release")
  /\ UNCHANGED <<poolVars, ses, asked>>

(* Nothing to read: the socket is non-blocking, so recv(MSG_WAITALL) fails *)
(* with EAGAIN at once, or the backend closed; or the payload of a first   *)
(* record pauses; or the client is gone.  The reader closes the socket     *)
(* itself; the session's state becomes ERROR.                              *)
ReadFails(t) ==
  /\ pc[t] = "splice"
  /\ Peer(t).out = <<>> \/ Faults \cap {"stalled", "gone"} # {}
  /\ CloseAll({ses[t].fd})
  /\ Goto(t, "discard")
  /\ UNCHANGED <<poolVars, ses, asked>>

(* HTTP/2 takes what one recv() returns.  It is done when that holds the   *)
(* response headers and waits for more otherwise.                          *)
ReadChunk(t) ==
  LET out == Peer(t).out
      stdout == {i \in DOMAIN out : out[i].kind # "end"}
  IN  /\ pc[t] = "recv" /\ ~IsHttp1(t) /\ out # <<>>
      /\ IF stdout = {}
         THEN UNCHANGED <<pc, ses>>
         ELSE /\ ses' = [ses EXCEPT ![t].got = out[Least(stdout)].req]
              /\ Goto(t, "release")
      /\ sock' = [sock EXCEPT ![ses[t].fd].out = <<>>]
      /\ UNCHANGED <<poolVars, asked>>

(* ... end of file, or the error of recv().                                *)
ChunkFails(t) ==
  /\ pc[t] = "recv" /\ ~IsHttp1(t)
  /\ ~Peer(t).alive /\ Peer(t).out = <<>>
  /\ Goto(t, "release")
  /\ UNCHANGED <<sock, poolVars, ses, asked>>

(* The client's connection is cleaned up.  http1_session_destroy returns   *)
(* the backend connection if that happens before the worker's loop starts; *)
(* http2_session_destroy forgets it.                                       *)
ClientLeaves(t) ==
  /\ "gone" \in Faults
  /\ \/ /\ pc[t] = "params" /\ IsHttp1(t) /\ ses[t].attempt = 0
        /\ Goto(t, "release") /\ UNCHANGED ses
     \/ pc[t] \in Waiting /\ ~IsHttp1(t) /\ Finish(t)
  /\ UNCHANGED <<sock, poolVars, asked>>

(* fcgi_session_destroy in state ERROR: close, and nothing else.           *)
Discard(t) ==
  /\ pc[t] = "discard"
  /\ CloseAll({ses[t].fd})
  /\ Finish(t)
  /\ UNCHANGED <<poolVars, asked>>

Holding(f) == {i \in Slot : connections[i].sockfd = f}

(* Fault: a bypassed connection is not closed. *)
ReleaseUnclosed(t) ==
  LET f == ses[t].fd
      i == Least(Holding(f))
  IN  /\ pc[t] = "release"
      /\ IF Holding(f) = {}
         THEN UNCHANGED poolVars
         ELSE /\ connections' = [connections EXCEPT ![i].in_use = FALSE]
              /\ Count(ReleaseIndex(connections[i].node), -1)
      /\ Finish(t)
      /\ UNCHANGED <<sock, asked>>

(* fcgi_pool_conn_release: the first slot with this number.                *)
Release(t) ==
  LET f == ses[t].fd
      i == Least(Holding(f))
      keep == Holding(f) # {} /\ Healthy(f)
  IN  /\ pc[t] = "release"
      /\ IF Holding(f) = {}
         THEN UNCHANGED poolVars
         ELSE /\ connections' = [connections EXCEPT
                   ![i].in_use = FALSE, ![i].sockfd = IF keep THEN f ELSE NoFd]
              /\ Count(ReleaseIndex(connections[i].node), -1)
      /\ CloseAll(IF keep THEN {} ELSE {f})
      /\ Finish(t)
      /\ UNCHANGED <<asked>>

-----------------------------------------------------------------------------
(***************************************************************************)
(* The backends.                                                           *)
(***************************************************************************)

Record(r, k) == [req |-> r, kind |-> k]
Busy(f) == sock[f].open /\ sock[f].alive /\ sock[f].owed # <<>>
Reply(f, rs) == [sock[f] EXCEPT !.out = @ \o rs]

(* A response in one piece.                                                *)
Answer(f) ==
  /\ Busy(f) /\ ~Head(sock[f].owed).begun
  /\ \E k \in {"stdout", "redirect"} :
       LET r == Head(sock[f].owed).req
       IN  sock' = [sock EXCEPT ![f] =
             [Reply(f, <<Record(r, k), Record(r, "end")>>) EXCEPT !.owed = Tail(@)]]
  /\ UNCHANGED <<poolVars, pc, ses, asked>>

(* A response in two pieces.                                               *)
AnswerBegins(f) ==
  /\ "pieces" \in Faults
  /\ Busy(f) /\ ~Head(sock[f].owed).begun
  /\ \E k \in {"stdout", "redirect"} :
       sock' = [sock EXCEPT ![f] =
         [Reply(f, <<Record(Head(sock[f].owed).req, k)>>) EXCEPT !.owed[1].begun = TRUE]]
  /\ UNCHANGED <<poolVars, pc, ses, asked>>

AnswerEnds(f) ==
  /\ Busy(f) /\ Head(sock[f].owed).begun
  /\ sock' = [sock EXCEPT ![f] =
       [Reply(f, <<Record(Head(sock[f].owed).req, "end")>>) EXCEPT !.owed = Tail(@)]]
  /\ UNCHANGED <<poolVars, pc, ses, asked>>

(* The backend closes: any connection, or one that no session has.         *)
BackendCloses(f) ==
  /\ sock[f].open /\ sock[f].alive
  /\ \/ "died" \in Faults
     \/ "idleclose" \in Faults /\ \A t \in Thread : ses[t].fd # f
  /\ sock' = [sock EXCEPT ![f].alive = FALSE, ![f].owed = <<>>]
  /\ UNCHANGED <<poolVars, pc, ses, asked>>

-----------------------------------------------------------------------------
Pool(t) == CheckQuota(t) \/ Reuse(t) \/ Create(t) \/ CreateFails(t) \/ Store(t)

Step(t) ==
  \/ SendParams(t) \/ SendStdin(t) \/ SendFails(t) \/ HangUp(t)
  \/ PollInVain(t) \/ GiveUp(t)
  \/ StartReading(t) \/ ReadStdout(t) \/ ReadEnd(t) \/ ReadFails(t)
  \/ ReadChunk(t) \/ ChunkFails(t) \/ Discard(t) \/ Release(t)

Stall(t) == StallBegins(t) \/ StallEnds(t) \/ StallFails(t)

Outside(f) == Answer(f) \/ AnswerBegins(f) \/ AnswerEnds(f) \/ BackendCloses(f)

Next ==
  \/ \E t \in Thread : Begin(t) \/ Pool(t) \/ Step(t) \/ Stall(t) \/ ClientLeaves(t)
  \/ \E f \in Fd : Outside(f)

Spec == Init /\ [][Next]_vars

(* A session that can go on does: poll has a timeout and its loop a bound. *)
(* Nothing is assumed of the backends, and a stall need not end.           *)
FairSpec == Spec /\ \A t \in Thread : WF_vars(Pool(t) \/ Step(t))
=============================================================================
