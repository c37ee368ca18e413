---------------------------- MODULE FcgiPool_proofs ----------------------------
(***************************************************************************)
(* Proofs about the pool of backend connections, for every set of threads, *)
(* nodes and descriptors and every quota.  The types and the quota hold    *)
(* whatever goes wrong.  That the pool is sound holds while the faults are *)
(* those of Calm, and that answers are not mixed up as long as Prompt says *)
(* so of faults and bodies; FcgiPool_stale.cfg and FcgiPool_timeout.cfg    *)
(* show what others do, FcgiPool_counts.cfg what OwnGroups excludes.       *)
(***************************************************************************)
EXTENDS FcgiPoolProps, FiniteSetTheorems, SequenceTheorems, WellFoundedInduction, TLAPS

(* Least returns a member: a nonempty set of numbers has a least one.      *)
LEMMA LeastMember ==
  ASSUME NEW S \in SUBSET Nat, S # {}
  PROVE  Least(S) \in S
<1> DEFINE R == {ss \in Nat \X Nat : ss[1] < ss[2]}
<1>1. IsWellFoundedOn(R, Nat)
  BY NatLessThanWellFounded DEF OpToRel
<1>2. \E x \in S : \A y \in S : ~ (<<y, x>> \in R)
  <2> HIDE DEF R
  <2> QED
    BY <1>1, WFMin
<1>3. PICK x \in S : \A y \in S : ~ (<<y, x>> \in R)
  BY <1>2
<1>4. \A y \in S : x <= y
  <2>1. TAKE y \in S
  <2>2. x \in Nat /\ y \in Nat
    OBVIOUS
  <2>3. y < x => <<y, x>> \in R
    BY <2>2
  <2>4. QED
    BY <1>3, <2>2, <2>3
<1>5. QED
  BY <1>4 DEF Least

(* Every connection is counted under some backend.                         *)
LEMMA IndexIsBackend ==
  /\ \A n : AcquireIndex(n) \in Backend
  /\ \A n : ReleaseIndex(n) \in Backend
<1>1. ASSUME NEW S, S \subseteq Node
      PROVE  IndexOf(S) \in Backend
  <2>1. {Group[m] : m \in S} \subseteq Backend
    BY <1>1, ConfigAssumption
  <2>2. CASE S = {}
    BY <2>2 DEF IndexOf, Backend
  <2>3. CASE S # {}
    <3>1. {Group[m] : m \in S} \in SUBSET Nat /\ {Group[m] : m \in S} # {}
      BY <2>1, <2>3 DEF Backend
    <3>2. Least({Group[m] : m \in S}) \in Backend
      BY <2>1, <3>1, LeastMember
    <3>3. QED
      BY <2>3, <3>2 DEF IndexOf
  <2>4. QED
    BY <2>2, <2>3
<1>2. QED
  BY <1>1, ConfigAssumption DEF AcquireIndex, ReleaseIndex

-----------------------------------------------------------------------------
(* Type correctness, action by action.                                     *)

Promise == [req : Request, begun : BOOLEAN]
Item    == [req : Request, kind : {"stdout", "redirect", "end"}]

SlotState == [sockfd : Fd \cup {NoFd}, in_use : BOOLEAN, node : Node]

(* What socket() and connect() make, and close() leaves, are sockets.      *)
LEMMA SocketTypes ==
  /\ SomeNode \in Node
  /\ Closed \in Socket
  /\ \A n \in Node : Connected(n) \in Socket
<1>1. SomeNode \in Node
  BY ConfigAssumption DEF SomeNode
<1>2. << >> \in Seq(Promise) /\ << >> \in Seq(Item)
  OBVIOUS
<1>3. QED
  BY <1>1, <1>2 DEF Closed, Connected, Socket, Promise, Item

(* The scans of the pool run over an array.                                *)
LEMMA SlotsAreNumbers == Slot \in SUBSET Nat
BY BoundAssumption DEF Slot

(* A slot whose in_use is set is a slot still.                             *)
LEMMA MarkedSlot ==
  ASSUME NEW c \in [Slot -> SlotState], NEW i \in Slot
  PROVE  [c EXCEPT ![i].in_use = TRUE] \in [Slot -> SlotState]
<1>1. [c[i] EXCEPT !.in_use = TRUE] \in SlotState
  BY DEF SlotState
<1>2. QED
  BY <1>1

(* fcgi_pool_init leaves every slot empty and every count at zero.         *)
LEMMA TypeInit == Init => TypeOK
BY SocketTypes, ConfigAssumption, BoundAssumption
   DEF Init, TypeOK, FreeSlot, NoSession, Point, Acquiring, Session

(* A request is routed to some node, with a body of some length.           *)
LEMMA Begun ==
  ASSUME TypeOK, NEW t \in Thread, Begin(t)
  PROVE  /\ asked' \in Request /\ ses' \in [Thread -> Session]
         /\ \A u \in Thread : u # t => ses'[u] = ses[u]
         /\ ses'[t].req = asked' /\ ses'[t].fd = NoFd /\ ses'[t].got = 0
         /\ ses'[t].attempt = 0 /\ ses'[t].body \in Bodies
<1>1. asked' \in Request /\ asked' \in 0 .. MaxRequest
  BY BoundAssumption DEF Begin, TypeOK, Request
<1>2. PICK n \in Node, p \in Protocols[t], b \in Bodies :
        ses' = [ses EXCEPT ![t] = [NoSession EXCEPT !.req = asked', !.node = n,
                                                    !.http = p, !.body = b]]
  BY DEF Begin
<1> DEFINE s == [NoSession EXCEPT !.req = asked', !.node = n, !.http = p, !.body = b]
<1>3. p \in {"http1", "http2", "none"} /\ b \in Nat
  BY ConfigAssumption
<1>4. /\ NoSession \in Session /\ NoSession.fd = NoFd
      /\ NoSession.attempt = 0 /\ NoSession.got = 0
  BY SocketTypes, BoundAssumption DEF NoSession, Session
<1>6. /\ s \in Session /\ s.req = asked' /\ s.fd = NoFd /\ s.got = 0
      /\ s.attempt = 0 /\ s.body \in Bodies
  BY <1>1, <1>3, <1>4 DEF Session
<1>5. ses' = [ses EXCEPT ![t] = s] /\ ses \in [Thread -> Session]
  BY <1>2 DEF TypeOK
<1> HIDE DEF s
<1> QED
  BY <1>1, <1>5, <1>6

(* acquire gives the session a descriptor and changes nothing else of it.  *)
LEMMA GivenFd ==
  ASSUME ses \in [Thread -> Session], NEW t \in Thread, NEW f \in Fd,
         ses' = [ses EXCEPT ![t].fd = f]
  PROVE  /\ ses' \in [Thread -> Session]
         /\ ses'[t].fd = f
         /\ \A u \in Thread : ses'[u].req = ses[u].req /\ (u # t => ses'[u] = ses[u])
<1>1. [ses[t] EXCEPT !.fd = f] \in Session /\ [ses[t] EXCEPT !.fd = f].req = ses[t].req
      /\ [ses[t] EXCEPT !.fd = f].fd = f
  BY DEF Session
<1>2. QED
  BY <1>1

(* fcgi_pool_conn_acquire, from the routed request to the stored socket.   *)
LEMMA TypePool ==
  ASSUME TypeOK, NEW t \in Thread, Begin(t) \/ Pool(t)
  PROVE  TypeOK'
<1> USE DEF TypeOK, Goto, poolVars
<1>1. CASE Begin(t)
  <2>1. /\ asked' \in 0 .. MaxRequest /\ ses'[t].req \in Request
        /\ ses' \in [Thread -> Session]
        /\ \A u \in Thread : u # t => ses'[u] = ses[u]
    BY <1>1, Begun DEF Request
  <2>2. UNCHANGED <<sock, connections, active_counts>> /\ Goto(t, "quota")
    BY <1>1 DEF Begin
  <2>3. QED
    BY <2>1, <2>2 DEF Point, Acquiring
<1>2. CASE CheckQuota(t)
  BY <1>2 DEF CheckQuota, Point, Acquiring
<1>3. CASE Reuse(t)
  <2> DEFINE n     == ses[t].node
             mine  == {i \in Slot : Belongs(i, n)}
             quiet == {i \in mine : Quiet(connections[i].sockfd)}
             first == Least(quiet)
             bad   == {i \in mine \ quiet : quiet = {} \/ i < first}
             swept == [i \in Slot |-> IF i \in bad
                                      THEN [connections[i] EXCEPT !.sockfd = NoFd]
                                      ELSE connections[i]]
  <2>1. swept \in [Slot -> [sockfd : Fd \cup {NoFd}, in_use : BOOLEAN, node : Node]]
    OBVIOUS
  <2>2. sock' \in [Fd -> Socket]
    BY <1>3, SocketTypes DEF Reuse, CloseAll
  <2>3. CASE quiet = {}
    BY <1>3, <2>1, <2>2, <2>3 DEF Reuse, Point, Acquiring
  <2>4. CASE quiet # {}
    <3>1. first \in quiet
      BY <2>4, SlotsAreNumbers, LeastMember
    <3>2. first \in Slot /\ connections[first].sockfd \in Fd
      BY <3>1 DEF Belongs
    <3>3. /\ connections' = [swept EXCEPT ![first].in_use = TRUE]
          /\ ses' = [ses EXCEPT ![t].fd = connections[first].sockfd]
          /\ Count(AcquireIndex(n), 1)
          /\ Goto(t, "params")
          /\ UNCHANGED asked
      BY <1>3, <2>4 DEF Reuse
    <3> HIDE DEF n, mine, quiet, first, bad, swept
    <3>4. connections' \in [Slot -> [sockfd : Fd \cup {NoFd}, in_use : BOOLEAN, node : Node]]
      <4>1. swept \in [Slot -> SlotState] /\ first \in Slot
        BY <2>1, <3>2 DEF SlotState
      <4>2. [swept EXCEPT ![first].in_use = TRUE] \in [Slot -> SlotState]
        BY <4>1, MarkedSlot
      <4>3. QED
        BY <3>3, <4>2 DEF SlotState
    <3>5. active_counts' \in [Backend -> Int]
      BY <3>3, IndexIsBackend DEF Count
    <3>6. ses' \in [Thread -> Session] /\ ses'[t].fd \in Fd
          /\ \A u \in Thread : ses'[u].req = ses[u].req /\ (u # t => ses'[u] = ses[u])
      BY <3>2, <3>3, GivenFd
    <3>7. ses[t].req \in Request
      BY <1>3 DEF Reuse
    <3>8. QED
      BY <2>2, <3>3, <3>4, <3>5, <3>6, <3>7 DEF Point, Acquiring
  <2>5. QED
    BY <2>3, <2>4
<1>4. CASE Create(t)
  <2>1. ses[t].node \in Node /\ Connected(ses[t].node) \in Socket
    BY SocketTypes DEF Session
  <2>2. sock' \in [Fd -> Socket]
    BY <1>4, <2>1 DEF Create
  <2>3. ses' \in [Thread -> Session] /\ ses'[t].fd \in Fd
        /\ \A u \in Thread : ses'[u].req = ses[u].req /\ (u # t => ses'[u] = ses[u])
    BY <1>4, GivenFd DEF Create
  <2>4. QED
    BY <1>4, <2>2, <2>3 DEF Create, Point, Acquiring
<1>5. CASE CreateFails(t)
  <2>1. NoSession \in Session
    BY SocketTypes, BoundAssumption DEF NoSession, Session
  <2>2. QED
    BY <1>5, <2>1 DEF CreateFails, Finish, Point, Acquiring
<1>6. CASE Store(t)
  <2>1. ses[t].fd \in Fd /\ ses[t].node \in Node
    BY <1>6 DEF Store, Acquiring, Session
  <2>2. connections' \in [Slot -> [sockfd : Fd \cup {NoFd}, in_use : BOOLEAN, node : Node]]
    <3> DEFINE new == [sockfd |-> ses[t].fd, in_use |-> TRUE, node |-> ses[t].node]
    <3>1. new \in SlotState
      BY <2>1 DEF SlotState
    <3>2. \/ connections' = [connections EXCEPT ![Least(Empty)] = new]
          \/ connections' = connections
      BY <1>6 DEF Store
    <3> HIDE DEF new
    <3>3. QED
      BY <3>1, <3>2 DEF SlotState
  <2>3. active_counts' \in [Backend -> Int]
    BY <1>6, IndexIsBackend DEF Store, Count
  <2>4. QED
    BY <1>6, <2>2, <2>3 DEF Store, Point, Acquiring
<1>7. QED
  BY <1>1, <1>2, <1>3, <1>4, <1>5, <1>6 DEF Pool

(* A descriptor that is closed, or that a record was read from, leads to a *)
(* socket still.                                                           *)
LEMMA SocketUpdates ==
  ASSUME sock \in [Fd -> Socket]
  PROVE  /\ \A F : CloseAll(F) => sock' \in [Fd -> Socket]
         /\ \A f \in Fd : sock[f].out # <<>> =>
               [sock[f] EXCEPT !.out = Tail(@)] \in Socket
         /\ \A f \in Fd, r \in Promise :
               [sock[f] EXCEPT !.owed = Append(@, r)] \in Socket
         /\ \A f \in Fd : [sock[f] EXCEPT !.out = <<>>] \in Socket
<1>1. ASSUME NEW F, CloseAll(F)
      PROVE  sock' \in [Fd -> Socket]
  BY <1>1, SocketTypes DEF CloseAll
<1>2. ASSUME NEW f \in Fd, sock[f].out # <<>>
      PROVE  [sock[f] EXCEPT !.out = Tail(@)] \in Socket
  <2>1. sock[f].out \in Seq(Item)
    BY DEF Socket, Item
  <2>2. Tail(sock[f].out) \in Seq(Item)
    BY <1>2, <2>1, HeadTailProperties
  <2>3. QED
    BY <2>2 DEF Socket, Item
<1>3. ASSUME NEW f \in Fd, NEW r \in Promise
      PROVE  [sock[f] EXCEPT !.owed = Append(@, r)] \in Socket
  <2>1. sock[f].owed \in Seq(Promise)
    BY DEF Socket, Promise
  <2>2. Append(sock[f].owed, r) \in Seq(Promise)
    BY <2>1, AppendProperties
  <2>3. QED
    BY <2>2 DEF Socket, Promise
<1>4. ASSUME NEW f \in Fd
      PROVE  [sock[f] EXCEPT !.out = <<>>] \in Socket
  <2>1. <<>> \in Seq(Item)
    OBVIOUS
  <2>2. QED
    BY <2>1 DEF Socket, Item
<1>5. QED
  BY <1>1, <1>2, <1>3, <1>4

(* A turn of the loop in http1_manager_session: an attempt, and of the     *)
(* body what is left of it.                                                *)
Turn(t) ==
  /\ HasTurn(t)
  /\ \E b \in Nat : \/ ses' = [ses EXCEPT ![t].attempt = Turned(t)]
                    \/ ses' = [ses EXCEPT ![t].body = b, ![t].attempt = Turned(t)]

LEMMA Turns ==
  ASSUME TypeOK, NEW t \in Thread, SendParams(t) \/ SendStdin(t) \/ PollInVain(t)
  PROVE  Turn(t)
<1>1. CASE SendParams(t)
  BY <1>1 DEF SendParams, Turn
<1>2. CASE PollInVain(t)
  BY <1>2 DEF PollInVain, InVain, Turn
<1>3. CASE SendStdin(t)
  <2> DEFINE b == IF ses[t].body > 0 THEN ses[t].body - 1 ELSE 0
  <2>1. b \in Nat
    BY DEF TypeOK, Session
  <2>2. HasTurn(t) /\ ses' = [ses EXCEPT ![t].body = b, ![t].attempt = Turned(t)]
    BY <1>3 DEF SendStdin, TypeOK, Session
  <2> HIDE DEF b
  <2> QED
    BY <2>1, <2>2 DEF Turn
<1> QED
  BY <1>1, <1>2, <1>3

(* It leaves the rest of the session alone.                                *)
LEMMA TurnTaken ==
  ASSUME TypeOK, NEW t \in Thread, Turn(t)
  PROVE  /\ ses' \in [Thread -> Session]
         /\ \A u \in Thread : u # t => ses'[u] = ses[u]
         /\ \A u \in Thread :
               /\ ses'[u].req = ses[u].req /\ ses'[u].node = ses[u].node
               /\ ses'[u].fd = ses[u].fd /\ ses'[u].http = ses[u].http
               /\ ses'[u].got = ses[u].got
<1>1. ses \in [Thread -> Session] /\ ses[t].attempt \in 0 .. Attempts /\ Attempts \in Nat
  BY BoundAssumption DEF TypeOK, Session
<1>2. Turned(t) \in 0 .. Attempts
  BY <1>1 DEF Turn, HasTurn, Turned
<1> DEFINE a == Turned(t)
<1> HIDE DEF a
<1>3. PICK b \in Nat : \/ ses' = [ses EXCEPT ![t].attempt = a]
                       \/ ses' = [ses EXCEPT ![t].body = b, ![t].attempt = a]
  BY DEF Turn, a
<1>4. /\ [ses[t] EXCEPT !.attempt = a] \in Session
      /\ [ses[t] EXCEPT !.body = b, !.attempt = a] \in Session
  BY <1>1, <1>2 DEF Session, a
<1>5. /\ ses' \in [Thread -> Session]
      /\ \A u \in Thread : u # t => ses'[u] = ses[u]
  BY <1>1, <1>3, <1>4
<1>6. /\ ses'[t].req = ses[t].req /\ ses'[t].node = ses[t].node
      /\ ses'[t].fd = ses[t].fd /\ ses'[t].http = ses[t].http
      /\ ses'[t].got = ses[t].got
  BY <1>1, <1>3 DEF Session
<1> QED
  BY <1>5, <1>6

(* The steps of a session that only move it on.                            *)
LEMMA TypeMoves ==
  ASSUME TypeOK, NEW t \in Thread,
         SendFails(t) \/ HangUp(t) \/ GiveUp(t) \/ StartReading(t) \/ ChunkFails(t)
  PROVE  TypeOK'
<1>1. /\ UNCHANGED <<sock, connections, active_counts, ses, asked>>
      /\ pc[t] \in Waiting
      /\ \E p \in {"recv", "discard", "release", "splice"} : Goto(t, p)
  BY DEF SendFails, HangUp, GiveUp, StartReading, ChunkFails,
         poolVars, Waiting, Sending
<1>2. ses[t].fd \in Fd /\ ses[t].req \in Request
  BY <1>1 DEF TypeOK, Waiting, Sending, Acquiring
<1>3. QED
  BY <1>1, <1>2 DEF TypeOK, Goto, Point

(* fcgi_session_http1_step and fcgi_session_http2_step: what the session   *)
(* writes to the backend and reads from it.                                *)
LEMMA TypeTraffic ==
  ASSUME TypeOK, NEW t \in Thread,
         \/ SendParams(t) \/ SendStdin(t) \/ PollInVain(t)
         \/ ReadStdout(t) \/ ReadEnd(t) \/ ReadFails(t) \/ ReadChunk(t) \/ Stall(t)
  PROVE  TypeOK'
<1>1. ses[t].fd \in Fd /\ ses[t].req \in Request
  BY DEF TypeOK, Acquiring, Waiting, Sending, SendParams, SendStdin, PollInVain, InVain,
         ReadStdout, ReadEnd, ReadFails, ReadChunk, Stall, StallBegins, StallEnds,
         StallFails
<1> DEFINE f == ses[t].fd
<1>2. sock \in [Fd -> Socket]
  BY DEF TypeOK
<1>3. \A r \in Request : ses \in [Thread -> Session]
         => /\ [ses EXCEPT ![t].got = r] \in [Thread -> Session]
            /\ [ses EXCEPT ![t].got = r][t].fd = f
            /\ [ses EXCEPT ![t].got = r][t].req = ses[t].req
  BY BoundAssumption DEF Session, Request
<1>4. CASE SendParams(t)
  <2>1. [req |-> ses[t].req, begun |-> FALSE] \in Promise
    BY <1>1 DEF Promise
  <2>2. sock' \in [Fd -> Socket]
    BY <1>1, <1>2, <1>4, <2>1, SocketUpdates DEF SendParams
  <2>3. /\ ses' \in [Thread -> Session] /\ ses'[t].fd \in Fd /\ ses'[t].req \in Request
        /\ \A u \in Thread : u # t => ses'[u] = ses[u]
    BY <1>1, <1>4, Turns, TurnTaken
  <2>4. /\ UNCHANGED <<connections, active_counts, asked>>
        /\ \E p \in {"stdin", "recv"} : Goto(t, p)
    BY <1>4 DEF SendParams, poolVars
  <2>5. QED
    BY <2>2, <2>3, <2>4 DEF TypeOK, Goto, Point
<1>10. CASE SendStdin(t) \/ PollInVain(t)
  <2>1. /\ ses' \in [Thread -> Session] /\ ses'[t].fd \in Fd /\ ses'[t].req \in Request
        /\ \A u \in Thread : u # t => ses'[u] = ses[u]
    BY <1>1, <1>10, Turns, TurnTaken
  <2>2. /\ UNCHANGED <<sock, connections, active_counts, asked>>
        /\ UNCHANGED pc \/ \E p \in {"stdin", "recv"} : Goto(t, p)
    BY <1>10 DEF SendStdin, PollInVain, poolVars
  <2>3. QED
    BY <2>1, <2>2 DEF TypeOK, Goto, Point
<1>11. ASSUME AtStdout(t)
       PROVE  /\ sock[f].out \in Seq(Item) /\ sock[f].out # <<>>
              /\ Consume(t) => sock' \in [Fd -> Socket]
              /\ Answered(t) =>
                   /\ ses' \in [Thread -> Session] /\ ses'[t].fd \in Fd
                   /\ ses'[t].req \in Request
                   /\ \A u \in Thread : u # t => ses'[u] = ses[u]
  <2>1. sock[f].out \in Seq(Item) /\ sock[f].out # <<>>
    BY <1>1, <1>2, <1>11 DEF AtStdout, Peer, Socket, Item
  <2>2. Head(sock[f].out).req \in Request
    <3>1. Head(sock[f].out) \in Item
      BY <2>1, HeadTailProperties
    <3>2. QED
      BY <3>1 DEF Item
  <2>3. Consume(t) => sock' \in [Fd -> Socket]
    BY <1>1, <1>2, <2>1, SocketUpdates DEF Consume
  <2>4. Answered(t) => ses' = [ses EXCEPT ![t].got = Head(sock[f].out).req]
    BY DEF Answered, Peer
  <2>5. QED
    BY <1>1, <1>3, <2>1, <2>2, <2>3, <2>4 DEF TypeOK
<1>5. CASE ReadStdout(t)
  <2>1. /\ AtStdout(t) /\ Consume(t) /\ Answered(t)
        /\ \E p \in {"release", "splice"} : Goto(t, p)
        /\ UNCHANGED <<connections, active_counts, asked>>
    BY <1>5 DEF ReadStdout, AfterStdout, poolVars
  <2>2. QED
    BY <1>11, <2>1 DEF TypeOK, Goto, Point
<1>12. CASE StallBegins(t)
  <2>1. /\ AtStdout(t) /\ Answered(t) /\ Goto(t, "stalled")
        /\ UNCHANGED <<sock, connections, active_counts, asked>>
    BY <1>12 DEF StallBegins, poolVars
  <2>2. QED
    BY <1>11, <2>1 DEF TypeOK, Goto, Point
<1>13. CASE StallEnds(t)
  <2>1. /\ AtStdout(t) /\ Consume(t)
        /\ \E p \in {"release", "splice"} : Goto(t, p)
        /\ UNCHANGED <<connections, active_counts, ses, asked>>
    BY <1>13 DEF StallEnds, AfterStdout, poolVars
  <2>2. QED
    BY <1>1, <1>11, <2>1 DEF TypeOK, Goto, Point
<1>14. CASE StallFails(t)
  <2>1. sock' \in [Fd -> Socket]
    BY <1>2, <1>14, SocketUpdates DEF StallFails
  <2>2. QED
    BY <1>1, <1>14, <2>1 DEF StallFails, TypeOK, Goto, Point, poolVars
<1>6. CASE ReadEnd(t)
  <2>1. sock' \in [Fd -> Socket]
    BY <1>1, <1>2, <1>6, SocketUpdates DEF ReadEnd, Consume, Peer
  <2>2. QED
    BY <1>1, <1>6, <2>1 DEF ReadEnd, TypeOK, Goto, Point, poolVars
<1>7. CASE ReadFails(t)
  <2>1. sock' \in [Fd -> Socket]
    BY <1>2, <1>7, SocketUpdates DEF ReadFails
  <2>2. QED
    BY <1>1, <1>7, <2>1 DEF ReadFails, TypeOK, Goto, Point, poolVars
<1>8. CASE ReadChunk(t)
  <2> DEFINE out    == sock[f].out
             stdout == {i \in DOMAIN out : out[i].kind # "end"}
  <2>1. out \in Seq(Item)
    BY <1>1, <1>2 DEF Socket, Item
  <2>2. sock' \in [Fd -> Socket]
    <3>1. sock' = [sock EXCEPT ![f].out = <<>>]
      BY <1>8 DEF ReadChunk
    <3>2. [sock[f] EXCEPT !.out = <<>>] \in Socket
      BY <1>1, <1>2, SocketUpdates
    <3>3. QED
      BY <1>1, <1>2, <3>1, <3>2
  <2>3. UNCHANGED <<connections, active_counts, asked>>
    BY <1>8 DEF ReadChunk, poolVars
  <2>4. CASE stdout = {}
    <3>1. UNCHANGED <<pc, ses>>
      BY <1>8, <2>4 DEF ReadChunk, Peer
    <3>2. QED
      BY <2>2, <2>3, <3>1 DEF TypeOK
  <2>5. CASE stdout # {}
    <3>1. ses' = [ses EXCEPT ![t].got = out[Least(stdout)].req] /\ Goto(t, "release")
      BY <1>8, <2>5 DEF ReadChunk, Peer
    <3>2. stdout \in SUBSET Nat
      BY <2>1
    <3>3. Least(stdout) \in DOMAIN out
      BY <2>5, <3>2, LeastMember
    <3>4. out[Least(stdout)].req \in Request
      <4> HIDE DEF out, stdout
      <4>1. out[Least(stdout)] \in Item
        BY <2>1, <3>3
      <4>2. QED
        BY <4>1 DEF Item
    <3>5. /\ ses' \in [Thread -> Session] /\ ses'[t].fd \in Fd /\ ses'[t].req \in Request
          /\ \A u \in Thread : u # t => ses'[u] = ses[u]
      BY <1>1, <1>3, <3>1, <3>4 DEF TypeOK
    <3>6. QED
      BY <2>2, <2>3, <3>1, <3>5 DEF TypeOK, Goto, Point
  <2>6. QED
    BY <2>4, <2>5
<1>9. QED
  BY <1>4, <1>5, <1>6, <1>7, <1>8, <1>10, <1>12, <1>13, <1>14 DEF Stall

(* fcgi_session_destroy and fcgi_pool_conn_release, and the client's end:  *)
(* a session is forgotten whole.                                           *)
LEMMA TypeEnds ==
  ASSUME TypeOK, NEW t \in Thread, Discard(t) \/ Release(t) \/ ClientLeaves(t)
  PROVE  TypeOK'
<1>1. NoSession \in Session /\ NoSession.fd = NoFd
  BY SocketTypes, BoundAssumption DEF NoSession, Session
<1>2. ASSUME Finish(t)
      PROVE  /\ pc' \in [Thread -> Point] /\ ses' \in [Thread -> Session]
             /\ \A u \in Thread : /\ pc'[u] # "idle" => ses'[u].req \in Request
                                  /\ pc'[u] \notin Acquiring => ses'[u].fd \in Fd
  BY <1>1, <1>2 DEF Finish, Goto, TypeOK, Point, Acquiring
<1>3. CASE Discard(t)
  <2>1. sock' \in [Fd -> Socket]
    BY <1>3, SocketUpdates DEF Discard, TypeOK
  <2>2. QED
    BY <1>2, <1>3, <2>1 DEF Discard, TypeOK, poolVars
<1>4. CASE Release(t)
  <2> DEFINE f    == ses[t].fd
             i    == Least(Holding(f))
             keep == Holding(f) # {} /\ Healthy(f)
             kept == IF keep THEN f ELSE NoFd
  <2>1. sock' \in [Fd -> Socket]
    BY <1>4, SocketUpdates DEF Release, TypeOK
  <2>2. connections' \in [Slot -> SlotState]
    <3>1. kept \in Fd \cup {NoFd}
      BY DEF TypeOK, Session
    <3>2. [connections EXCEPT ![i].in_use = FALSE, ![i].sockfd = kept]
            \in [Slot -> SlotState]
      <4> HIDE DEF f, i, keep, kept
      <4>1. connections \in [Slot -> SlotState]
        BY DEF TypeOK, SlotState
      <4>2. i \in Slot => [connections[i] EXCEPT !.in_use = FALSE, !.sockfd = kept]
                             \in SlotState
        BY <3>1, <4>1 DEF SlotState
      <4>3. QED
        BY <4>1, <4>2
    <3>3. \/ connections' = connections
          \/ connections' = [connections EXCEPT ![i].in_use = FALSE, ![i].sockfd = kept]
      BY <1>4 DEF Release, poolVars
    <3>4. QED
      BY <3>2, <3>3 DEF TypeOK, SlotState
  <2>3. active_counts' \in [Backend -> Int]
    BY <1>4, IndexIsBackend DEF Release, Count, TypeOK, poolVars
  <2>4. QED
    BY <1>2, <1>4, <2>1, <2>2, <2>3 DEF Release, TypeOK, SlotState
<1>5. CASE ClientLeaves(t)
  <2>1. CASE Finish(t)
    BY <1>2, <1>5, <2>1 DEF ClientLeaves, TypeOK, poolVars
  <2>2. CASE pc[t] = "params" /\ Goto(t, "release") /\ UNCHANGED ses
    BY <1>5, <2>2 DEF ClientLeaves, TypeOK, poolVars, Goto, Point, Acquiring
  <2>3. QED
    BY <1>5, <2>1, <2>2 DEF ClientLeaves
<1>6. QED
  BY <1>3, <1>4, <1>5

(* A backend answers what it owes, or closes.                              *)
LEMMA TypeOutside ==
  ASSUME TypeOK, NEW f \in Fd, Outside(f)
  PROVE  TypeOK'
<1>1. sock \in [Fd -> Socket] /\ sock[f].owed \in Seq(Promise) /\ sock[f].out \in Seq(Item)
  BY DEF TypeOK, Socket, Promise, Item
<1>2. ASSUME NEW o \in Seq(Promise), NEW r \in Seq(Item),
             sock' = [sock EXCEPT ![f] = [Reply(f, r) EXCEPT !.owed = o]]
      PROVE  sock' \in [Fd -> Socket]
  <2>1. sock[f].out \o r \in Seq(Item)
    BY <1>1, ConcatProperties
  <2>2. [Reply(f, r) EXCEPT !.owed = o] \in Socket
    BY <1>1, <2>1 DEF Reply, Socket, Promise, Item
  <2>3. QED
    BY <1>1, <1>2, <2>2
<1>3. ASSUME sock[f].owed # <<>>
      PROVE  /\ Head(sock[f].owed) \in Promise /\ Head(sock[f].owed).req \in Request
             /\ Tail(sock[f].owed) \in Seq(Promise)
             /\ [sock[f].owed EXCEPT ![1].begun = TRUE] \in Seq(Promise)
  <2>1. Head(sock[f].owed) \in Promise /\ Tail(sock[f].owed) \in Seq(Promise)
    BY <1>1, <1>3, HeadTailProperties
  <2>2. 1 \in 1 .. Len(sock[f].owed) /\ sock[f].owed[1] \in Promise
    BY <1>1, <1>3
  <2>3. [sock[f].owed[1] EXCEPT !.begun = TRUE] \in Promise
    BY <2>2 DEF Promise
  <2>4. [sock[f].owed EXCEPT ![1].begun = TRUE] \in Seq(Promise)
    BY <1>1, <2>2, <2>3, ExceptSeq
  <2>5. Head(sock[f].owed).req \in Request
    BY <2>1 DEF Promise
  <2>6. QED
    BY <2>1, <2>4, <2>5
<1>4. \A r \in Request : \A k \in {"stdout", "redirect", "end"} : Record(r, k) \in Item
  BY DEF Record, Item
<1>5. ASSUME sock' \in [Fd -> Socket], UNCHANGED <<poolVars, pc, ses, asked>>
      PROVE  TypeOK'
  BY <1>5 DEF TypeOK, poolVars
<1>6. CASE Answer(f)
  <2>1. sock[f].owed # <<>>
    BY <1>6 DEF Answer, Busy
  <2> DEFINE r == Head(sock[f].owed).req
  <2>2. PICK k \in {"stdout", "redirect"} :
          sock' = [sock EXCEPT ![f] =
            [Reply(f, <<Record(r, k), Record(r, "end")>>) EXCEPT !.owed = Tail(@)]]
    BY <1>6 DEF Answer
  <2>3. <<Record(r, k), Record(r, "end")>> \in Seq(Item)
    BY <1>3, <1>4, <2>1
  <2>4. sock' = [sock EXCEPT ![f] =
          [Reply(f, <<Record(r, k), Record(r, "end")>>) EXCEPT !.owed = Tail(sock[f].owed)]]
    BY <1>1, <2>2 DEF Reply, Socket
  <2>5. sock' \in [Fd -> Socket]
    BY <1>2, <1>3, <2>1, <2>3, <2>4
  <2>6. QED
    BY <1>5, <1>6, <2>5 DEF Answer
<1>7. CASE AnswerBegins(f)
  <2>1. sock[f].owed # <<>>
    BY <1>7 DEF AnswerBegins, Busy
  <2> DEFINE r == Head(sock[f].owed).req
  <2>2. PICK k \in {"stdout", "redirect"} :
          sock' = [sock EXCEPT ![f] =
            [Reply(f, <<Record(r, k)>>) EXCEPT !.owed[1].begun = TRUE]]
    BY <1>7 DEF AnswerBegins
  <2>3. <<Record(r, k)>> \in Seq(Item)
    BY <1>3, <1>4, <2>1
  <2>4. sock' = [sock EXCEPT ![f] =
          [Reply(f, <<Record(r, k)>>) EXCEPT
             !.owed = [sock[f].owed EXCEPT ![1].begun = TRUE]]]
    BY <1>1, <2>2 DEF Reply, Socket
  <2>5. sock' \in [Fd -> Socket]
    BY <1>2, <1>3, <2>1, <2>3, <2>4
  <2>6. QED
    BY <1>5, <1>7, <2>5 DEF AnswerBegins
<1>8. CASE AnswerEnds(f)
  <2>1. sock[f].owed # <<>>
    BY <1>8 DEF AnswerEnds, Busy
  <2> DEFINE r == Head(sock[f].owed).req
  <2>2. <<Record(r, "end")>> \in Seq(Item)
    BY <1>3, <1>4, <2>1
  <2>3. sock' = [sock EXCEPT ![f] =
          [Reply(f, <<Record(r, "end")>>) EXCEPT !.owed = Tail(sock[f].owed)]]
    BY <1>1, <1>8 DEF AnswerEnds, Reply, Socket
  <2>4. sock' \in [Fd -> Socket]
    BY <1>2, <1>3, <2>1, <2>2, <2>3
  <2>5. QED
    BY <1>5, <1>8, <2>4 DEF AnswerEnds
<1>9. CASE BackendCloses(f)
  <2>1. <<>> \in Seq(Promise)
    OBVIOUS
  <2>2. [sock[f] EXCEPT !.alive = FALSE, !.owed = <<>>] \in Socket
    BY <1>1, <2>1 DEF Socket, Promise, Item
  <2>3. sock' \in [Fd -> Socket]
    BY <1>1, <1>9, <2>2 DEF BackendCloses
  <2>4. QED
    BY <1>5, <1>9, <2>3 DEF BackendCloses
<1>10. QED
  BY <1>6, <1>7, <1>8, <1>9 DEF Outside

(* Every step of every thread and backend keeps the types.                 *)
LEMMA TypeStep == TypeOK /\ [Next]_vars => TypeOK'
<1> SUFFICES ASSUME TypeOK, [Next]_vars
             PROVE  TypeOK'
  OBVIOUS
<1>1. ASSUME NEW t \in Thread, Begin(t) \/ Pool(t)
      PROVE  TypeOK'
  BY <1>1, TypePool
<1>2. ASSUME NEW t \in Thread, Step(t) \/ Stall(t) \/ ClientLeaves(t)
      PROVE  TypeOK'
  BY <1>2, TypeMoves, TypeTraffic, TypeEnds DEF Step
<1>3. ASSUME NEW f \in Fd, Outside(f)
      PROVE  TypeOK'
  BY <1>3, TypeOutside
<1>4. CASE UNCHANGED vars
  BY <1>4 DEF vars, poolVars, TypeOK
<1>5. QED
  BY <1>1, <1>2, <1>3, <1>4 DEF Next

(* The pool, its sockets and its sessions keep their types; in particular  *)
(* a session that fcgi_pool_conn_acquire sent on holds a descriptor, never *)
(* -1, in every state up to fcgi_pool_conn_release.                        *)
THEOREM TypeCorrect == Spec => []TypeOK
<1>1. Init => TypeOK
  BY TypeInit
<1>2. TypeOK /\ [Next]_vars => TypeOK'
  BY TypeStep
<1>3. QED
  BY <1>1, <1>2, PTL DEF Spec

-----------------------------------------------------------------------------
(***************************************************************************)
(* The quota.  Whoever passed the first check in fcgi_pool_conn_acquire    *)
(* and has not reused a connection yet counts as much as a connection in   *)
(* use: each of them may add one to the count without looking again.       *)
(***************************************************************************)

(* The room left: at most every thread passed the first check, and the     *)
(* last to do so was below the quota.                                      *)
LEMMA ReusingBound ==
  ASSUME NEW b
  PROVE  /\ Cardinality(Reusing(b)) \in Nat
         /\ Cardinality(Reusing(b)) <= Cardinality(Thread)
         /\ \A t \in Thread : t \notin Reusing(b) =>
               Cardinality(Reusing(b)) <= Cardinality(Thread) - 1
         /\ Cardinality(Thread) \in Nat
<1>1. Reusing(b) \subseteq Thread
  BY DEF Reusing
<1>2. IsFiniteSet(Thread) /\ IsFiniteSet(Reusing(b))
  BY <1>1, BoundAssumption, FS_Subset
<1>3. ASSUME NEW t \in Thread, t \notin Reusing(b)
      PROVE  Cardinality(Reusing(b)) <= Cardinality(Thread) - 1
  <2>1. /\ IsFiniteSet(Thread \ {t})
        /\ Cardinality(Thread \ {t}) = Cardinality(Thread) - 1
    BY <1>2, FS_RemoveElement
  <2>2. Reusing(b) \subseteq Thread \ {t}
    BY <1>1, <1>3
  <2>3. QED
    BY <2>1, <2>2, FS_Subset
<1>4. QED
  BY <1>1, <1>2, <1>3, FS_Subset, FS_CardinalityType

(* acquire and release count one way or the other by one.                  *)
LEMMA Counted ==
  ASSUME TypeOK, NEW b \in Backend, NEW c \in Backend, NEW d \in {1, -1}, Count(c, d)
  PROVE  /\ active_counts[b] \in Int
         /\ active_counts'[b] = IF b = c THEN active_counts[b] + d ELSE active_counts[b]
BY DEF TypeOK, Count

(* Only the two checks of acquire and the reuse move a thread in or out    *)
(* of Reusing; elsewhere it is left as it was.                             *)
LEMMA ReusingKept ==
  ASSUME TypeOK, NEW t \in Thread, pc[t] # "reuse", pc'[t] # "reuse",
         \A u \in Thread : u # t => pc'[u] = pc[u] /\ ses'[u] = ses[u],
         NEW b
  PROVE  Reusing(b)' = Reusing(b)
<1>1. \A u \in Thread : /\ u \in Reusing(b)' <=> u \in Reusing(b)
  BY DEF Reusing
<1>2. QED
  BY <1>1 DEF Reusing

(* The first check: whoever passes it was below the quota.                 *)
LEMMA QuotaCheck ==
  ASSUME TypeOK, OverQuota, NEW t \in Thread, CheckQuota(t)
  PROVE  OverQuota'
<1> SUFFICES ASSUME NEW b \in Backend
             PROVE  active_counts'[b] + Cardinality(Reusing(b)')
                      <= Quota[b] + Cardinality(Thread) - 1
  BY DEF OverQuota
<1>1. active_counts' = active_counts /\ ses' = ses /\ active_counts[b] \in Int
  BY DEF CheckQuota, poolVars, TypeOK
<1>2. Quota[b] \in Nat
  BY ConfigAssumption
<1>3. Reusing(b)' \subseteq Thread /\ IsFiniteSet(Thread)
  BY BoundAssumption DEF Reusing
<1>4. Cardinality(Reusing(b)') \in Nat /\ Cardinality(Reusing(b)') <= Cardinality(Thread)
      /\ Cardinality(Thread) \in Nat
  BY <1>3, FS_Subset, FS_CardinalityType
<1>5. CASE t \in Reusing(b)'
  <2>1. AcquireIndex(ses[t].node) = b /\ pc'[t] = "reuse"
    BY <1>1, <1>5 DEF Reusing
  <2>2. BelowQuota(t)
    BY <2>1 DEF CheckQuota, Goto, TypeOK
  <2>3. active_counts[b] < Quota[b]
    BY <2>1, <2>2 DEF BelowQuota
  <2>4. QED
    BY <1>1, <1>2, <1>4, <2>3
<1>6. CASE t \notin Reusing(b)'
  <2>1. \A u \in Thread : u \in Reusing(b)' <=> u \in Reusing(b)
    BY <1>1, <1>6 DEF CheckQuota, Goto, Reusing, TypeOK
  <2>2. Reusing(b)' = Reusing(b)
    BY <2>1 DEF Reusing
  <2>3. QED
    BY <1>1, <2>2 DEF OverQuota
<1>7. QED
  BY <1>5, <1>6

(* The reuse: what it adds to the count it takes from Reusing.             *)
LEMMA QuotaReuse ==
  ASSUME TypeOK, OverQuota, NEW t \in Thread, Reuse(t)
  PROVE  OverQuota'
<1> SUFFICES ASSUME NEW b \in Backend
             PROVE  active_counts'[b] + Cardinality(Reusing(b)')
                      <= Quota[b] + Cardinality(Thread) - 1
  BY DEF OverQuota
<1> DEFINE c == AcquireIndex(ses[t].node)
<1>1. c \in Backend /\ 1 \in {1, -1}
  BY IndexIsBackend
<1>2. active_counts' = active_counts \/ Count(c, 1)
  BY DEF Reuse
<1>3. /\ pc[t] = "reuse" /\ pc'[t] # "reuse"
      /\ \A u \in Thread : u # t => pc'[u] = pc[u] /\ ses'[u] = ses[u]
  <2>1. pc[t] = "reuse" /\ (Goto(t, "create") \/ Goto(t, "params"))
    BY DEF Reuse
  <2>2. \A u \in Thread : u # t => ses'[u] = ses[u]
    BY DEF Reuse, TypeOK
  <2>3. QED
    BY <2>1, <2>2 DEF Goto, TypeOK
<1> HIDE DEF c
<1>4. CASE b = c
  <2>1. t \in Reusing(b)
    BY <1>3, <1>4 DEF Reusing, c
  <2>2. \A u \in Thread : u \in Reusing(b)' <=> u \in Reusing(b) /\ u # t
    BY <1>3 DEF Reusing
  <2>3. Reusing(b)' = Reusing(b) \ {t}
    BY <2>2 DEF Reusing
  <2>4. IsFiniteSet(Reusing(b))
    BY BoundAssumption, FS_Subset DEF Reusing
  <2>5. Cardinality(Reusing(b)') = Cardinality(Reusing(b)) - 1
    BY <2>1, <2>3, <2>4, FS_RemoveElement
  <2>6. active_counts[b] \in Int /\ active_counts'[b] <= active_counts[b] + 1
    BY <1>1, <1>2, Counted DEF TypeOK
  <2>7. active_counts'[b] \in Int
    BY <1>1, <1>2, <2>6, Counted
  <2>8. QED
    BY <2>5, <2>6, <2>7, ReusingBound, ConfigAssumption DEF OverQuota
<1>5. CASE b # c
  <2>1. \A u \in Thread : u \in Reusing(b)' <=> u \in Reusing(b)
    BY <1>3, <1>5 DEF Reusing, c
  <2>2. Reusing(b)' = Reusing(b)
    BY <2>1 DEF Reusing
  <2>3. active_counts'[b] = active_counts[b]
    BY <1>1, <1>2, <1>5, Counted
  <2>4. QED
    BY <2>2, <2>3 DEF OverQuota
<1>6. QED
  BY <1>4, <1>5

(* The second check: the count is below the quota and the thread that      *)
(* stores is not about to reuse.                                           *)
LEMMA QuotaStore ==
  ASSUME TypeOK, OverQuota, NEW t \in Thread, Store(t)
  PROVE  OverQuota'
<1> SUFFICES ASSUME NEW b \in Backend
             PROVE  active_counts'[b] + Cardinality(Reusing(b)')
                      <= Quota[b] + Cardinality(Thread) - 1
  BY DEF OverQuota
<1> DEFINE c == AcquireIndex(ses[t].node)
<1>1. c \in Backend
  BY IndexIsBackend
<1>2. /\ pc[t] # "reuse" /\ pc'[t] # "reuse"
      /\ \A u \in Thread : u # t => pc'[u] = pc[u] /\ ses'[u] = ses[u]
  BY DEF Store, Goto, TypeOK
<1>3. Reusing(b)' = Reusing(b) /\ t \notin Reusing(b)
  BY <1>2, ReusingKept DEF Reusing
<1>4. active_counts' = active_counts \/ (active_counts[c] < Quota[c] /\ Count(c, 1))
  BY DEF Store, BelowQuota, poolVars
<1> HIDE DEF c
<1>5. CASE active_counts' = active_counts
  BY <1>3, <1>5 DEF OverQuota
<1>6. CASE active_counts[c] < Quota[c] /\ Count(c, 1)
  <2>1. /\ active_counts[b] \in Int
        /\ active_counts'[b] = IF b = c THEN active_counts[b] + 1 ELSE active_counts[b]
    BY <1>1, <1>6, Counted
  <2>2. CASE b = c
    <3>1. Quota[b] \in Nat /\ active_counts'[b] <= Quota[b]
      BY <1>6, <2>1, <2>2, ConfigAssumption
    <3>2. Cardinality(Reusing(b)) \in Nat
          /\ Cardinality(Reusing(b)) <= Cardinality(Thread) - 1
          /\ Cardinality(Thread) \in Nat
      BY <1>3, ReusingBound
    <3>3. active_counts'[b] \in Int
      BY <2>1, <2>2
    <3>4. active_counts'[b] + Cardinality(Reusing(b))
            <= Quota[b] + Cardinality(Thread) - 1
      BY <3>1, <3>2, <3>3
    <3>5. QED
      BY <1>3, <3>4
  <2>3. CASE b # c
    BY <1>3, <2>1, <2>3 DEF OverQuota
  <2>4. QED
    BY <2>2, <2>3
<1>7. QED
  BY <1>4, <1>5, <1>6

(* fcgi_pool_conn_release only takes away.                                 *)
LEMMA QuotaRelease ==
  ASSUME TypeOK, OverQuota, NEW t \in Thread, Release(t)
  PROVE  OverQuota'
<1> SUFFICES ASSUME NEW b \in Backend
             PROVE  active_counts'[b] + Cardinality(Reusing(b)')
                      <= Quota[b] + Cardinality(Thread) - 1
  BY DEF OverQuota
<1>1. /\ pc[t] # "reuse" /\ pc'[t] # "reuse"
      /\ \A u \in Thread : u # t => pc'[u] = pc[u] /\ ses'[u] = ses[u]
  BY DEF Release, Finish, Goto, TypeOK
<1>2. Reusing(b)' = Reusing(b)
  BY <1>1, ReusingKept
<1>3. active_counts' = active_counts \/ \E c \in Backend : Count(c, -1)
  BY IndexIsBackend DEF Release, poolVars
<1>4. /\ active_counts[b] \in Int /\ active_counts'[b] \in Int
      /\ active_counts'[b] <= active_counts[b]
  <2>1. CASE active_counts' = active_counts
    BY <2>1 DEF TypeOK
  <2>2. CASE \E c \in Backend : Count(c, -1)
    <3>1. PICK c \in Backend : Count(c, -1)
      BY <2>2
    <3>2. active_counts[b] \in Int
      BY DEF TypeOK
    <3>3. active_counts'[b] = IF b = c THEN active_counts[b] + (-1) ELSE active_counts[b]
      BY <3>1, Counted
    <3>4. QED
      BY <3>2, <3>3
  <2>3. QED
    BY <1>3, <2>1, <2>2
<1>5. QED
  BY <1>2, <1>4, ReusingBound, ConfigAssumption DEF OverQuota

(* Nothing else counts, and nothing else passes the first check.           *)
LEMMA QuotaElsewhere ==
  ASSUME TypeOK, OverQuota,
         UNCHANGED active_counts,
         \/ UNCHANGED <<pc, ses>>
         \/ \E t \in Thread :
              /\ pc[t] # "reuse" /\ pc'[t] # "reuse"
              /\ \A u \in Thread : u # t => pc'[u] = pc[u] /\ ses'[u] = ses[u]
  PROVE  OverQuota'
<1>1. ASSUME NEW b
      PROVE  Reusing(b)' = Reusing(b)
  <2>1. CASE UNCHANGED <<pc, ses>>
    BY <2>1 DEF Reusing
  <2>2. CASE \E t \in Thread :
              /\ pc[t] # "reuse" /\ pc'[t] # "reuse"
              /\ \A u \in Thread : u # t => pc'[u] = pc[u] /\ ses'[u] = ses[u]
    BY <2>2, ReusingKept
  <2>3. QED
    BY <2>1, <2>2
<1>2. QED
  BY <1>1 DEF OverQuota

(* A thread that neither checks, reuses, stores nor releases.              *)
LEMMA QuotaThread ==
  ASSUME TypeOK, NEW t \in Thread,
         \/ Begin(t) \/ Create(t) \/ CreateFails(t) \/ ClientLeaves(t) \/ Discard(t)
         \/ SendParams(t) \/ SendStdin(t) \/ SendFails(t) \/ HangUp(t)
         \/ PollInVain(t) \/ GiveUp(t) \/ Stall(t)
         \/ StartReading(t) \/ ReadStdout(t) \/ ReadEnd(t) \/ ReadFails(t)
         \/ ReadChunk(t) \/ ChunkFails(t)
  PROVE  /\ UNCHANGED active_counts
         /\ pc[t] # "reuse" /\ pc'[t] # "reuse"
         /\ \A u \in Thread : u # t => pc'[u] = pc[u] /\ ses'[u] = ses[u]
<1> USE DEF TypeOK, Goto, poolVars
<1>1. CASE Begin(t) \/ Create(t) \/ CreateFails(t) \/ ClientLeaves(t) \/ Discard(t)
  BY <1>1 DEF Begin, Create, CreateFails, ClientLeaves, Discard, Finish, Waiting,
     Sending
<1>2. CASE SendFails(t) \/ HangUp(t) \/ GiveUp(t)
  BY <1>2 DEF SendFails, HangUp, GiveUp, Waiting, Sending
<1>6. CASE SendParams(t) \/ SendStdin(t) \/ PollInVain(t)
  <2>1. \A u \in Thread : u # t => ses'[u] = ses[u]
    BY <1>6, Turns, TurnTaken
  <2>2. QED
    BY <1>6, <2>1 DEF SendParams, SendStdin, PollInVain, InVain, Waiting, Sending
<1>3. CASE StartReading(t) \/ ReadStdout(t) \/ ReadEnd(t) \/ ReadFails(t)
  BY <1>3 DEF StartReading, ReadStdout, Answered, AfterStdout, ReadEnd, ReadFails
<1>7. CASE Stall(t)
  BY <1>7 DEF Stall, StallBegins, StallEnds, StallFails, Answered, AfterStdout
<1>4. CASE ReadChunk(t) \/ ChunkFails(t)
  BY <1>4 DEF ReadChunk, ChunkFails
<1>5. QED
  BY <1>1, <1>2, <1>3, <1>4, <1>6, <1>7

(* No step takes the pool further over a quota than the threads that       *)
(* passed the first check together.                                        *)
LEMMA QuotaStep == TypeOK /\ OverQuota /\ [Next]_vars => OverQuota'
<1> SUFFICES ASSUME TypeOK, OverQuota, [Next]_vars
             PROVE  OverQuota'
  OBVIOUS
<1>1. ASSUME NEW t \in Thread, CheckQuota(t) \/ Reuse(t) \/ Store(t) \/ Release(t)
      PROVE  OverQuota'
  BY <1>1, QuotaCheck, QuotaReuse, QuotaStore, QuotaRelease
<1>2. ASSUME NEW t \in Thread,
             \/ Begin(t) \/ Create(t) \/ CreateFails(t) \/ ClientLeaves(t) \/ Discard(t)
             \/ SendParams(t) \/ SendStdin(t) \/ SendFails(t) \/ HangUp(t)
             \/ PollInVain(t) \/ GiveUp(t) \/ Stall(t)
             \/ StartReading(t) \/ ReadStdout(t) \/ ReadEnd(t) \/ ReadFails(t)
             \/ ReadChunk(t) \/ ChunkFails(t)
      PROVE  OverQuota'
  <2>1. /\ UNCHANGED active_counts
        /\ pc[t] # "reuse" /\ pc'[t] # "reuse"
        /\ \A u \in Thread : u # t => pc'[u] = pc[u] /\ ses'[u] = ses[u]
    BY <1>2, QuotaThread
  <2>2. QED
    BY <2>1, QuotaElsewhere
<1>3. ASSUME NEW f \in Fd, Outside(f)
      PROVE  OverQuota'
  <2>1. UNCHANGED <<active_counts, pc, ses>>
    BY <1>3 DEF Outside, Answer, AnswerBegins, AnswerEnds, BackendCloses, poolVars
  <2>2. QED
    BY <2>1, QuotaElsewhere
<1>4. CASE UNCHANGED vars
  <2>1. UNCHANGED <<active_counts, pc, ses>>
    BY <1>4 DEF vars, poolVars
  <2>2. QED
    BY <2>1, QuotaElsewhere
<1>5. CASE Next
  BY <1>1, <1>2, <1>3, <1>5 DEF Next, Pool, Step
<1>6. QED
  BY <1>4, <1>5

(* At the start nothing is in use and nobody has passed a check.           *)
LEMMA QuotaInit == Init => OverQuota
<1> SUFFICES ASSUME Init, NEW b \in Backend
             PROVE  active_counts[b] + Cardinality(Reusing(b))
                      <= Quota[b] + Cardinality(Thread) - 1
  BY DEF OverQuota
<1>1. Reusing(b) = {} /\ active_counts[b] = 0
  BY DEF Init, Reusing
<1>2. PICK t \in Thread : TRUE
  BY BoundAssumption
<1>3. Cardinality(Reusing(b)) <= Cardinality(Thread) - 1 /\ Cardinality(Thread) \in Nat
  BY <1>1, <1>2, ReusingBound
<1>4. Cardinality(Reusing(b)) = 0
  BY <1>1, FS_EmptySet
<1>5. QED
  BY <1>1, <1>3, <1>4, ConfigAssumption

(* The quota of a group is exceeded by fewer connections than there are    *)
(* threads, for every number of threads, nodes and slots, every quota and  *)
(* whatever the backends and the clients do: the unlocked first check of   *)
(* fcgi_pool_conn_acquire costs no more than that.                         *)
THEOREM QuotaCorrect == Spec => []OverQuota
<1>1. Init => TypeOK /\ OverQuota
  BY TypeInit, QuotaInit
<1>2. TypeOK /\ OverQuota /\ [Next]_vars => TypeOK' /\ OverQuota'
  BY TypeStep, QuotaStep
<1>3. QED
  BY <1>1, <1>2, PTL DEF Spec

-----------------------------------------------------------------------------
(* The faults under which the pool is sound: backends refuse, take their   *)
(* time, and close connections that wait in the pool.                      *)
Calm == Faults \subseteq {"refused", "idleclose", "slow"}

(* Every group has addresses and ports of its own, so that acquire and     *)
(* release count a connection where it belongs.                            *)
OwnGroups == \A n \in Node : AcquireIndex(n) = Group[n] /\ ReleaseIndex(n) = Group[n]

(* Past acquire a session has a descriptor ...                             *)
Has(t) == pc[t] \notin Acquiring

(* ... unless the reader failed or is stuck, ...                           *)
Lost == {"discard", "stalled"}

(* ... whose backend is there, and which is its own.  A new one leads to   *)
(* the node of the session.                                                *)
Held ==
  \A t \in Thread :
    /\ Has(t) => Peer(t).open /\ Peer(t).alive /\ pc[t] \notin Lost
    /\ ~Has(t) => ses[t].fd = NoFd
    /\ pc[t] = "store" => Peer(t).home = ses[t].node

OneUser == \A t, u \in Thread : Has(t) /\ Has(u) /\ ses[t].fd = ses[u].fd => t = u

(* A slot leads where it says, and no other leads there.                   *)
SlotsOwn ==
  \A i \in Slot : connections[i].sockfd # NoFd =>
    /\ sock[connections[i].sockfd].open
    /\ sock[connections[i].sockfd].home = connections[i].node
    /\ \A j \in Slot : connections[j].sockfd = connections[i].sockfd => j = i

(* A slot in use is not empty, and the slot of a session is in use.        *)
Marked ==
  /\ \A i \in Slot : connections[i].in_use => connections[i].sockfd # NoFd
  /\ \A i \in Slot, t \in Thread :
       Has(t) /\ connections[i].sockfd = ses[t].fd => connections[i].in_use /\ pc[t] # "store"

(* A response is read to its end: after a STDOUT there is more, and who    *)
(* reads has something to read.                                            *)
Whole ==
  /\ \A f \in Fd : \A i \in DOMAIN sock[f].out :
       sock[f].out[i].kind # "end" => i + 1 \in DOMAIN sock[f].out
  /\ \A t \in Thread : pc[t] = "splice" => Peer(t).out # <<>>

PoolInv == Held /\ OneUser /\ SlotsOwn /\ Marked /\ Whole /\ NoneLost

(* A step that moves no connection.                                        *)
LEMMA Unmoved ==
  ASSUME TypeOK, PoolInv, Whole', UNCHANGED connections,
         \A t \in Thread : /\ Has(t)' <=> Has(t)
                           /\ ses'[t].fd = ses[t].fd
                           /\ pc'[t] \in Lost => pc[t] \in Lost
                           /\ pc'[t] = "store" => pc[t] = "store" /\ ses'[t].node = ses[t].node,
         \A f \in Fd : sock'[f].open = sock[f].open /\ sock'[f].home = sock[f].home,
         \A t \in Thread : Has(t) => sock'[ses[t].fd].alive = sock[ses[t].fd].alive
  PROVE  PoolInv'
<1>1. \A t \in Thread : Has(t) => ses[t].fd \in Fd
  BY DEF TypeOK, Has
<1>2. \A i \in Slot : connections[i].sockfd # NoFd => connections[i].sockfd \in Fd
  BY DEF TypeOK
<1>3. Held'
  BY <1>1 DEF PoolInv, Held, Peer, Has, Acquiring, Lost
<1>4. OneUser'
  BY DEF PoolInv, OneUser
<1>5. SlotsOwn'
  BY <1>2 DEF PoolInv, SlotsOwn
<1>6. Marked'
  BY DEF PoolInv, Marked
<1>7. NoneLost'
  BY DEF PoolInv, NoneLost
<1> QED
  BY <1>3, <1>4, <1>5, <1>6, <1>7 DEF PoolInv

(* What the scan of acquire does. *)
Swept(bad) == [i \in Slot |-> IF i \in bad THEN [connections[i] EXCEPT !.sockfd = NoFd]
                              ELSE connections[i]]
Scanned(t, bad, i) ==
  /\ i \in Slot \ bad /\ Belongs(i, ses[t].node) /\ Quiet(connections[i].sockfd)
  /\ connections' = [Swept(bad) EXCEPT ![i].in_use = TRUE]
  /\ ses' = [ses EXCEPT ![t].fd = connections[i].sockfd]
  /\ Count(AcquireIndex(ses[t].node), 1)
  /\ Goto(t, "params")

LEMMA ReuseEffect ==
  ASSUME TypeOK, NEW t \in Thread, Reuse(t)
  PROVE  \E bad \in SUBSET Slot :
           /\ \A i \in bad : Belongs(i, ses[t].node)
           /\ CloseAll({connections[i].sockfd : i \in bad})
           /\ \/ /\ connections' = Swept(bad)
                 /\ Goto(t, "create")
                 /\ UNCHANGED <<active_counts, ses>>
              \/ \E i \in Slot : Scanned(t, bad, i)
<1> DEFINE n     == ses[t].node
           mine  == {i \in Slot : Belongs(i, n)}
           quiet == {i \in mine : Quiet(connections[i].sockfd)}
           first == Least(quiet)
           bad   == {i \in mine \ quiet : quiet = {} \/ i < first}
<1>1. bad \in SUBSET Slot /\ \A i \in bad : Belongs(i, n)
  OBVIOUS
<1>2. CloseAll({connections[i].sockfd : i \in bad})
  BY DEF Reuse
<1>3. CASE quiet = {}
  <2>1. connections' = Swept(bad) /\ Goto(t, "create") /\ UNCHANGED <<active_counts, ses>>
    BY <1>3 DEF Reuse, Swept
  <2> HIDE DEF bad
  <2> QED
    BY <1>1, <1>2, <2>1
<1>4. CASE quiet # {}
  <2>1. first \in quiet
    BY <1>4, SlotsAreNumbers, LeastMember
  <2>2. first \in Slot \ bad /\ Belongs(first, n) /\ Quiet(connections[first].sockfd)
    BY <2>1
  <2>3. /\ connections' = [Swept(bad) EXCEPT ![first].in_use = TRUE]
        /\ ses' = [ses EXCEPT ![t].fd = connections[first].sockfd]
        /\ Count(AcquireIndex(n), 1)
        /\ Goto(t, "params")
    BY <1>4 DEF Reuse, Swept
  <2> HIDE DEF bad, first
  <2>4. Scanned(t, bad, first)
    BY <2>2, <2>3 DEF Scanned
  <2> QED
    BY <1>1, <1>2, <2>2, <2>4
<1> QED
  BY <1>3, <1>4

(* The connections it closes were nobody's. *)
LEMMA ReuseStep ==
  ASSUME TypeOK, PoolInv, NEW t \in Thread, Reuse(t)
  PROVE  PoolInv'
<1>1. PICK bad \in SUBSET Slot :
           /\ \A i \in bad : Belongs(i, ses[t].node)
           /\ CloseAll({connections[i].sockfd : i \in bad})
           /\ \/ /\ connections' = Swept(bad)
                 /\ Goto(t, "create")
                 /\ UNCHANGED <<active_counts, ses>>
              \/ \E i \in Slot : Scanned(t, bad, i)
  BY ReuseEffect
<1>2. /\ \A i \in Slot : connections[i].sockfd # NoFd => connections[i].sockfd \in Fd
      /\ \A u \in Thread : Has(u) => ses[u].fd \in Fd
      /\ connections \in [Slot -> SlotState] /\ pc \in [Thread -> Point]
      /\ ses \in [Thread -> Session]
      /\ Held /\ OneUser /\ SlotsOwn /\ Marked /\ Whole /\ NoneLost
      /\ pc[t] = "reuse" /\ ~Has(t)
  BY DEF TypeOK, Has, PoolInv, Reuse, SlotState, Acquiring
<1>3. \A i \in bad : connections[i].sockfd # NoFd /\ ~connections[i].in_use
  BY <1>1 DEF Belongs
<1>4. /\ \A f \in Fd : (\E i \in bad : connections[i].sockfd = f) => sock'[f] = Closed
      /\ \A f \in Fd : ~(\E i \in bad : connections[i].sockfd = f) => sock'[f] = sock[f]
  BY <1>1 DEF CloseAll
<1>5. /\ \A u \in Thread : Has(u) => sock'[ses[u].fd] = sock[ses[u].fd]
      /\ \A j \in Slot \ bad : connections[j].sockfd # NoFd =>
           sock'[connections[j].sockfd] = sock[connections[j].sockfd]
      /\ \A f \in Fd : sock'[f].open => sock'[f] = sock[f] /\ \A i \in bad : connections[i].sockfd # f
  BY <1>2, <1>3, <1>4 DEF Marked, SlotsOwn, Closed
<1>6. /\ \A i \in Slot : Swept(bad)[i].sockfd = IF i \in bad THEN NoFd ELSE connections[i].sockfd
      /\ \A i \in Slot : Swept(bad)[i].in_use = connections[i].in_use
      /\ \A i \in Slot : Swept(bad)[i].node = connections[i].node
      /\ Swept(bad) \in [Slot -> SlotState]
  BY <1>2, BoundAssumption DEF Swept, SlotState
<1>7. \A f \in Fd : \A i \in DOMAIN sock'[f].out :
        sock'[f].out[i].kind # "end" => i + 1 \in DOMAIN sock'[f].out
  <2>1. \A f \in Fd : sock'[f] = sock[f] \/ sock'[f].out = <<>>
    BY <1>4 DEF Closed
  <2> QED
    BY <1>2, <2>1 DEF Whole
<1>8. ASSUME connections' = Swept(bad), Goto(t, "create"), UNCHANGED <<active_counts, ses>>
      PROVE  PoolInv'
  <2>1. /\ \A u \in Thread : Has(u)' <=> Has(u)
        /\ \A u \in Thread : u # t => pc'[u] = pc[u]
        /\ pc'[t] = "create"
    BY <1>2, <1>8 DEF Goto, Has, Acquiring
  <2>2. Held'
    BY <1>2, <1>5, <1>8, <2>1 DEF Held, Peer, Has, Acquiring, Lost
  <2>3. OneUser'
    BY <1>2, <1>8, <2>1 DEF OneUser
  <2>4. SlotsOwn'
    BY <1>2, <1>5, <1>6, <1>8 DEF SlotsOwn
  <2>5. Marked'
    BY <1>2, <1>3, <1>6, <1>8, <2>1, BoundAssumption DEF Marked, Has
  <2>6. Whole'
    BY <1>2, <1>5, <1>7, <1>8, <2>1 DEF Whole, Peer, Has, Acquiring
  <2>7. NoneLost'
    BY <1>2, <1>5, <1>6, <1>8 DEF NoneLost
  <2> QED
    BY <2>2, <2>3, <2>4, <2>5, <2>6, <2>7 DEF PoolInv
<1>9. ASSUME NEW s \in Slot, Scanned(t, bad, s)
      PROVE  PoolInv'
  <2> DEFINE g == connections[s].sockfd
  <2>1. /\ s \notin bad /\ g \in Fd /\ ~connections[s].in_use
        /\ sock[g].open /\ sock[g].alive /\ sock'[g] = sock[g]
    BY <1>2, <1>5, <1>9 DEF Scanned, Belongs, Quiet
  <2>2. \A u \in Thread : ses'[u].fd = IF u = t THEN g ELSE ses[u].fd
    BY <1>2, <1>9 DEF Scanned, Session
  <2>3. /\ \A u \in Thread : u # t => pc'[u] = pc[u]
        /\ pc'[t] = "params"
    BY <1>2, <1>9 DEF Scanned, Goto
  <2>4. /\ \A u \in Thread : u # t => (Has(u)' <=> Has(u))
        /\ Has(t)'
    BY <2>3 DEF Has, Acquiring
  <2>5. /\ \A i \in Slot : connections'[i].sockfd = IF i \in bad THEN NoFd ELSE connections[i].sockfd
        /\ \A i \in Slot : connections'[i].in_use <=> connections[i].in_use \/ i = s
        /\ \A i \in Slot : connections'[i].node = connections[i].node
    <3> DEFINE W == Swept(bad)
    <3>1. W \in [Slot -> SlotState] /\ connections' = [W EXCEPT ![s].in_use = TRUE]
      BY <1>6, <1>9 DEF Scanned
    <3>2. /\ \A i \in Slot : W[i].sockfd = IF i \in bad THEN NoFd ELSE connections[i].sockfd
          /\ \A i \in Slot : W[i].in_use = connections[i].in_use
          /\ \A i \in Slot : W[i].node = connections[i].node
      BY <1>6
    <3> HIDE DEF W
    <3>3. /\ \A i \in Slot \ {s} : connections'[i] = W[i]
          /\ connections'[s] = [W[s] EXCEPT !.in_use = TRUE]
      BY <3>1
    <3>4. /\ connections'[s].sockfd = W[s].sockfd
          /\ connections'[s].in_use
          /\ connections'[s].node = W[s].node
      BY <3>1, <3>3 DEF SlotState
    <3> QED
      BY <3>2, <3>3, <3>4
  <2>6. \A u \in Thread : Has(u) => ses[u].fd # g
    BY <1>2, <2>1 DEF Marked
  <2> HIDE DEF g
  <2>7. Held'
    <3>1. \A u \in Thread : u # t => ses'[u] = ses[u]
      BY <1>2, <1>9 DEF Scanned
    <3>2. \A u \in Thread : pc'[u] = "store" => u # t /\ Has(u)
      BY <2>3 DEF Has, Acquiring
    <3> QED
      BY <1>2, <1>5, <2>1, <2>2, <2>3, <2>4, <3>1, <3>2 DEF Held, Peer, Lost
  <2>8. OneUser'
    BY <1>2, <2>2, <2>4, <2>6 DEF OneUser
  <2>9. SlotsOwn'
    BY <1>2, <1>5, <2>5 DEF SlotsOwn
  <2>10. Marked'
    BY <1>2, <1>3, <2>1, <2>2, <2>3, <2>4, <2>5, BoundAssumption DEF Marked, SlotsOwn, g
  <2>11. Whole'
    BY <1>2, <1>5, <1>7, <2>2, <2>3, <2>4 DEF Whole, Peer, Has, Acquiring
  <2>12. NoneLost'
    BY <1>2, <1>5, <2>2, <2>5, BoundAssumption DEF NoneLost, Held
  <2> QED
    BY <2>7, <2>8, <2>9, <2>10, <2>11, <2>12 DEF PoolInv
<1> QED
  BY <1>1, <1>8, <1>9

(* What a session without a connection does to the pool: nothing.          *)
LEMMA AcquireMoves ==
  ASSUME TypeOK, PoolInv, NEW t \in Thread, Begin(t) \/ CheckQuota(t) \/ CreateFails(t)
  PROVE  PoolInv'
<1>1. /\ UNCHANGED <<sock, connections>>
      /\ pc[t] \in Acquiring /\ pc'[t] \in Acquiring
      /\ \A u \in Thread : u # t => pc'[u] = pc[u]
      /\ \A u \in Thread : ses'[u].fd = ses[u].fd /\ (u # t => ses'[u].node = ses[u].node)
  <2>1. ~Has(t) => ses[t].fd = NoFd
    BY DEF PoolInv, Held
  <2>2. CASE Begin(t)
    <3>1. /\ ses'[t].fd = NoFd
          /\ \A u \in Thread : u # t => ses'[u] = ses[u]
      BY <2>2, Begun
    <3> QED
      BY <2>1, <2>2, <3>1 DEF Begin, Goto, TypeOK, poolVars, Acquiring, Has
  <2>3. CASE CheckQuota(t)
    BY <2>3 DEF CheckQuota, Goto, TypeOK, poolVars, Acquiring
  <2>4. CASE CreateFails(t)
    BY <2>1, <2>4 DEF CreateFails, Finish, Goto, TypeOK, poolVars, Acquiring,
       NoSession, Has
  <2> QED
    BY <2>2, <2>3, <2>4
<1>2. \A u \in Thread : /\ Has(u)' <=> Has(u)
                        /\ pc'[u] \in Lost => pc[u] \in Lost
                        /\ pc'[u] = "store" => pc[u] = "store" /\ ses'[u].node = ses[u].node
                        /\ pc'[u] = "splice" => pc[u] = "splice"
  BY <1>1 DEF Has, Acquiring, Lost
<1>3. Whole'
  BY <1>1, <1>2 DEF PoolInv, Whole, Peer
<1> QED
  BY <1>1, <1>2, <1>3, Unmoved

(* A session that sends, waits or starts to read moves no connection.      *)
LEMMA SessionMoves ==
  ASSUME TypeOK, PoolInv, NEW t \in Thread,
         \/ SendStdin(t) \/ PollInVain(t) \/ SendFails(t) \/ HangUp(t) \/ GiveUp(t)
         \/ StartReading(t) \/ ChunkFails(t)
  PROVE  PoolInv'
<1>0. \A u \in Thread : ses'[u].fd = ses[u].fd /\ ses'[u].node = ses[u].node
  <2>1. CASE SendStdin(t) \/ PollInVain(t)
    BY <2>1, Turns, TurnTaken
  <2>2. CASE ~(SendStdin(t) \/ PollInVain(t))
    <3>1. ses' = ses
      BY <2>2 DEF SendFails, HangUp, GiveUp, StartReading, ChunkFails
    <3> QED
      BY <3>1
  <2> QED
    BY <2>1, <2>2
<1>1. /\ UNCHANGED <<sock, connections>>
      /\ pc[t] \in Waiting
      /\ pc' = [pc EXCEPT ![t] = pc'[t]]
      /\ \A u \in Thread : u # t => pc'[u] = pc[u]
      /\ Peer(t).open /\ Peer(t).alive
  <2>1. pc[t] \in Waiting
    BY DEF SendStdin, PollInVain, InVain, SendFails, HangUp, GiveUp, StartReading,
           ChunkFails, Waiting, Sending
  <2>2. Has(t)
    BY <2>1 DEF Has, Waiting, Sending, Acquiring
  <2> QED
    BY <2>1, <2>2 DEF SendStdin, PollInVain, InVain, SendFails, HangUp, GiveUp,
       StartReading, ChunkFails, Goto, TypeOK, poolVars, PoolInv, Held
<1>2. /\ pc'[t] \in Waiting \cup {"release", "splice"}
      /\ pc'[t] = "splice" => Peer(t).out # <<>>
  BY <1>1 DEF SendStdin, PollInVain, SendFails, HangUp, GiveUp, StartReading,
     ChunkFails, Goto, TypeOK, Waiting, Sending
<1>3. \A u \in Thread : /\ Has(u)' <=> Has(u)
                        /\ pc'[u] \in Lost => pc[u] \in Lost
                        /\ pc'[u] = "store" => pc[u] = "store" /\ ses'[u].node = ses[u].node
  BY <1>0, <1>1, <1>2 DEF Has, Acquiring, Waiting, Sending, Lost
<1>4. Whole'
  BY <1>0, <1>1, <1>2 DEF PoolInv, Whole, Peer
<1> QED
  BY <1>0, <1>1, <1>3, <1>4, Unmoved

(* create_backend_socket takes a number that is not open, so neither a     *)
(* session nor a slot has it.                                              *)
LEMMA CreateStep ==
  ASSUME TypeOK, PoolInv, NEW t \in Thread, Create(t)
  PROVE  PoolInv'
<1>1. PICK f \in Fd : /\ ~sock[f].open
                      /\ sock' = [sock EXCEPT ![f] = Connected(ses[t].node)]
                      /\ ses' = [ses EXCEPT ![t].fd = f]
  BY DEF Create
<1>2. /\ \A i \in Slot : connections[i].sockfd # NoFd => connections[i].sockfd \in Fd
      /\ \A u \in Thread : Has(u) => ses[u].fd \in Fd
      /\ sock \in [Fd -> Socket] /\ pc \in [Thread -> Point] /\ ses \in [Thread -> Session]
      /\ Held /\ OneUser /\ SlotsOwn /\ Marked /\ Whole /\ NoneLost
      /\ pc[t] = "create" /\ ~Has(t) /\ connections' = connections
      /\ pc' = [pc EXCEPT ![t] = "store"]
  BY DEF TypeOK, Has, PoolInv, Create, Acquiring, Goto, poolVars
<1>3. /\ \A i \in Slot : connections[i].sockfd # f
      /\ \A u \in Thread : Has(u) => ses[u].fd # f
  BY <1>1, <1>2, BoundAssumption DEF SlotsOwn, Held, Peer
<1>4. /\ sock'[f].open /\ sock'[f].alive /\ sock'[f].out = <<>>
      /\ \A g \in Fd : g # f => sock'[g] = sock[g]
      /\ \A u \in Thread : ses'[u].fd = IF u = t THEN f ELSE ses[u].fd
      /\ \A u \in Thread : u # t => pc'[u] = pc[u] /\ (Has(u)' <=> Has(u))
      /\ pc'[t] = "store" /\ Has(t)'
  BY <1>1, <1>2 DEF Connected, Session, Has, Acquiring
<1>5. Held'
  <2>1. \A u \in Thread : ses'[u].node = ses[u].node
    BY <1>1, <1>2 DEF Session
  <2>2. sock'[f].home = ses[t].node
    BY <1>1, <1>2 DEF Connected
  <2>3. \A u \in Thread : pc'[u] = "store" => u = t \/ (pc[u] = "store" /\ Has(u))
    BY <1>2, <1>4 DEF Has, Acquiring
  <2> QED
    BY <1>1, <1>2, <1>3, <1>4, <2>1, <2>2, <2>3 DEF Held, Peer, Lost
<1>6. OneUser'
  BY <1>1, <1>2, <1>3, <1>4 DEF OneUser
<1>7. SlotsOwn'
  BY <1>1, <1>2, <1>3, <1>4 DEF SlotsOwn
<1>8. Marked'
  BY <1>1, <1>2, <1>3, <1>4 DEF Marked
<1>9. Whole'
  <2>1. \A g \in Fd : sock'[g] = sock[g] \/ sock'[g].out = <<>>
    BY <1>4
  <2>2. \A g \in Fd : \A i \in DOMAIN sock'[g].out :
          sock'[g].out[i].kind # "end" => i + 1 \in DOMAIN sock'[g].out
    BY <1>2, <2>1 DEF Whole
  <2>3. \A u \in Thread : pc'[u] = "splice" => u # t /\ Has(u)
    BY <1>4 DEF Has, Acquiring
  <2> QED
    BY <1>2, <1>3, <1>4, <2>2, <2>3 DEF Whole, Peer
<1>10. NoneLost'
  BY <1>1, <1>2, <1>3, <1>4, BoundAssumption DEF NoneLost, Held
<1> QED
  BY <1>5, <1>6, <1>7, <1>8, <1>9, <1>10 DEF PoolInv

(* acquire stores the new connection in an empty slot, or leaves it out.   *)
LEMMA StoreStep ==
  ASSUME TypeOK, PoolInv, NEW t \in Thread, Store(t)
  PROVE  PoolInv'
<1>1. /\ \A i \in Slot : connections[i].sockfd # NoFd => connections[i].sockfd \in Fd
      /\ \A u \in Thread : Has(u) => ses[u].fd \in Fd
      /\ connections \in [Slot -> SlotState]
      /\ pc \in [Thread -> Point]
      /\ Held /\ OneUser /\ SlotsOwn /\ Marked /\ Whole /\ NoneLost
      /\ pc[t] = "store" /\ Has(t) /\ UNCHANGED <<sock, ses>>
      /\ pc' = [pc EXCEPT ![t] = "params"]
  BY DEF TypeOK, Has, PoolInv, Store, Acquiring, Goto, SlotState
<1>2. /\ \A i \in Slot : connections[i].sockfd # ses[t].fd
      /\ \A u \in Thread : u # t => pc'[u] = pc[u]
      /\ \A u \in Thread : Has(u)' <=> Has(u)
      /\ pc'[t] = "params"
  BY <1>1 DEF Marked, Has, Acquiring
<1>3. Whole'
  BY <1>1, <1>2 DEF Whole, Peer
<1>4. CASE connections' = connections
  <2>1. Held'
    BY <1>1, <1>2 DEF Held, Peer, Lost
  <2>2. OneUser' /\ SlotsOwn' /\ NoneLost'
    BY <1>1, <1>2, <1>4 DEF OneUser, SlotsOwn, NoneLost
  <2>3. Marked'
    BY <1>1, <1>2, <1>4 DEF Marked
  <2> QED
    BY <1>3, <2>1, <2>2, <2>3 DEF PoolInv
<1>5. CASE connections' # connections
  <2> DEFINE s == Least(Empty)
  <2>1. Empty # {} /\ s \in Empty
    BY <1>5, SlotsAreNumbers, LeastMember DEF Store, poolVars, Empty
  <2>2. /\ s \in Slot /\ connections[s].sockfd = NoFd
        /\ connections' = [connections EXCEPT ![s] =
             [sockfd |-> ses[t].fd, in_use |-> TRUE, node |-> ses[t].node]]
    BY <1>5, <2>1 DEF Store, poolVars, Empty
  <2> HIDE DEF s
  <2>3. /\ \A i \in Slot : i # s => connections'[i] = connections[i]
        /\ connections'[s].sockfd = ses[t].fd /\ connections'[s].in_use
        /\ connections'[s].node = ses[t].node
    BY <1>1, <2>2
  <2>4. Held' /\ OneUser'
    BY <1>1, <1>2 DEF Held, OneUser, Peer, Lost
  <2>5. SlotsOwn'
    BY <1>1, <1>2, <2>2, <2>3 DEF SlotsOwn, Held, Peer
  <2>6. Marked'
    BY <1>1, <1>2, <2>2, <2>3, BoundAssumption DEF Marked, OneUser
  <2>7. NoneLost'
    BY <1>1, <2>2, <2>3, BoundAssumption DEF NoneLost
  <2> QED
    BY <1>3, <2>4, <2>5, <2>6, <2>7 DEF PoolInv
<1> QED
  BY <1>4, <1>5

(* Each record that is not the last of its response has one behind it.     *)
Ends2(s) == \A i \in DOMAIN s : s[i].kind # "end" => i + 1 \in DOMAIN s

LEMMA EndsTail ==
  ASSUME NEW s \in Seq(Item), s # <<>>, Ends2(s)
  PROVE  Ends2(Tail(s)) /\ (Head(s).kind # "end" => Tail(s) # <<>>)
<1>1. /\ Len(s) \in Nat \ {0} /\ DOMAIN s = 1 .. Len(s) /\ Head(s) = s[1]
      /\ Len(Tail(s)) = Len(s) - 1 /\ DOMAIN Tail(s) = 1 .. Len(s) - 1
      /\ \A i \in 1 .. Len(s) - 1 : Tail(s)[i] = s[i + 1]
  OBVIOUS
<1>2. Ends2(Tail(s))
  BY <1>1 DEF Ends2
<1>3. Head(s).kind # "end" => 2 \in 1 .. Len(s)
  BY <1>1 DEF Ends2
<1>4. Head(s).kind # "end" => Len(Tail(s)) # 0
  BY <1>1, <1>3
<1>5. Len(<<>>) = 0
  OBVIOUS
<1> QED
  BY <1>2, <1>4, <1>5

LEMMA EndsMore ==
  ASSUME NEW s \in Seq(Item), Ends2(s), NEW r \in Item, NEW e \in Item, e.kind = "end"
  PROVE  /\ Ends2(s \o <<r, e>>) /\ s \o <<r, e>> # <<>>
         /\ Ends2(s \o <<e>>) /\ s \o <<e>> # <<>>
<1>1. s \in Seq(Item) /\ Len(s) \in Nat /\ DOMAIN s = 1 .. Len(s)
  OBVIOUS
<1>2. Ends2(s \o <<e>>) /\ s \o <<e>> # <<>>
  <2> DEFINE m == s \o <<e>>
  <2>1. DOMAIN m = 1 .. Len(s) + 1
    OBVIOUS
  <2>2. \A i \in 1 .. Len(s) : m[i] = s[i]
    OBVIOUS
  <2>3. m[Len(s) + 1] = e
    OBVIOUS
  <2> HIDE DEF m
  <2>4. Ends2(m)
    BY <1>1, <2>1, <2>2, <2>3 DEF Ends2
  <2>5. DOMAIN m # {}
    <3>1. 1 \in DOMAIN m
      BY <1>1, <2>1
    <3> QED
      BY <3>1
  <2>6. m # <<>>
    BY <2>5
  <2> QED
    BY <2>4, <2>6 DEF m
<1>3. Ends2(s \o <<r, e>>) /\ s \o <<r, e>> # <<>>
  <2> DEFINE m == s \o <<r, e>>
  <2>1. DOMAIN m = 1 .. Len(s) + 2
    OBVIOUS
  <2>2. \A i \in 1 .. Len(s) : m[i] = s[i]
    OBVIOUS
  <2>3. m[Len(s) + 2] = e
    OBVIOUS
  <2> HIDE DEF m
  <2>4. Ends2(m)
    BY <1>1, <2>1, <2>2, <2>3 DEF Ends2
  <2>5. DOMAIN m # {}
    <3>1. 1 \in DOMAIN m
      BY <1>1, <2>1
    <3> QED
      BY <3>1
  <2>6. m # <<>>
    BY <2>5
  <2> QED
    BY <2>4, <2>6 DEF m
<1> QED
  BY <1>2, <1>3

(* A session that sends or reads on its connection moves none.             *)
LEMMA TrafficMoves ==
  ASSUME TypeOK, PoolInv, Calm, NEW t \in Thread,
         SendParams(t) \/ ReadStdout(t) \/ ReadEnd(t) \/ ReadFails(t) \/ ReadChunk(t)
  PROVE  PoolInv'
<1> DEFINE g == ses[t].fd
<1>1. /\ pc[t] \in {"params", "splice", "recv"} /\ Has(t) /\ g \in Fd
      /\ sock \in [Fd -> Socket] /\ sock[g] \in Socket
      /\ sock[g].out \in Seq(Item) /\ Ends2(sock[g].out)
      /\ pc[t] = "splice" => sock[g].out # <<>>
      /\ \A u \in Thread : u # t /\ Has(u) => ses[u].fd # g
  <2>1. pc[t] \in {"params", "splice", "recv"}
    BY DEF SendParams, ReadStdout, ReadEnd, ReadFails, ReadChunk
  <2>2. Has(t) /\ g \in Fd
    BY <2>1 DEF Has, Acquiring, TypeOK
  <2>3. sock \in [Fd -> Socket] /\ sock[g] \in Socket /\ sock[g].out \in Seq(Item)
    BY <2>2 DEF TypeOK, Socket, Item
  <2> QED
    BY <2>1, <2>2, <2>3 DEF PoolInv, Whole, OneUser, Ends2, Peer
<1>2. ~ReadFails(t)
  BY <1>1 DEF ReadFails, Calm, Peer
<1>3. PICK o, r : /\ sock' = [sock EXCEPT ![g] = [sock[g] EXCEPT !.owed = o, !.out = r]]
                  /\ Ends2(r)
                  /\ pc'[t] = "splice" => r # <<>>
  <2>0. Ends2(<<>>)
    BY DEF Ends2
  <2>1. CASE SendParams(t)
    <3>1. sock' = [sock EXCEPT ![g] = [sock[g] EXCEPT
             !.owed = Append(sock[g].owed, [req |-> ses[t].req, begun |-> FALSE]), !.out = sock[g].out]]
      BY <1>1, <2>1 DEF SendParams, Socket
    <3>2. pc'[t] # "splice"
      BY <2>1 DEF SendParams, Goto, TypeOK
    <3> QED
      BY <1>1, <3>1, <3>2
  <2>2. CASE ReadStdout(t)
    <3>1. sock' = [sock EXCEPT ![g] = [sock[g] EXCEPT !.owed = sock[g].owed, !.out = Tail(sock[g].out)]]
      BY <1>1, <2>2 DEF ReadStdout, Consume, Socket
    <3>2. sock[g].out # <<>> /\ Head(sock[g].out).kind # "end"
      BY <2>2 DEF ReadStdout, AtStdout, Peer
    <3> QED
      BY <1>1, <3>1, <3>2, EndsTail
  <2>3. CASE ReadEnd(t)
    <3>1. sock' = [sock EXCEPT ![g] = [sock[g] EXCEPT !.owed = sock[g].owed, !.out = Tail(sock[g].out)]]
      BY <1>1, <2>3 DEF ReadEnd, Consume, Socket
    <3>2. sock[g].out # <<>> /\ pc'[t] = "release"
      BY <2>3 DEF ReadEnd, Peer, Goto, TypeOK
    <3> QED
      BY <1>1, <3>1, <3>2, EndsTail
  <2>4. CASE ReadChunk(t)
    <3>1. sock' = [sock EXCEPT ![g] = [sock[g] EXCEPT !.owed = sock[g].owed, !.out = <<>>]]
      BY <1>1, <2>4 DEF ReadChunk, Socket
    <3>2. pc'[t] # "splice"
      BY <2>4 DEF ReadChunk, Goto, TypeOK
    <3> QED
      BY <2>0, <3>1, <3>2
  <2> QED
    BY <1>2, <2>1, <2>2, <2>3, <2>4
<1>4. /\ \A h \in Fd : /\ sock'[h].open = sock[h].open /\ sock'[h].home = sock[h].home
                       /\ sock'[h].alive = sock[h].alive
      /\ \A h \in Fd : h # g => sock'[h] = sock[h]
      /\ sock'[g].out = r
  BY <1>1, <1>3 DEF Socket
<1>5. /\ connections' = connections
      /\ pc'[t] \in {"stdin", "recv", "splice", "release"}
      /\ \A u \in Thread : u # t => pc'[u] = pc[u]
      /\ \A u \in Thread : ses'[u].fd = ses[u].fd /\ ses'[u].node = ses[u].node
  <2>1. ses \in [Thread -> Session] /\ pc \in [Thread -> Point]
    BY DEF TypeOK
  <2>2. CASE SendParams(t)
    <3>1. \A u \in Thread : ses'[u].fd = ses[u].fd /\ ses'[u].node = ses[u].node
      BY <2>2, Turns, TurnTaken
    <3> QED
      BY <2>1, <2>2, <3>1 DEF SendParams, Goto, poolVars
  <2>3. CASE ReadStdout(t)
    BY <2>1, <2>3 DEF ReadStdout, Answered, AfterStdout, Goto, poolVars, Session
  <2>4. CASE ReadEnd(t)
    BY <2>1, <2>4 DEF ReadEnd, Goto, poolVars
  <2>5. CASE ReadChunk(t)
    <3>1. \E v : ses' = ses \/ ses' = [ses EXCEPT ![t].got = v]
      BY <2>5 DEF ReadChunk
    <3>2. \A u \in Thread : ses'[u].fd = ses[u].fd /\ ses'[u].node = ses[u].node
      BY <2>1, <3>1 DEF Session
    <3> QED
      BY <2>1, <2>5, <3>2 DEF ReadChunk, Goto, poolVars
  <2> QED
    BY <1>2, <2>2, <2>3, <2>4, <2>5
<1>6. \A u \in Thread : /\ Has(u)' <=> Has(u)
                        /\ pc'[u] \in Lost => pc[u] \in Lost
                        /\ pc'[u] = "store" => pc[u] = "store"
                        /\ Has(u) => ses[u].fd \in Fd
                        /\ pc'[u] = "splice" => u = t \/ (pc[u] = "splice" /\ Has(u))
  BY <1>1, <1>5 DEF Has, Acquiring, TypeOK, Lost
<1> HIDE DEF g
<1>7. Whole'
  <2>1. \A h \in Fd : Ends2(sock'[h].out)
    BY <1>3, <1>4 DEF PoolInv, Whole, Ends2
  <2>2. \A u \in Thread : pc'[u] = "splice" => sock'[ses'[u].fd].out # <<>>
    BY <1>1, <1>3, <1>4, <1>5, <1>6 DEF PoolInv, Whole, Peer, g
  <2> QED
    BY <2>1, <2>2 DEF Whole, Ends2, Peer
<1> QED
  BY <1>4, <1>5, <1>6, <1>7, Unmoved

(* What a backend does moves no connection; it closes none that a session  *)
(* has.                                                                    *)
LEMMA OutsideMoves ==
  ASSUME TypeOK, PoolInv, Calm, NEW f \in Fd, Outside(f)
  PROVE  PoolInv'
<1>1. /\ sock \in [Fd -> Socket] /\ sock[f] \in Socket
      /\ sock[f].out \in Seq(Item) /\ Ends2(sock[f].out)
      /\ UNCHANGED <<connections, pc, ses>>
      /\ \A h \in Fd : Ends2(sock[h].out)
      /\ \A u \in Thread : Has(u) => ses[u].fd \in Fd
  BY DEF TypeOK, Socket, Item, PoolInv, Whole, Ends2, Outside, Answer, AnswerBegins,
     AnswerEnds,
         BackendCloses, poolVars, Has
<1>2. ~AnswerBegins(f)
  BY DEF Calm, AnswerBegins
<1> DEFINE Kept(h) == /\ sock'[h].open = sock[h].open /\ sock'[h].home = sock[h].home
                      /\ Ends2(sock'[h].out)
                      /\ sock[h].out # <<>> => sock'[h].out # <<>>
           Living == \A u \in Thread : Has(u) => sock'[ses[u].fd].alive = sock[ses[u].fd].alive
<1>3. (\A h \in Fd : Kept(h)) /\ Living
  <2>1. ASSUME Busy(f)
        PROVE  Head(sock[f].owed).req \in Request
    <3>1. sock[f].owed \in Seq(Promise) /\ sock[f].owed # <<>>
      BY <1>1, <2>1 DEF Busy, Socket, Promise
    <3>2. Head(sock[f].owed) \in Promise
      BY <3>1
    <3> QED
      BY <3>2 DEF Promise
  <2>2. ASSUME NEW o, NEW r, Ends2(r), r # <<>>,
               sock' = [sock EXCEPT ![f] = [sock[f] EXCEPT !.owed = o, !.out = r]]
        PROVE  (\A h \in Fd : Kept(h)) /\ Living
    BY <1>1, <2>2 DEF Socket
  <2>3. CASE Answer(f)
    <3>1. PICK k \in {"stdout", "redirect"} :
            LET q == Head(sock[f].owed).req
            IN  sock' = [sock EXCEPT ![f] =
                  [Reply(f, <<Record(q, k), Record(q, "end")>>) EXCEPT !.owed = Tail(@)]]
      BY <2>3 DEF Answer
    <3> DEFINE q == Head(sock[f].owed).req
               r == sock[f].out \o <<Record(q, k), Record(q, "end")>>
    <3>2. sock' = [sock EXCEPT ![f] = [sock[f] EXCEPT !.owed = Tail(sock[f].owed), !.out = r]]
      BY <1>1, <3>1 DEF Reply, Socket
    <3>3. Record(q, k) \in Item /\ Record(q, "end") \in Item /\ Record(q, "end").kind = "end"
      BY <2>1, <2>3 DEF Answer, Record, Item
    <3>4. Ends2(r) /\ r # <<>>
      BY <1>1, <3>3, EndsMore
    <3> HIDE DEF r
    <3> QED
      BY <2>2, <3>2, <3>4
  <2>4. CASE AnswerEnds(f)
    <3> DEFINE q == Head(sock[f].owed).req
               r == sock[f].out \o <<Record(q, "end")>>
    <3>1. sock' = [sock EXCEPT ![f] = [sock[f] EXCEPT !.owed = Tail(sock[f].owed), !.out = r]]
      BY <1>1, <2>4 DEF AnswerEnds, Reply, Socket
    <3>2. Record(q, "end") \in Item /\ Record(q, "end").kind = "end"
      BY <2>1, <2>4 DEF AnswerEnds, Record, Item
    <3>3. Ends2(r) /\ r # <<>>
      BY <1>1, <3>2, EndsMore
    <3> HIDE DEF r
    <3> QED
      BY <2>2, <3>1, <3>3
  <2>5. CASE BackendCloses(f)
    <3>1. /\ sock' = [sock EXCEPT ![f].alive = FALSE, ![f].owed = <<>>]
          /\ \A u \in Thread : ses[u].fd # f
      BY <2>5 DEF BackendCloses, Calm
    <3>2. /\ \A h \in Fd : h # f => sock'[h] = sock[h]
          /\ sock'[f].open = sock[f].open /\ sock'[f].home = sock[f].home /\ sock'[f].out = sock[f].out
      BY <1>1, <3>1 DEF Socket
    <3> QED
      BY <1>1, <3>1, <3>2
  <2> QED
    BY <1>2, <2>3, <2>4, <2>5 DEF Outside
<1>4. Whole'
  BY <1>1, <1>3 DEF PoolInv, Whole, Ends2, Peer, Has, Acquiring
<1>5. \A u \in Thread : Has(u)' <=> Has(u)
  BY <1>1 DEF Has
<1> QED
  BY <1>1, <1>3, <1>4, <1>5, Unmoved

(* What release does: the slot of the connection is free again, and it is  *)
(* healthy; a connection without a slot is closed.                         *)
LEMMA ReleaseEffect ==
  ASSUME TypeOK, PoolInv, NEW t \in Thread, Release(t)
  PROVE  /\ pc[t] = "release" /\ Has(t) /\ ses[t].fd \in Fd /\ Finish(t)
         /\ \/ /\ \A j \in Slot : connections[j].sockfd # ses[t].fd
               /\ UNCHANGED poolVars
               /\ sock' = [sock EXCEPT ![ses[t].fd] = Closed]
            \/ \E i \in Slot :
                 /\ connections[i].sockfd = ses[t].fd /\ connections[i].in_use
                 /\ connections' = [connections EXCEPT ![i].in_use = FALSE]
                 /\ Count(ReleaseIndex(connections[i].node), -1)
                 /\ sock' = sock
<1> DEFINE f == ses[t].fd
           i == Least(Holding(f))
<1>1. pc[t] = "release" /\ Has(t) /\ f \in Fd /\ Finish(t)
  BY DEF Release, Has, Acquiring, TypeOK
<1>2. sock \in [Fd -> Socket] /\ connections \in [Slot -> SlotState]
  BY DEF TypeOK, SlotState
<1>3. CASE Holding(f) = {}
  <2>1. \A j \in Slot : connections[j].sockfd # f
    BY <1>3 DEF Holding
  <2>2. UNCHANGED poolVars /\ CloseAll({f})
    BY <1>3 DEF Release
  <2>3. sock' = [sock EXCEPT ![f] = Closed]
    BY <1>1, <1>2, <2>2 DEF CloseAll
  <2> QED
    BY <1>1, <2>1, <2>2, <2>3
<1>4. CASE Holding(f) # {}
  <2>1. i \in Holding(f)
    BY <1>4, SlotsAreNumbers, LeastMember DEF Holding
  <2>2. i \in Slot /\ connections[i].sockfd = f
    BY <2>1 DEF Holding
  <2>3. connections[i].in_use /\ Healthy(f)
    BY <1>1, <2>2 DEF PoolInv, Marked, Held, Healthy, Peer
  <2>4. /\ connections' = [connections EXCEPT ![i].in_use = FALSE, ![i].sockfd = f]
        /\ Count(ReleaseIndex(connections[i].node), -1)
        /\ CloseAll({})
    BY <1>4, <2>3 DEF Release
  <2> HIDE DEF i
  <2>5. sock' = sock
    BY <1>2, <2>4 DEF CloseAll
  <2>6. connections' = [connections EXCEPT ![i].in_use = FALSE]
    BY <1>2, <2>2, <2>4 DEF SlotState
  <2> QED
    BY <1>1, <2>2, <2>3, <2>4, <2>5, <2>6
<1> QED
  BY <1>3, <1>4

LEMMA ReleaseStep ==
  ASSUME TypeOK, PoolInv, NEW t \in Thread, Release(t)
  PROVE  PoolInv'
<1> DEFINE f == ses[t].fd
<1>1. /\ \A i \in Slot : connections[i].sockfd # NoFd => connections[i].sockfd \in Fd
      /\ \A u \in Thread : Has(u) => ses[u].fd \in Fd
      /\ connections \in [Slot -> SlotState] /\ sock \in [Fd -> Socket]
      /\ pc \in [Thread -> Point] /\ ses \in [Thread -> Session]
      /\ Held /\ OneUser /\ SlotsOwn /\ Marked /\ Whole /\ NoneLost
  BY DEF TypeOK, Has, PoolInv, SlotState
<1>2. pc[t] = "release" /\ Has(t) /\ f \in Fd /\ Finish(t)
  BY ReleaseEffect
<1>3. /\ \A u \in Thread : u # t => pc'[u] = pc[u] /\ ses'[u] = ses[u] /\ (Has(u)' <=> Has(u))
      /\ pc'[t] = "idle" /\ ~Has(t)' /\ ses'[t].fd = NoFd
      /\ \A u \in Thread : u # t /\ Has(u) => ses[u].fd # f
  BY <1>1, <1>2 DEF Finish, Goto, NoSession, Has, Acquiring, OneUser
<1>4. CASE /\ \A j \in Slot : connections[j].sockfd # f
           /\ UNCHANGED poolVars
           /\ sock' = [sock EXCEPT ![f] = Closed]
  <2>1. /\ connections' = connections
        /\ ~sock'[f].open /\ sock'[f].out = <<>>
        /\ \A g \in Fd : g # f => sock'[g] = sock[g]
    BY <1>1, <1>2, <1>4 DEF poolVars, Closed
  <2>2. Held'
    BY <1>1, <1>3, <2>1 DEF Held, Peer, Has, Acquiring, Lost
  <2>3. OneUser'
    BY <1>1, <1>3 DEF OneUser
  <2>4. SlotsOwn'
    BY <1>1, <1>4, <2>1 DEF SlotsOwn
  <2>5. Marked'
    BY <1>1, <1>3, <2>1 DEF Marked
  <2>6. Whole'
    <3>1. \A g \in Fd : sock'[g] = sock[g] \/ sock'[g].out = <<>>
      BY <2>1
    <3>2. \A g \in Fd : \A i \in DOMAIN sock'[g].out :
            sock'[g].out[i].kind # "end" => i + 1 \in DOMAIN sock'[g].out
      BY <1>1, <3>1 DEF Whole
    <3>3. \A u \in Thread : pc'[u] = "splice" => u # t /\ Has(u)
      BY <1>3 DEF Has, Acquiring
    <3> QED
      BY <1>1, <1>3, <2>1, <3>2, <3>3 DEF Whole, Peer
  <2>7. NoneLost'
    BY <1>1, <1>3, <2>1 DEF NoneLost
  <2> QED
    BY <2>2, <2>3, <2>4, <2>5, <2>6, <2>7 DEF PoolInv
<1>5. ASSUME NEW i \in Slot,
             connections[i].sockfd = f, connections[i].in_use,
             connections' = [connections EXCEPT ![i].in_use = FALSE],
             sock' = sock
      PROVE  PoolInv'
  <2>1. /\ \A j \in Slot : j # i => connections'[j] = connections[j]
        /\ \A j \in Slot : connections'[j].sockfd = connections[j].sockfd
        /\ \A j \in Slot : connections'[j].node = connections[j].node
        /\ ~connections'[i].in_use
    BY <1>1, <1>5 DEF SlotState
  <2>2. Held'
    BY <1>1, <1>3, <1>5 DEF Held, Peer, Lost
  <2>3. OneUser'
    BY <1>1, <1>3 DEF OneUser
  <2>4. SlotsOwn'
    BY <1>1, <1>5, <2>1 DEF SlotsOwn
  <2>5. Marked'
    BY <1>1, <1>3, <1>5, <2>1 DEF Marked
  <2>6. Whole'
    BY <1>1, <1>3, <1>5 DEF Whole, Peer
  <2>7. NoneLost'
    BY <1>1, <1>3, <1>5, <2>1 DEF NoneLost
  <2> QED
    BY <2>2, <2>3, <2>4, <2>5, <2>6, <2>7 DEF PoolInv
<1> QED
  BY <1>4, <1>5, ReleaseEffect

LEMMA PoolStep ==
  ASSUME Calm, TypeOK, PoolInv, [Next]_vars
  PROVE  PoolInv'
<1>1. ASSUME NEW t \in Thread, Begin(t) \/ Pool(t)
      PROVE  PoolInv'
  BY <1>1, AcquireMoves, ReuseStep, CreateStep, StoreStep DEF Pool
<1>2. ASSUME NEW t \in Thread, Step(t)
      PROVE  PoolInv'
  <2>1. ~Discard(t)
    BY DEF PoolInv, Held, Has, Acquiring, Discard, Lost
  <2> QED
    BY <1>2, <2>1, SessionMoves, TrafficMoves, ReleaseStep DEF Step
<1>3. \A t \in Thread : ~ClientLeaves(t) /\ ~Stall(t)
  BY DEF Calm, ClientLeaves, Stall, StallBegins, StallEnds, StallFails, PoolInv, Held,
         Has, Acquiring, Lost
<1>4. ASSUME NEW f \in Fd, Outside(f)
      PROVE  PoolInv'
  BY <1>4, OutsideMoves
<1>5. CASE UNCHANGED vars
  <2>1. Whole'
    BY <1>5 DEF PoolInv, Whole, Peer, vars
  <2> QED
    BY <1>5, <2>1, Unmoved DEF vars, poolVars, Has
<1> QED
  BY <1>1, <1>2, <1>3, <1>4, <1>5 DEF Next

LEMMA PoolInit == Init => PoolInv
<1> SUFFICES ASSUME Init PROVE PoolInv
  OBVIOUS
<1>1. /\ \A t \in Thread : pc[t] = "idle" /\ ses[t].fd = NoFd
      /\ \A i \in Slot : connections[i].sockfd = NoFd /\ connections[i].in_use = FALSE
      /\ \A f \in Fd : sock[f].open = FALSE /\ sock[f].out = <<>>
  BY DEF Init, NoSession, FreeSlot, Closed
<1> QED
  BY <1>1 DEF PoolInv, Held, Has, Acquiring, OneUser, SlotsOwn, Marked, Whole, NoneLost

LEMMA PoolHolds == TypeOK /\ PoolInv => OneHolder /\ SlotHome /\ NoneLost
<1> SUFFICES ASSUME TypeOK, PoolInv PROVE OneHolder /\ SlotHome
  BY DEF PoolInv
<1>1. \A t \in Talking : t \in Thread /\ Has(t)
  BY DEF Talking, Has, Acquiring
<1>2. OneHolder
  BY <1>1 DEF PoolInv, OneHolder, Held, OneUser
<1>3. SlotHome
  BY <1>1 DEF PoolInv, SlotHome, SlotsOwn, Marked
<1> QED
  BY <1>2, <1>3

(* The slots whose connections the score of a group counts.                *)
Used(b) == {i \in Slot : connections[i].in_use /\ Group[connections[i].node] = b}

LEMMA UsedFinite ==
  ASSUME NEW b
  PROVE  IsFiniteSet(Used(b)) /\ Cardinality(Used(b)) \in Nat
<1>1. IsFiniteSet(Slot)
  BY BoundAssumption, FS_Interval DEF Slot
<1> QED
  BY <1>1, FS_Subset, FS_CardinalityType DEF Used

(* What acquire may reuse for a node is of the group of that node.         *)
LEMMA SameGroup ==
  ASSUME OwnGroups, TypeOK, NEW i \in Slot, NEW n \in Node, Belongs(i, n)
  PROVE  Group[connections[i].node] = Group[n]
<1> DEFINE m == connections[i].node
<1>1. m \in Node
  BY DEF TypeOK
<1>2. CASE IsUnix(n)
  <2>1. Address[m] = Address[n]
    BY <1>2 DEF Belongs
  <2>2. AcquireIndex(m) = AcquireIndex(n)
    BY <2>1 DEF AcquireIndex
  <2> QED
    BY <1>1, <2>2 DEF OwnGroups
<1>3. CASE ~IsUnix(n)
  <2>1. Port[m] = Port[n] /\ ~IsUnix(m)
    BY <1>3 DEF Belongs
  <2>2. ReleaseIndex(m) = ReleaseIndex(n)
    BY <1>3, <2>1 DEF ReleaseIndex
  <2> QED
    BY <1>1, <2>2 DEF OwnGroups
<1> QED
  BY <1>2, <1>3

(* One slot more, one less, or another arrangement of the same ones.       *)
LEMMA CountUp ==
  ASSUME TypeOK, CountsExact, NEW c \in Backend, Count(c, 1), NEW s \in Slot,
         ~connections[s].in_use, connections'[s].in_use, Group[connections'[s].node] = c,
         \A i \in Slot : i # s => /\ connections'[i].in_use <=> connections[i].in_use
                                  /\ connections'[i].node = connections[i].node
  PROVE  CountsExact'
<1> SUFFICES ASSUME NEW b \in Backend
             PROVE  active_counts'[b] = Cardinality(Used(b)')
  BY DEF CountsExact, Used
<1>1. active_counts[b] = Cardinality(Used(b))
  BY DEF CountsExact, Used
<1>2. CASE b = c
  <2>1. Used(b)' = Used(b) \cup {s} /\ s \notin Used(b)
    BY <1>2 DEF Used
  <2>2. Cardinality(Used(b)') = Cardinality(Used(b)) + 1
    BY <2>1, UsedFinite, FS_AddElement
  <2> QED
    BY <1>1, <1>2, <2>2, UsedFinite DEF Count, TypeOK
<1>3. CASE b # c
  <2>1. Used(b)' = Used(b)
    BY <1>3 DEF Used
  <2> QED
    BY <1>1, <1>3, <2>1 DEF Count, TypeOK
<1> QED
  BY <1>2, <1>3

LEMMA CountDown ==
  ASSUME TypeOK, CountsExact, NEW c \in Backend, Count(c, -1), NEW s \in Slot,
         connections[s].in_use, ~connections'[s].in_use, Group[connections[s].node] = c,
         \A i \in Slot : i # s => /\ connections'[i].in_use <=> connections[i].in_use
                                  /\ connections'[i].node = connections[i].node
  PROVE  CountsExact'
<1> SUFFICES ASSUME NEW b \in Backend
             PROVE  active_counts'[b] = Cardinality(Used(b)')
  BY DEF CountsExact, Used
<1>1. active_counts[b] = Cardinality(Used(b))
  BY DEF CountsExact, Used
<1>2. CASE b = c
  <2>1. Used(b)' = Used(b) \ {s} /\ s \in Used(b)
    BY <1>2 DEF Used
  <2>2. Cardinality(Used(b)') = Cardinality(Used(b)) - 1
    BY <2>1, UsedFinite, FS_RemoveElement
  <2> QED
    BY <1>1, <1>2, <2>2, UsedFinite DEF Count, TypeOK
<1>3. CASE b # c
  <2>1. Used(b)' = Used(b)
    BY <1>3 DEF Used
  <2> QED
    BY <1>1, <1>3, <2>1 DEF Count, TypeOK
<1> QED
  BY <1>2, <1>3

LEMMA CountKept ==
  ASSUME CountsExact, active_counts' = active_counts,
         \A i \in Slot : /\ connections'[i].in_use <=> connections[i].in_use
                         /\ connections'[i].node = connections[i].node
  PROVE  CountsExact'
<1> SUFFICES ASSUME NEW b \in Backend
             PROVE  active_counts'[b] = Cardinality(Used(b)')
  BY DEF CountsExact, Used
<1>1. active_counts[b] = Cardinality(Used(b)) /\ Used(b)' = Used(b)
  BY DEF CountsExact, Used
<1> QED
  BY <1>1

LEMMA CountsStep ==
  ASSUME Calm, OwnGroups, TypeOK, PoolInv, CountsExact, [Next]_vars
  PROVE  CountsExact'
<1>0. connections \in [Slot -> SlotState] /\ ses \in [Thread -> Session]
  BY DEF TypeOK, SlotState
<1>1. CASE UNCHANGED poolVars
  BY <1>1, CountKept DEF poolVars
<1>2. ASSUME NEW t \in Thread, Reuse(t)
      PROVE  CountsExact'
  <2>1. PICK bad \in SUBSET Slot :
           /\ \A i \in bad : Belongs(i, ses[t].node)
           /\ \/ /\ connections' = Swept(bad)
                 /\ UNCHANGED <<active_counts, ses>>
              \/ \E i \in Slot : Scanned(t, bad, i)
    BY <1>2, ReuseEffect
  <2>2. /\ \A i \in Slot : Swept(bad)[i].in_use = connections[i].in_use
        /\ \A i \in Slot : Swept(bad)[i].node = connections[i].node
        /\ Swept(bad) \in [Slot -> SlotState]
    BY <1>0, BoundAssumption DEF Swept, SlotState
  <2>3. CASE connections' = Swept(bad) /\ UNCHANGED <<active_counts, ses>>
    BY <2>2, <2>3, CountKept
  <2>4. ASSUME NEW s \in Slot, Scanned(t, bad, s)
        PROVE  CountsExact'
    <3> DEFINE W == Swept(bad)
               n == ses[t].node
    <3>1. W \in [Slot -> SlotState] /\ connections' = [W EXCEPT ![s].in_use = TRUE]
      BY <2>2, <2>4 DEF Scanned
    <3>2. /\ \A i \in Slot : W[i].in_use = connections[i].in_use
          /\ \A i \in Slot : W[i].node = connections[i].node
      BY <2>2
    <3>3. n \in Node /\ Belongs(s, n) /\ Count(AcquireIndex(n), 1)
      BY <1>0, <2>4 DEF Scanned, Session
    <3> HIDE DEF W, n
    <3>4. /\ \A i \in Slot \ {s} : connections'[i] = W[i]
          /\ connections'[s].in_use
          /\ connections'[s].node = W[s].node
      BY <3>1 DEF SlotState
    <3>5. ~connections[s].in_use
      BY <3>3 DEF Belongs
    <3>6. Group[connections[s].node] = AcquireIndex(n)
      BY <3>3, SameGroup DEF OwnGroups
    <3>7. AcquireIndex(n) \in Backend
      BY IndexIsBackend
    <3> QED
      BY <3>2, <3>3, <3>4, <3>5, <3>6, <3>7, CountUp
  <2> QED
    BY <2>1, <2>3, <2>4
<1>3. ASSUME NEW t \in Thread, Store(t)
      PROVE  CountsExact'
  <2> DEFINE s == Least(Empty)
             n == ses[t].node
  <2>1. CASE UNCHANGED poolVars
    BY <2>1, <1>1
  <2>2. CASE Empty # {} /\ ~UNCHANGED poolVars
    <3>1. s \in Empty
      BY <2>2, SlotsAreNumbers, LeastMember DEF Empty
    <3>2. s \in Slot /\ connections[s].sockfd = NoFd
      BY <3>1 DEF Empty
    <3>3. /\ connections' = [connections EXCEPT ![s] =
               [sockfd |-> ses[t].fd, in_use |-> TRUE, node |-> n]]
          /\ Count(AcquireIndex(n), 1)
      BY <1>3, <2>2 DEF Store
    <3>4. n \in Node /\ AcquireIndex(n) \in Backend
      BY <1>0, IndexIsBackend DEF Session
    <3>5. ~connections[s].in_use
      BY <3>2 DEF PoolInv, Marked
    <3> HIDE DEF s, n
    <3>6. /\ \A i \in Slot : i # s => connections'[i] = connections[i]
          /\ connections'[s].in_use /\ connections'[s].node = n
      BY <1>0, <3>2, <3>3
    <3> QED
      BY <3>2, <3>3, <3>4, <3>5, <3>6, CountUp DEF OwnGroups
  <2> QED
    BY <1>3, <2>1, <2>2 DEF Store
<1>4. ASSUME NEW t \in Thread, Release(t)
      PROVE  CountsExact'
  <2>1. CASE UNCHANGED poolVars
    BY <2>1, <1>1
  <2>2. ASSUME NEW i \in Slot, connections[i].in_use,
               connections' = [connections EXCEPT ![i].in_use = FALSE],
               Count(ReleaseIndex(connections[i].node), -1)
        PROVE  CountsExact'
    <3>1. /\ \A j \in Slot : j # i => connections'[j] = connections[j]
          /\ ~connections'[i].in_use
      BY <1>0, <2>2 DEF SlotState
    <3>2. connections[i].node \in Node /\ ReleaseIndex(connections[i].node) \in Backend
      BY <1>0, IndexIsBackend DEF SlotState
    <3> QED
      BY <2>2, <3>1, <3>2, CountDown DEF OwnGroups
  <2> QED
    BY <1>4, <2>1, <2>2, ReleaseEffect
<1>5. ASSUME NEW t \in Thread, Begin(t) \/ CheckQuota(t) \/ Create(t) \/ CreateFails(t) \/ ClientLeaves(t)
      PROVE  UNCHANGED poolVars
  BY <1>5 DEF Begin, CheckQuota, Create, CreateFails, ClientLeaves
<1>6. ASSUME NEW t \in Thread, Step(t) \/ Stall(t), ~Release(t)
      PROVE  UNCHANGED poolVars
  BY <1>6 DEF Step, SendParams, SendStdin, SendFails, HangUp, PollInVain, GiveUp,
     StartReading, ReadStdout, ReadEnd, ReadFails, ReadChunk, ChunkFails, Discard,
     Stall, StallBegins, StallEnds, StallFails
<1>7. ASSUME NEW f \in Fd, Outside(f)
      PROVE  UNCHANGED poolVars
  BY <1>7 DEF Outside, Answer, AnswerBegins, AnswerEnds, BackendCloses
<1>8. UNCHANGED vars => UNCHANGED poolVars
  BY DEF vars
<1> QED
  BY <1>1, <1>2, <1>3, <1>4, <1>5, <1>6, <1>7, <1>8 DEF Next, Pool

LEMMA CountsInit == Init => CountsExact
<1> SUFFICES ASSUME Init, NEW b \in Backend
             PROVE  active_counts[b] = Cardinality(Used(b))
  BY DEF CountsExact, Used
<1>1. Used(b) = {} /\ active_counts[b] = 0
  BY DEF Init, FreeSlot, Used
<1> QED
  BY <1>1, FS_EmptySet

(* Two sessions never talk on one connection, a slot leads where it says   *)
(* and is in use while a session has it, no open connection is forgotten,  *)
(* and the count of a group is the number of its connections in use: with  *)
(* whatever sessions, quotas and pool, as long as backends close only      *)
(* connections that wait and groups have addresses and ports of their own. *)
THEOREM PoolCorrect ==
  ASSUME Calm, OwnGroups
  PROVE  Spec => []PoolSound
<1>1. Init => TypeOK /\ PoolInv /\ CountsExact
  BY TypeInit, PoolInit, CountsInit
<1>2. TypeOK /\ PoolInv /\ CountsExact /\ [Next]_vars => (TypeOK /\ PoolInv /\ CountsExact)'
  BY TypeStep, PoolStep, CountsStep
<1>3. TypeOK /\ PoolInv /\ CountsExact => PoolSound
  BY PoolHolds DEF PoolSound
<1> QED
  BY <1>1, <1>2, <1>3, PTL DEF Spec

-----------------------------------------------------------------------------
(* When backends are in time as well, and every body leaves a turn for the *)
(* response, a session and its connection tell one story: the one request  *)
(* that is owed, or its response, is its own.                              *)
Prompt ==
  /\ Faults \subseteq {"refused", "idleclose"}
  /\ \A b \in Bodies : b + 2 <= Attempts

Response(t, s) ==
  \E k \in {"stdout", "redirect"} :
    s = <<Record(ses[t].req, k), Record(ses[t].req, "end")>>

Story(t) ==
  /\ pc[t] \in Acquiring => ses[t].got = 0
  /\ pc[t] \in {"store", "params"} =>
       ses[t].got = 0 /\ Peer(t).owed = <<>> /\ Peer(t).out = <<>>
  /\ pc[t] \in {"stdin", "recv"} =>
       /\ ses[t].got = 0
       /\ \/ Peer(t).owed = <<[req |-> ses[t].req, begun |-> FALSE]>> /\ Peer(t).out = <<>>
          \/ Peer(t).owed = <<>> /\ Response(t, Peer(t).out)
  /\ pc[t] = "splice" =>
       /\ Peer(t).owed = <<>>
       /\ \/ ses[t].got = 0 /\ Response(t, Peer(t).out)
          \/ ses[t].got = ses[t].req /\ Peer(t).out = <<Record(ses[t].req, "end")>>
  /\ pc[t] = "release" => ses[t].got = ses[t].req /\ Peer(t).owed = <<>>

(* A connection that waits in the pool owes nobody a response.             *)
Settled ==
  \A f \in Fd : sock[f].open /\ (\A t \in Thread : ses[t].fd # f) => sock[f].owed = <<>>

Clean == Settled /\ \A t \in Thread : Story(t)

(* An HTTP/1 session has as many turns left as it needs.                   *)
Fresh == {"quota", "reuse", "create", "store", "params"}
InTime(t) ==
  IsHttp1(t) =>
    /\ pc[t] \in Fresh => ses[t].attempt = 0 /\ ses[t].body + 2 <= Attempts
    /\ pc[t] = "stdin" =>
         ses[t].body > 0 /\ ses[t].attempt + ses[t].body + 1 <= Attempts
    /\ pc[t] = "recv" => ses[t].attempt < Attempts

Timed == \A t \in Thread : InTime(t)

(* It never gives up, and it polls only when the backend is ready.         *)
LEMMA NoTurnLost ==
  ASSUME Prompt, TypeOK, PoolInv, Timed, NEW t \in Thread
  PROVE  ~GiveUp(t) /\ ~PollInVain(t) /\ ~Stall(t)
<1>1. /\ Attempts \in Nat /\ ses[t].attempt \in Nat /\ ses[t].body \in Nat
      /\ InTime(t)
  BY BoundAssumption DEF TypeOK, Session, Timed
<1>2. ~GiveUp(t)
  BY <1>1 DEF GiveUp, HasTurn, InTime, Waiting, Sending, Fresh
<1>3. pc[t] \in Waiting => Peer(t).open
  BY DEF PoolInv, Held, Has, Acquiring, Waiting, Sending
<1>4. ~PollInVain(t)
  BY <1>3 DEF PollInVain, InVain, Prompt
<1>5. pc[t] # "stalled" /\ "stalled" \notin Faults
  BY DEF PoolInv, Held, Has, Acquiring, Lost, Prompt
<1> QED
  BY <1>2, <1>4, <1>5 DEF Stall, StallBegins, StallEnds, StallFails

(* What a turn leaves suffices for the rest.                               *)
LEMMA TimedStep ==
  ASSUME Prompt, TypeOK, PoolInv, Timed, [Next]_vars
  PROVE  Timed'
<1>0. /\ pc \in [Thread -> Point] /\ ses \in [Thread -> Session] /\ Attempts \in Nat
      /\ \A u \in Thread : ses[u].attempt \in Nat /\ ses[u].body \in Nat /\ InTime(u)
  BY BoundAssumption DEF TypeOK, Session, Timed
<1>1. ASSUME NEW u \in Thread, ses'[u] = ses[u],
             \/ pc'[u] = pc[u]
             \/ pc'[u] \notin Fresh \cup {"stdin", "recv"}
             \/ pc[u] \in Fresh /\ pc'[u] \in Fresh
      PROVE  InTime(u)'
  BY <1>0, <1>1 DEF InTime, IsHttp1, Fresh
<1>2. ASSUME NEW t \in Thread,
             InTime(t)',
             \A u \in Thread : u # t => pc'[u] = pc[u] /\ ses'[u] = ses[u]
      PROVE  Timed'
  BY <1>1, <1>2 DEF Timed
<1>3. ASSUME NEW t \in Thread, Begin(t)
      PROVE  Timed'
  <2>1. /\ \A u \in Thread : u # t => pc'[u] = pc[u] /\ ses'[u] = ses[u]
        /\ ses'[t].attempt = 0 /\ ses'[t].body \in Bodies /\ pc'[t] = "quota"
    BY <1>0, <1>3, Begun DEF Begin, Goto
  <2>2. InTime(t)'
    BY <2>1 DEF InTime, Fresh, Prompt
  <2> QED
    BY <1>2, <2>1, <2>2
<1>4. ASSUME NEW t \in Thread, Pool(t)
      PROVE  Timed'
  <2>1. /\ \A u \in Thread : u # t => pc'[u] = pc[u] /\ ses'[u] = ses[u]
        /\ pc[t] \in Fresh
        /\ \/ pc'[t] = "idle"
           \/ /\ pc'[t] \in Fresh
              /\ \/ ses' = ses
                 \/ \E f : ses' = [ses EXCEPT ![t].fd = f]
    BY <1>0, <1>4 DEF Pool, CheckQuota, Reuse, Create, CreateFails, Store, Finish, Goto,
       Fresh
  <2>2. /\ pc'[t] \in Fresh =>
             /\ ses'[t].attempt = ses[t].attempt /\ ses'[t].body = ses[t].body
             /\ ses'[t].http = ses[t].http
    <3>1. CASE pc'[t] = "idle"
      BY <3>1 DEF Fresh
    <3>2. ASSUME NEW f, ses' = [ses EXCEPT ![t].fd = f]
          PROVE  /\ ses'[t].attempt = ses[t].attempt /\ ses'[t].body = ses[t].body
                 /\ ses'[t].http = ses[t].http
      BY <1>0, <3>2 DEF Session
    <3> QED
      BY <2>1, <3>1, <3>2
  <2>3. InTime(t)'
    BY <1>0, <2>1, <2>2 DEF InTime, IsHttp1, Fresh
  <2> QED
    BY <1>2, <2>1, <2>3
<1>5. ASSUME NEW t \in Thread, SendParams(t)
      PROVE  Timed'
  <2>1. /\ ses' = [ses EXCEPT ![t].attempt = Turned(t)] /\ pc[t] = "params"
        /\ pc'[t] = IF ses[t].body > 0 THEN "stdin" ELSE "recv"
        /\ \A u \in Thread : u # t => pc'[u] = pc[u]
    BY <1>0, <1>5 DEF SendParams, Goto
  <2>2. /\ ses'[t].attempt = Turned(t) /\ ses'[t].body = ses[t].body
        /\ ses'[t].http = ses[t].http
        /\ \A u \in Thread : u # t => ses'[u] = ses[u]
    BY <1>0, <2>1 DEF Session
  <2>3. IsHttp1(t) => Turned(t) = 1 /\ ses[t].body + 2 <= Attempts
    BY <1>0, <2>1 DEF Turned, InTime, Fresh
  <2>4. InTime(t)'
    BY <1>0, <2>1, <2>2, <2>3 DEF InTime, IsHttp1, Fresh
  <2> QED
    BY <1>2, <2>1, <2>2, <2>4
<1>6. ASSUME NEW t \in Thread, SendStdin(t)
      PROVE  Timed'
  <2> DEFINE b == IF ses[t].body > 0 THEN ses[t].body - 1 ELSE 0
  <2>1. /\ ses' = [ses EXCEPT ![t].body = b, ![t].attempt = Turned(t)]
        /\ pc[t] = "stdin"
        /\ pc'[t] = IF ses[t].body > 1 THEN "stdin" ELSE "recv"
        /\ \A u \in Thread : u # t => pc'[u] = pc[u]
    BY <1>0, <1>6 DEF SendStdin, Goto, Session
  <2> HIDE DEF b
  <2>2. /\ ses'[t].attempt = Turned(t) /\ ses'[t].body = b
        /\ ses'[t].http = ses[t].http
        /\ \A u \in Thread : u # t => ses'[u] = ses[u]
    BY <1>0, <2>1 DEF Session
  <2>3. IsHttp1(t) => /\ ses[t].body > 0 /\ b = ses[t].body - 1
                      /\ Turned(t) = ses[t].attempt + 1
                      /\ ses[t].attempt + ses[t].body + 1 <= Attempts
    BY <1>0, <2>1 DEF Turned, InTime, Fresh, b
  <2>4. InTime(t)'
    BY <1>0, <2>1, <2>2, <2>3 DEF InTime, IsHttp1, Fresh
  <2> QED
    BY <1>2, <2>1, <2>2, <2>4
<1>7. ASSUME NEW t \in Thread, ~SendParams(t), ~SendStdin(t), Step(t)
      PROVE  Timed'
  <2>1. ~GiveUp(t) /\ ~PollInVain(t)
    BY NoTurnLost
  <2>2. CASE ReadChunk(t)
    <3>1. /\ ~IsHttp1(t) /\ pc[t] = "recv"
          /\ \A u \in Thread : u # t => pc'[u] = pc[u] /\ ses'[u] = ses[u]
          /\ ses' = ses \/ \E v : ses' = [ses EXCEPT ![t].got = v]
      BY <1>0, <2>2 DEF ReadChunk, Goto
    <3>2. ses'[t].http = ses[t].http
      BY <1>0, <3>1 DEF Session
    <3>3. InTime(t)'
      BY <3>1, <3>2 DEF InTime, IsHttp1
    <3> QED
      BY <1>2, <3>1, <3>3
  <2>3. CASE ~ReadChunk(t)
    <3>1. /\ \A u \in Thread : u # t => pc'[u] = pc[u] /\ ses'[u] = ses[u]
          /\ pc'[t] \notin Fresh \cup {"stdin", "recv"}
      BY <1>0, <1>7, <2>1, <2>3 DEF Step, SendFails, HangUp, StartReading, ReadStdout,
         Answered, AfterStdout, ReadEnd, ReadFails, ChunkFails, Discard, Release, Finish,
         Goto, Fresh
    <3>2. InTime(t)'
      BY <3>1 DEF InTime
    <3> QED
      BY <1>2, <3>1, <3>2
  <2> QED
    BY <2>2, <2>3
<1>8. ASSUME NEW t \in Thread, Stall(t) \/ ClientLeaves(t)
      PROVE  FALSE
  BY <1>8, NoTurnLost DEF ClientLeaves, Prompt
<1>9. CASE UNCHANGED <<pc, ses>>
  BY <1>1, <1>9 DEF Timed
<1>10. ASSUME NEW f \in Fd, Outside(f)
       PROVE  Timed'
  BY <1>9, <1>10 DEF Outside, Answer, AnswerBegins, AnswerEnds, BackendCloses
<1>11. CASE UNCHANGED vars
  BY <1>9, <1>11 DEF vars
<1> QED
  BY <1>3, <1>4, <1>5, <1>6, <1>7, <1>8, <1>10, <1>11 DEF Next

LEMMA Pairs ==
  /\ \A a : Append(<<>>, a) = <<a>> /\ Head(<<a>>) = a /\ Tail(<<a>>) = <<>>
  /\ \A a, b : Head(<<a, b>>) = a /\ Tail(<<a, b>>) = <<b>> /\ <<>> \o <<a, b>> = <<a, b>>
  /\ \A a, b : DOMAIN <<a, b>> = {1, 2} /\ <<a, b>>[1] = a /\ <<a, b>>[2] = b /\ <<a, b>> # <<>>
  /\ \A a : <<a>> # <<>>
OBVIOUS

LEMMA StoryKept ==
  ASSUME NEW u \in Thread, Story(u), pc'[u] = pc[u], ses'[u] = ses[u],
         Has(u) => /\ sock'[ses[u].fd].owed = sock[ses[u].fd].owed
                   /\ sock'[ses[u].fd].out = sock[ses[u].fd].out
  PROVE  Story(u)'
BY DEF Story, Response, Has, Acquiring, Peer

(* Acquire hands out a connection that owes nothing and has nothing to     *)
(* read.                                                                   *)
LEMMA CleanAcquire ==
  ASSUME TypeOK, PoolInv, Clean, NEW t \in Thread, Begin(t) \/ Pool(t)
  PROVE  Clean'
<1>0. /\ sock \in [Fd -> Socket] /\ pc \in [Thread -> Point] /\ ses \in [Thread -> Session]
      /\ \A u \in Thread : Has(u) => ses[u].fd \in Fd
      /\ \A u \in Thread : ~Has(u) => ses[u].fd = NoFd
      /\ Held /\ OneUser /\ Settled /\ Marked /\ \A u \in Thread : Story(u)
      /\ NoFd \notin Fd
  BY BoundAssumption DEF TypeOK, PoolInv, Clean, Has, Held
<1>1. CASE Begin(t) \/ CheckQuota(t) \/ CreateFails(t)
  <2>1. /\ sock' = sock /\ pc[t] \in Acquiring /\ pc'[t] \in Acquiring
        /\ \A u \in Thread : u # t => pc'[u] = pc[u] /\ ses'[u] = ses[u]
        /\ ses'[t].fd = NoFd /\ ses'[t].got = 0
    <3>1. CASE Begin(t)
      BY <1>0, <3>1, Begun DEF Begin, Goto, Acquiring
    <3>2. CASE CheckQuota(t)
      BY <1>0, <3>2 DEF CheckQuota, Goto, Acquiring, Has, Story
    <3>3. CASE CreateFails(t)
      BY <1>0, <3>3 DEF CreateFails, Finish, Goto, Acquiring, NoSession
    <3> QED
      BY <1>1, <3>1, <3>2, <3>3
  <2>2. Story(t)'
    BY <2>1 DEF Story, Acquiring
  <2>3. Settled'
    BY <1>0, <2>1 DEF Settled, Has
  <2> QED
    BY <1>0, <2>1, <2>2, <2>3, StoryKept DEF Clean
<1>2. CASE Reuse(t)
  <2>1. PICK bad \in SUBSET Slot :
           /\ \A i \in bad : Belongs(i, ses[t].node)
           /\ CloseAll({connections[i].sockfd : i \in bad})
           /\ \/ /\ connections' = Swept(bad)
                 /\ Goto(t, "create")
                 /\ UNCHANGED <<active_counts, ses>>
              \/ \E i \in Slot : Scanned(t, bad, i)
    BY <1>2, ReuseEffect
  <2>2. \A i \in bad, u \in Thread : Has(u) => connections[i].sockfd # ses[u].fd
    BY <1>0, <2>1 DEF Belongs, Marked
  <2>3. /\ \A g \in Fd : sock'[g].open => sock'[g] = sock[g]
        /\ \A u \in Thread : Has(u) => sock'[ses[u].fd] = sock[ses[u].fd]
    BY <1>0, <2>1, <2>2 DEF CloseAll, Closed
  <2>4. pc[t] = "reuse"
    BY <1>2 DEF Reuse
  <2>5. CASE Goto(t, "create") /\ UNCHANGED <<active_counts, ses>>
    <3>1. /\ pc'[t] = "create" /\ ses' = ses
          /\ \A u \in Thread : u # t => pc'[u] = pc[u]
      BY <1>0, <2>5 DEF Goto
    <3>2. Story(t)'
      BY <1>0, <2>4, <3>1 DEF Story, Acquiring
    <3>3. Settled'
      BY <1>0, <2>3, <3>1 DEF Settled
    <3> QED
      BY <1>0, <2>3, <3>1, <3>2, <3>3, StoryKept DEF Clean
  <2>6. ASSUME NEW i \in Slot, Scanned(t, bad, i)
        PROVE  Clean'
    <3> DEFINE g == connections[i].sockfd
    <3>1. /\ g \in Fd /\ sock[g].open /\ sock[g].out = <<>> /\ ~connections[i].in_use
          /\ \A u \in Thread : Has(u) => ses[u].fd # g
      <4>1. Belongs(i, ses[t].node) /\ Quiet(g) /\ g \in Fd
        BY <2>6 DEF Scanned, Belongs, TypeOK
      <4> QED
        BY <1>0, <4>1 DEF Belongs, Quiet, Marked
    <3>2. sock[g].owed = <<>>
      BY <1>0, <3>1 DEF Settled
    <3>3. i \notin bad /\ \A j \in bad : connections[j].sockfd # g
      BY <2>1, <2>6, <3>1 DEF Scanned, PoolInv, SlotsOwn, Belongs
    <3>4. sock'[g] = sock[g]
      BY <1>0, <2>1, <3>1, <3>3 DEF CloseAll
    <3>5. /\ ses'[t].fd = g /\ ses'[t].got = ses[t].got
          /\ \A u \in Thread : u # t => ses'[u] = ses[u] /\ pc'[u] = pc[u]
          /\ pc'[t] = "params"
      BY <1>0, <2>6 DEF Scanned, Goto, Session
    <3> HIDE DEF g
    <3>6. Story(t)'
      BY <1>0, <2>4, <3>1, <3>2, <3>4, <3>5 DEF Story, Acquiring, Peer
    <3>7. Settled'
      BY <1>0, <2>3, <3>5, <2>4 DEF Settled, Has, Acquiring
    <3> QED
      BY <1>0, <2>3, <3>5, <3>6, <3>7, StoryKept DEF Clean
  <2> QED
    BY <2>1, <2>5, <2>6
<1>3. CASE Create(t)
  <2>1. PICK f \in Fd : /\ ~sock[f].open
                        /\ sock' = [sock EXCEPT ![f] = Connected(ses[t].node)]
                        /\ ses' = [ses EXCEPT ![t].fd = f]
    BY <1>3 DEF Create
  <2>2. /\ sock'[f].owed = <<>> /\ sock'[f].out = <<>>
        /\ \A g \in Fd : g # f => sock'[g] = sock[g]
        /\ ses'[t].fd = f /\ ses'[t].got = ses[t].got
        /\ \A u \in Thread : u # t => ses'[u] = ses[u] /\ pc'[u] = pc[u]
        /\ pc[t] = "create" /\ pc'[t] = "store"
    BY <1>0, <1>3, <2>1 DEF Connected, Session, Create, Goto
  <2>3. \A u \in Thread : Has(u) => ses[u].fd # f
    BY <1>0, <2>1 DEF Held, Peer
  <2>4. Story(t)'
    BY <1>0, <2>2 DEF Story, Acquiring, Peer
  <2>5. Settled'
    BY <1>0, <2>2 DEF Settled, Has, Acquiring
  <2> QED
    BY <1>0, <2>2, <2>3, <2>4, <2>5, StoryKept DEF Clean
<1>4. CASE Store(t)
  <2>1. /\ UNCHANGED <<sock, ses>> /\ pc[t] = "store" /\ pc'[t] = "params"
        /\ \A u \in Thread : u # t => pc'[u] = pc[u]
    BY <1>0, <1>4 DEF Store, Goto
  <2>2. Story(t)'
    BY <1>0, <2>1 DEF Story, Acquiring, Peer
  <2>3. Settled'
    BY <1>0, <2>1 DEF Settled
  <2> QED
    BY <1>0, <2>1, <2>2, <2>3, StoryKept DEF Clean
<1> QED
  BY <1>1, <1>2, <1>3, <1>4 DEF Pool

LEMMA CleanSession ==
  ASSUME Prompt, TypeOK, PoolInv, Timed, Clean, NEW t \in Thread, Step(t)
  PROVE  Clean'
<1> DEFINE g == ses[t].fd
           r == ses[t].req
<1>0. /\ sock \in [Fd -> Socket] /\ pc \in [Thread -> Point] /\ ses \in [Thread -> Session]
      /\ \A u \in Thread : Has(u) => ses[u].fd \in Fd
      /\ Held /\ Settled /\ \A u \in Thread : Story(u)
  BY DEF TypeOK, PoolInv, Clean, Has
<1>1. /\ pc[t] \in {"params", "stdin", "recv", "splice", "discard", "release"} /\ Has(t) /\ g \in Fd
      /\ sock[g] \in Socket /\ sock[g].open /\ sock[g].alive
      /\ \A u \in Thread : u # t => pc'[u] = pc[u] /\ ses'[u] = ses[u]
      /\ \A u \in Thread : u # t /\ Has(u) => ses[u].fd # g
  <2>1. pc[t] \in {"params", "stdin", "recv", "splice", "discard", "release"}
    BY NoTurnLost
    DEF Step, SendParams, SendStdin, SendFails, HangUp, StartReading, ReadStdout,
        ReadEnd, ReadFails, ReadChunk, ChunkFails, Discard, Release, Sending, Waiting
  <2>2. Has(t) /\ g \in Fd
    BY <1>0, <2>1 DEF Has, Acquiring
  <2>3. \A u \in Thread : u # t => pc'[u] = pc[u] /\ ses'[u] = ses[u]
    <3>1. ASSUME SendParams(t) \/ SendStdin(t)
          PROVE  \A u \in Thread : u # t => pc'[u] = pc[u] /\ ses'[u] = ses[u]
      <4>1. \A u \in Thread : u # t => ses'[u] = ses[u]
        BY <3>1, Turns, TurnTaken
      <4> QED
        BY <1>0, <3>1, <4>1 DEF SendParams, SendStdin, Goto
    <3> QED
      BY <1>0, <3>1, NoTurnLost
      DEF Step, SendFails, HangUp, StartReading, ReadStdout, Answered, AfterStdout,
          ReadEnd, ReadFails, ReadChunk, ChunkFails, Discard, Release, Goto, Finish
  <2> QED
    BY <1>0, <2>1, <2>2, <2>3 DEF Held, Peer, PoolInv, OneUser
<1>2. \A q, k : Record(q, k).kind = k /\ Record(q, k).req = q
  BY DEF Record
<1>3. \A k : LET s == <<Record(r, k), Record(r, "end")>>
             IN  /\ s # <<>> /\ Head(s) = Record(r, k) /\ Tail(s) = <<Record(r, "end")>>
                 /\ Head(Tail(s)) = Record(r, "end")
  BY Pairs
<1>4. pc[t] = "splice" =>
         /\ sock[g].owed = <<>>
         /\ \/ ses[t].got = 0 /\ \E k \in {"stdout", "redirect"} :
                                     sock[g].out = <<Record(r, k), Record(r, "end")>>
            \/ ses[t].got = r /\ sock[g].out = <<Record(r, "end")>>
  BY <1>0 DEF Story, Response, Peer
<1>5. Head(<<Record(r, "end")>>).kind = "end"
  BY <1>2, Pairs
<1>6. ASSUME Story(t)', \A h \in Fd : h # g => sock'[h] = sock[h],
             \A h \in Fd : sock'[h].open = sock[h].open,
             ses'[t].fd = g
      PROVE  Clean'
  <2>1. Settled'
    BY <1>0, <1>1, <1>6 DEF Settled
  <2> QED
    BY <1>0, <1>1, <1>6, <2>1, StoryKept DEF Clean
<1>7. CASE SendParams(t)
  <2>1. /\ sock' = [sock EXCEPT ![g].owed = Append(@, [req |-> r, begun |-> FALSE])]
        /\ pc'[t] \in {"stdin", "recv"} /\ pc[t] = "params"
    BY <1>0, <1>7 DEF SendParams, Goto
  <2>4. ses'[t].fd = g /\ ses'[t].req = r /\ ses'[t].got = ses[t].got
    BY <1>7, Turns, TurnTaken
  <2>2. /\ sock'[g].owed = Append(sock[g].owed, [req |-> r, begun |-> FALSE])
        /\ sock'[g].out = sock[g].out /\ sock'[g].open = sock[g].open
        /\ \A h \in Fd : h # g => sock'[h] = sock[h]
    BY <1>0, <1>1, <2>1 DEF Socket
  <2>3. Story(t)'
    BY <1>0, <2>1, <2>2, <2>4, Pairs DEF Story, Acquiring, Peer
  <2> QED
    BY <1>6, <2>2, <2>3, <2>4
<1>8. CASE SendStdin(t)
  <2>1. UNCHANGED sock /\ pc[t] = "stdin" /\ pc'[t] \in {"stdin", "recv"}
    BY <1>0, <1>8 DEF SendStdin, Goto
  <2>2. ses'[t].fd = g /\ ses'[t].req = r /\ ses'[t].got = ses[t].got
    BY <1>8, Turns, TurnTaken
  <2>3. Story(t)'
    BY <1>0, <2>1, <2>2 DEF Story, Acquiring, Peer, Response
  <2> QED
    BY <1>6, <2>1, <2>2, <2>3
<1>9. /\ ~SendFails(t) /\ ~HangUp(t) /\ ~ChunkFails(t) /\ ~Discard(t)
      /\ ~GiveUp(t) /\ ~PollInVain(t)
  BY <1>0, <1>1, NoTurnLost DEF SendFails, HangUp, ChunkFails, Discard, Peer, Held, Lost
<1>10. CASE StartReading(t)
  <2>1. /\ UNCHANGED <<sock, ses>> /\ pc[t] = "recv" /\ pc'[t] = "splice"
        /\ Peer(t).out # <<>>
    BY <1>0, <1>1, <1>10 DEF StartReading, Goto, Peer
  <2>2. Story(t)'
    BY <1>0, <2>1 DEF Story, Acquiring, Peer, Response
  <2> QED
    BY <1>6, <2>1, <2>2
<1>11. CASE ReadStdout(t)
  <2>1. /\ sock' = [sock EXCEPT ![g].out = Tail(@)]
        /\ ses' = [ses EXCEPT ![t].got = Head(sock[g].out).req]
        /\ Head(sock[g].out).kind # "end"
        /\ pc[t] = "splice" /\ pc'[t] \in {"splice", "release"}
    BY <1>0, <1>11 DEF ReadStdout, AtStdout, Answered, AfterStdout, Consume, Goto, Peer
  <2>2. PICK k \in {"stdout", "redirect"} : sock[g].out = <<Record(r, k), Record(r, "end")>>
    BY <1>4, <1>5, <2>1
  <2>3. Tail(sock[g].out) = <<Record(r, "end")>> /\ Head(sock[g].out).req = r
    BY <1>2, <1>3, <2>2
  <2>4. /\ sock'[g].owed = sock[g].owed /\ sock'[g].open = sock[g].open
        /\ sock'[g].out = Tail(sock[g].out)
        /\ \A h \in Fd : h # g => sock'[h] = sock[h]
    BY <1>0, <1>1, <2>1 DEF Socket
  <2>5. /\ sock'[g].owed = <<>> /\ sock'[g].out = <<Record(r, "end")>>
    BY <1>4, <2>1, <2>3, <2>4
  <2>6. ses'[t].fd = g /\ ses'[t].req = r /\ ses'[t].got = r
    BY <1>0, <2>1, <2>3 DEF Session
  <2>7. Story(t)'
    BY <1>0, <2>1, <2>5, <2>6 DEF Story, Acquiring, Peer
  <2> QED
    BY <1>6, <2>4, <2>6, <2>7
<1>12. CASE ReadEnd(t)
  <2>1. /\ sock' = [sock EXCEPT ![g].out = Tail(@)] /\ ses' = ses
        /\ Head(sock[g].out).kind = "end"
        /\ pc[t] = "splice" /\ pc'[t] = "release"
    BY <1>0, <1>12 DEF ReadEnd, Consume, Goto, Peer
  <2>2. ses[t].got = r
    BY <1>2, <1>3, <1>4, <2>1
  <2>3. /\ sock'[g].owed = sock[g].owed /\ sock'[g].open = sock[g].open
        /\ \A h \in Fd : h # g => sock'[h] = sock[h]
    BY <1>0, <1>1, <2>1 DEF Socket
  <2>4. Story(t)'
    BY <1>4, <2>1, <2>2, <2>3 DEF Story, Acquiring, Peer
  <2> QED
    BY <1>6, <2>1, <2>3, <2>4
<1>13. ~ReadFails(t)
  <2>1. Faults \cap {"stalled", "gone"} = {}
    BY DEF Prompt
  <2> SUFFICES ASSUME ReadFails(t) PROVE FALSE
    OBVIOUS
  <2>2. pc[t] = "splice" /\ Peer(t).out = <<>>
    BY <2>1 DEF ReadFails
  <2>3. \E x, y : Peer(t).out = <<x>> \/ Peer(t).out = <<x, y>>
    <3>1. Story(t)
      BY DEF Clean
    <3> QED
      BY <2>2, <3>1 DEF Story, Response
  <2> QED
    BY <2>2, <2>3, Pairs
<1>14. CASE ReadChunk(t)
  <2> DEFINE stdout == {i \in DOMAIN sock[g].out : sock[g].out[i].kind # "end"}
  <2>1. /\ pc[t] = "recv" /\ sock[g].out # <<>>
        /\ sock' = [sock EXCEPT ![g].out = <<>>]
        /\ stdout # {} => /\ ses' = [ses EXCEPT ![t].got = sock[g].out[Least(stdout)].req]
                          /\ pc'[t] = "release"
    BY <1>0, <1>14 DEF ReadChunk, Goto, Peer
  <2>2. PICK k \in {"stdout", "redirect"} : sock[g].out = <<Record(r, k), Record(r, "end")>>
    BY <1>0, <2>1, Pairs DEF Story, Response, Peer
  <2>3. stdout = {1}
    BY <2>2, Pairs DEF Record
  <2>4. Least(stdout) = 1
    BY <2>3, LeastMember
  <2>5. ses' = [ses EXCEPT ![t].got = r] /\ pc'[t] = "release"
    BY <2>1, <2>2, <2>3, <2>4, Pairs DEF Record
  <2>6. sock[g].owed = <<>>
    BY <1>0, <2>1, Pairs DEF Story, Peer
  <2>7. /\ sock'[g].owed = sock[g].owed /\ sock'[g].open = sock[g].open
        /\ \A h \in Fd : h # g => sock'[h] = sock[h]
    BY <1>0, <1>1, <2>1 DEF Socket
  <2>8. ses'[t].fd = g /\ ses'[t].req = r /\ ses'[t].got = r
    BY <1>0, <2>5 DEF Session
  <2>9. Story(t)'
    BY <2>5, <2>6, <2>7, <2>8 DEF Story, Acquiring, Peer
  <2> QED
    BY <1>6, <2>7, <2>8, <2>9
<1>15. CASE Release(t)
  <2>1. /\ pc[t] = "release" /\ Finish(t)
        /\ sock' = sock \/ sock' = [sock EXCEPT ![g] = Closed]
    BY <1>15, ReleaseEffect
  <2>2. sock[g].owed = <<>>
    BY <1>0, <2>1 DEF Story, Peer
  <2>3. pc'[t] = "idle" /\ ses'[t].got = 0
    BY <1>0, <2>1 DEF Finish, Goto, NoSession
  <2>4. Story(t)'
    BY <2>3 DEF Story, Acquiring
  <2>5. /\ \A h \in Fd : h # g => sock'[h] = sock[h]
        /\ sock'[g].owed = <<>>
    BY <1>0, <1>1, <2>1, <2>2 DEF Closed
  <2>6. Settled'
    BY <1>0, <1>1, <2>5 DEF Settled
  <2> QED
    BY <1>0, <1>1, <2>4, <2>5, <2>6, StoryKept DEF Clean
<1> QED
  BY <1>7, <1>8, <1>9, <1>10, <1>11, <1>12, <1>13, <1>14, <1>15 DEF Step

(* A backend answers what it owes, and that is the request of the session  *)
(* that has the connection.                                                *)
LEMMA CleanOutside ==
  ASSUME Prompt, TypeOK, PoolInv, Clean, NEW f \in Fd, Outside(f)
  PROVE  Clean'
<1>0. /\ sock \in [Fd -> Socket] /\ UNCHANGED <<pc, ses>>
      /\ \A u \in Thread : Has(u) => ses[u].fd \in Fd
      /\ \A u \in Thread : ~Has(u) => ses[u].fd = NoFd
      /\ Held /\ OneUser /\ Settled /\ \A u \in Thread : Story(u)
      /\ NoFd \notin Fd
  BY BoundAssumption
  DEF TypeOK, PoolInv, Clean, Has, Held, Outside, Answer, AnswerBegins, AnswerEnds,
      BackendCloses
<1>1. ~AnswerBegins(f)
  BY DEF Prompt, AnswerBegins
<1>2. ASSUME Busy(f)
      PROVE  \E t \in Thread : /\ ses[t].fd = f /\ pc[t] \in {"stdin", "recv"}
                               /\ sock[f].owed = <<[req |-> ses[t].req, begun |-> FALSE]>>
                               /\ sock[f].out = <<>>
                               /\ \A u \in Thread : u # t /\ Has(u) => ses[u].fd # f
  <2>1. sock[f].open /\ sock[f].owed # <<>>
    BY <1>2 DEF Busy
  <2>2. PICK t \in Thread : ses[t].fd = f
    BY <1>0, <2>1 DEF Settled
  <2>3. Has(t) /\ pc[t] \in Point /\ pc[t] \notin {"discard", "stalled"}
    BY <1>0, <2>2 DEF Held, TypeOK, Lost
  <2>4. pc[t] \in {"stdin", "recv"}
    BY <1>0, <2>1, <2>2, <2>3 DEF Story, Has, Acquiring, Point, Peer
  <2>5. /\ sock[f].owed = <<[req |-> ses[t].req, begun |-> FALSE]>> /\ sock[f].out = <<>>
    BY <1>0, <2>1, <2>2, <2>4 DEF Story, Peer
  <2> QED
    BY <1>0, <2>2, <2>3, <2>4, <2>5 DEF OneUser
<1>3. ~AnswerEnds(f)
  <2>1. SUFFICES ASSUME AnswerEnds(f) PROVE FALSE
    OBVIOUS
  <2>2. Busy(f) /\ Head(sock[f].owed).begun
    BY <2>1 DEF AnswerEnds
  <2>3. PICK t \in Thread : sock[f].owed = <<[req |-> ses[t].req, begun |-> FALSE]>>
    BY <1>2, <2>2
  <2> QED
    BY <2>2, <2>3, Pairs
<1>4. CASE Answer(f)
  <2>1. PICK t \in Thread : /\ ses[t].fd = f /\ pc[t] \in {"stdin", "recv"}
                            /\ sock[f].owed = <<[req |-> ses[t].req, begun |-> FALSE]>>
                            /\ sock[f].out = <<>>
                            /\ \A u \in Thread : u # t /\ Has(u) => ses[u].fd # f
    BY <1>2, <1>4 DEF Answer
  <2>2. PICK k \in {"stdout", "redirect"} :
            LET q == Head(sock[f].owed).req
            IN  sock' = [sock EXCEPT ![f] =
                  [Reply(f, <<Record(q, k), Record(q, "end")>>) EXCEPT !.owed = Tail(@)]]
    BY <1>4 DEF Answer
  <2>3. Head(sock[f].owed).req = ses[t].req /\ Tail(sock[f].owed) = <<>>
    BY <2>1, Pairs
  <2> DEFINE m == <<Record(ses[t].req, k), Record(ses[t].req, "end")>>
  <2>4. sock' = [sock EXCEPT ![f] = [Reply(f, m) EXCEPT !.owed = Tail(@)]]
    BY <2>2, <2>3
  <2>5. <<>> \o m = m
    BY Pairs
  <2> HIDE DEF m
  <2>6. /\ sock'[f].owed = <<>> /\ sock'[f].out = m /\ sock'[f].open = sock[f].open
        /\ \A h \in Fd : h # f => sock'[h] = sock[h]
    BY <1>0, <2>1, <2>3, <2>4, <2>5 DEF Reply, Socket
  <2>7. Story(t)'
    BY <1>0, <2>1, <2>6 DEF Story, Response, Peer, Acquiring, m
  <2>8. Settled'
    BY <1>0, <2>1, <2>6 DEF Settled
  <2> QED
    BY <1>0, <2>1, <2>6, <2>7, <2>8, StoryKept DEF Clean
<1>5. CASE BackendCloses(f)
  <2>1. /\ sock' = [sock EXCEPT ![f].alive = FALSE, ![f].owed = <<>>]
        /\ \A u \in Thread : ses[u].fd # f
    BY <1>5 DEF BackendCloses, Prompt
  <2>2. /\ \A h \in Fd : h # f => sock'[h] = sock[h]
        /\ sock'[f].owed = <<>>
    BY <1>0, <2>1 DEF Socket
  <2>3. Settled'
    BY <1>0, <2>2 DEF Settled
  <2> QED
    BY <1>0, <2>1, <2>2, <2>3, StoryKept DEF Clean
<1> QED
  BY <1>1, <1>3, <1>4, <1>5 DEF Outside

LEMMA CleanStep ==
  ASSUME Prompt, TypeOK, PoolInv, Timed, Clean, [Next]_vars
  PROVE  Clean'
<1>1. \A t \in Thread : ~ClientLeaves(t) /\ ~Stall(t)
  BY NoTurnLost DEF Prompt, ClientLeaves
<1>2. CASE UNCHANGED vars
  <2>1. Settled'
    BY <1>2 DEF Clean, Settled, vars
  <2> QED
    BY <1>2, <2>1, StoryKept DEF Clean, vars
<1> QED
  BY <1>1, <1>2, CleanAcquire, CleanSession, CleanOutside DEF Next

LEMMA CleanInit == Init => Clean /\ Timed
<1> SUFFICES ASSUME Init PROVE Clean /\ Timed
  OBVIOUS
<1>1. /\ \A t \in Thread : pc[t] = "idle" /\ ses[t].got = 0
      /\ \A f \in Fd : sock[f].owed = <<>>
  BY DEF Init, NoSession, Closed
<1> QED
  BY <1>1 DEF Clean, Settled, Story, Acquiring, Timed, InTime, Fresh

(* A client gets the response to its own request, though every request on  *)
(* the wire has number 1 and connections are used again, as long as the    *)
(* backends answer before a poll times out, each response comes in one     *)
(* piece, and each body leaves one of the attempts for the response.       *)
THEOREM AnswerCorrect ==
  ASSUME Prompt
  PROVE  Spec => []AnswerOwn
<1>1. Calm
  BY DEF Prompt, Calm
<1> DEFINE IInv == TypeOK /\ PoolInv /\ Clean /\ Timed
<1>2. Init => IInv
  BY TypeInit, PoolInit, CleanInit
<1>3. IInv /\ [Next]_vars => IInv'
  BY <1>1, TypeStep, PoolStep, CleanStep, TimedStep
<1>4. IInv => AnswerOwn
  BY DEF TypeOK, Point, PoolInv, Held, Has, Acquiring, Lost, Clean, Story, AnswerOwn
<1> QED
  BY <1>2, <1>3, <1>4, PTL DEF Spec
=============================================================================
