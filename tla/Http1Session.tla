----------------------------- MODULE Http1Session -----------------------------
(***************************************************************************)
(* One HTTP/1.1 connection: bridge_detect, the state machine               *)
(* http1_manager_session with its parser, routing and response senders.    *)
(* One worker at a time drives it (ConnLifecycle); between two of its steps*)
(* the client sends, the socket fills or drains, the backend works.  What  *)
(* FastCGI does inside is FcgiPool; here it answers or fails.              *)
(***************************************************************************)
EXTENDS Integers, Sequences, FiniteSets, SequencesExt

CONSTANTS
  FileSize,     (* size of the file, in units of what sendfile may take     *)
  Capacity,     (* request_buffer_size, in pieces of a request              *)
  World         (* the connections considered: the requests and WebSocket   *)
                (* frames of the client, TLS or not, what may go wrong      *)

HeadLen == 2    (* a request's header reaches the socket in two pieces      *)

Kinds == {"file", "missing", "noaccess",     \* a static path
          "fcgi", "busy",                    \* a backend's, or none is free
          "bad", "method",                   \* unparsable; a file, by a method
                                             \* bridge_detect does not know
          "upgrade"}                         \* GET /ws with Upgrade
Request == [kind : Kinds, body : Nat, declared : Nat, keep : BOOLEAN, routed : BOOLEAN]

WsKinds == {"text", "ping", "close",         \* what ws_system_dispatch does with it
            "fragment", "unmasked", "large"} \* what the receiver rejects
WsFrame == [kind : WsKinds, ext : {0, 2}, pay : Nat]

Faulty == {"pipelined",   \* requests sent before the response to the last
           "undeclared",  \* a body without Content-Length
           "grown",       \* realloc moves the buffer
           "backend",     \* the backend fails, before or in its response
           "shrunk",      \* the file gets shorter while it is sent
           "full",        \* the socket has no room for a page or the 101
           "wantread",    \* SSL_write needs a read first
           "trickle",     \* less than four bytes come first
           "early",       \* WebSocket frames before the 101
           "coalesced",   \* two frames in one TLS record
           "lost"}        \* the connection fails, or the client leaves

Http1Assumption ==
  /\ FileSize \in Nat /\ Capacity \in Nat /\ Capacity > HeadLen
  /\ World \subseteq [reqs : Seq(Request), frames : Seq(WsFrame), tls : BOOLEAN,
                      faults : SUBSET Faulty]
ASSUME Http1Assumption

(* Something is asked; an upgrade is the last request; a Content-Length, if
   there is one, is right. *)
ClientAssumption ==
  \A w \in World :
    /\ Len(w.reqs) > 0
    /\ \A i \in 1 .. Len(w.reqs) - 1 : w.reqs[i].kind # "upgrade"
    /\ \/ "undeclared" \in w.faults
       \/ \A i \in 1 .. Len(w.reqs) : w.reqs[i].declared = w.reqs[i].body
ASSUME ClientAssumption

VARIABLES
  pc,           (* "parked" with epoll, "run" by a worker, or "closed"      *)
  rearm,        (* the status returned: 2 EPOLLIN, 3 EPOLLOUT               *)
  sess,         (* HTTP1Session; in state "detect" there is none yet, in    *)
                (* "ws" the descriptor speaks WebSocket                     *)
  files,        (* open file descriptors                                    *)
  net,          (* received by the kernel: what came together, in order     *)
  pending,      (* decrypted by OpenSSL and not yet read                    *)
  wire,         (* history: what the server wrote                           *)
  sent,         (* history: how much of its script the client has sent      *)
  left,         (* the client has closed its side                           *)
  world         (* the member of World this connection lives in             *)

httpVars == <<pc, rearm, sess, files, net, pending, wire, sent, left, world>>

Can(fault) == fault \in world.faults

(* ------------------------------------------------------------ the client *)

(* A piece of the i-th request or frame: which part, which piece of it. *)
Part(i, p, n) == [k \in 1 .. n |-> <<i, p, k>>]
RequestPieces(i) == Part(i, "head", HeadLen) \o Part(i, "body", world.reqs[i].body)
FramePieces(j) ==
  LET f == world.frames[j]
  IN  Part(j, "hdr", 2) \o Part(j, "ext", f.ext) \o Part(j, "mask", 2) \o Part(j, "pay", f.pay)

HttpScript(n) == FlattenSeq([i \in 1 .. n |-> RequestPieces(i)])
WsScript(n)   == FlattenSeq([j \in 1 .. n |-> FramePieces(j)])
Requests == Len(world.reqs)
Script == HttpScript(Requests) \o WsScript(Len(world.frames))

(* How many pieces a response has, and whether the client has it all. *)
Size(what) == CASE what = "file" -> 1 + FileSize [] what = "fcgi" -> 2
                [] what = "page" -> 2 [] what = "101" -> 1
Answered(i) == \E w \in ToSet(wire) : w[1] = i /\ w[3] = Size(w[2])

(* The client goes on when the last response is complete, or at once. *)
AwaitedRequests ==
  IF Can("pipelined") THEN Requests
  ELSE CHOOSE n \in 1 .. Requests : /\ \A i \in 1 .. n - 1 : Answered(i)
                                    /\ n = Requests \/ ~Answered(n)
Allowed ==
  IF AwaitedRequests = Requests /\ (Answered(Requests) \/ Can("early"))
  THEN Len(Script) ELSE Len(HttpScript(AwaitedRequests))

FrameEnds == {Len(HttpScript(Requests) \o WsScript(j)) : j \in 1 .. Len(world.frames)}

(* Fault-free clients give each frame a TLS record of its own. *)
ClientSends(n) ==
  /\ pc # "closed" /\ ~left /\ sent + n <= Allowed
  /\ Can("coalesced") \/ \A e \in FrameEnds : ~(sent < e /\ e < sent + n)
  /\ net' = Append(net, SubSeq(Script, sent + 1, sent + n))
  /\ sent' = sent + n
  /\ UNCHANGED <<pc, rearm, sess, files, pending, wire, left, world>>

ClientLeaves ==
  /\ Can("lost") /\ ~left /\ left' = TRUE
  /\ UNCHANGED <<pc, rearm, sess, files, net, pending, wire, sent, world>>

(* ------------------------------------------------------------ the socket *)

(* What recv or SSL_read can give, and takes: the bytes that came, or what is
   left of one record. *)
Readable == IF world.tls THEN IF pending # <<>> THEN pending
                              ELSE IF net = <<>> THEN <<>> ELSE Head(net)
            ELSE FlattenSeq(net)
Took(room) == SubSeq(Readable, 1, IF Len(Readable) < room THEN Len(Readable) ELSE room)
Recv(room) ==
  LET rest == SubSeq(Readable, Len(Took(room)) + 1, Len(Readable))
  IN  /\ Took(room) # <<>>
      /\ pending' = IF world.tls THEN rest ELSE <<>>
      /\ net' = IF ~world.tls THEN IF rest = <<>> THEN <<>> ELSE <<rest>>
                ELSE IF pending = <<>> THEN Tail(net) ELSE net

NothingToRead == Readable = <<>> /\ ~left
EndOfInput    == Readable = <<>> /\ left

(* epoll looks at the kernel's buffer alone. *)
Reported == rearm = 3 \/ net # <<>> \/ left

(* ----------------------------------------------------------- the session *)

NewSession == [state |-> "detect", buf |-> <<>>, cap |-> Capacity, req |-> 0, uri |-> "none",
               header_sent |-> FALSE, remaining |-> 0, file |-> 0]
Req == world.reqs[sess.req]

Park(status) == pc' = "parked" /\ rearm' = status
Stay == UNCHANGED <<pc, rearm>>
InState(s) == pc = "run" /\ sess.state = s
Quiet == UNCHANGED <<net, pending, wire, sent, left, world>>

(* http1_session_destroy *)
Close == pc' = "closed" /\ rearm' = 0 /\ sess' = NewSession /\ files' = files \ {sess.file}

(* memset of the request; the buffer is emptied, whatever else it holds, and
   is_header_sent stays. *)
ResetSession == [NewSession EXCEPT !.state = "headers", !.cap = sess.cap,
                                   !.header_sent = sess.header_sent]
NextRequest ==
  IF Req.keep THEN /\ Park(2) /\ sess' = ResetSession
                   /\ files' = files \ {sess.file}
  ELSE Close

Reports ==
  /\ pc = "parked" /\ Reported
  /\ pc' = "run" /\ UNCHANGED <<rearm, sess, files>> /\ Quiet

(* ------------------------------------------------------------- detection *)

(* bridge_detect peeks at the first four bytes. *)
TooFew == ~world.tls /\ Can("trickle") /\ Len(Readable) = 1

Detect ==
  /\ InState("detect") /\ Readable # <<>> /\ ~TooFew
  /\ IF world.reqs[1].kind = "method" /\ ~world.tls THEN Close
     ELSE sess' = [sess EXCEPT !.state = "headers"] /\ Stay /\ UNCHANGED files
  /\ Quiet

DetectRetries ==
  /\ InState("detect") /\ (NothingToRead \/ TooFew)
  /\ Park(2) /\ UNCHANGED <<sess, files>> /\ Quiet

(* ----------------------------------------------------------- reading *)

Room == sess.cap - Len(sess.buf)
EndsHead(piece) == piece[2] = "head" /\ piece[3] = HeadLen
HeaderEnd(b) == SelectInSeq(b, EndsHead)          \* strstr: 0 if not there yet

(* update_header_pointers: right for pointers into the buffer, not for those
   into route_result. *)
ShiftUri(u) == IF u = "route" THEN "wild" ELSE u

(* The buffer is full: it is doubled, and may move. *)
Grow ==
  /\ InState("headers") \/ InState("body")
  /\ Room = 0
  /\ \/ sess' = [sess EXCEPT !.cap = 2 * @]
     \/ Can("grown") /\ sess' = [sess EXCEPT !.cap = 2 * @, !.uri = ShiftUri(@)]
  /\ Stay /\ UNCHANGED files /\ Quiet

(* A page is sent in two writes whose result nobody looks at. *)
PageOut(i) == {wire \o Part(i, "page", n) : n \in IF Can("full") THEN 0 .. 2 ELSE {2}}

(* http1_parser_parse_header on a whole header.  What precedes the request
   line, left by the request before, becomes part of the method or spoils it. *)
Parse(b) ==
  LET i == b[HeaderEnd(b)][1]
      r == world.reqs[i]
  IN  \/ /\ r.kind # "bad"
         /\ sess' = [sess EXCEPT !.buf = b, !.req = i,
                                 !.uri = IF r.routed THEN "route" ELSE "buffer",
                                 !.state = IF r.declared > 0 THEN "body" ELSE "handle"]
         /\ Stay /\ UNCHANGED <<wire, files>>
      \/ /\ r.kind = "bad" \/ b[1] # <<i, "head", 1>>
         /\ \E w \in PageOut(i) : wire' = w
         /\ Close

ReadHeaders ==
  /\ InState("headers") /\ Room > 0
  /\ Recv(Room)
  /\ LET b == sess.buf \o Took(Room)
     IN  IF HeaderEnd(b) > 0 THEN Parse(b)
         ELSE sess' = [sess EXCEPT !.buf = b] /\ Stay /\ UNCHANGED <<wire, files>>
  /\ UNCHANGED <<sent, left, world>>

Received == Len(sess.buf) - HeaderEnd(sess.buf)
BodyShort == (* fault *) Received + 1 < Req.declared
BodyMissing == Received < Req.declared

ReadBody ==
  /\ InState("body") /\ Room > 0 /\ BodyMissing
  /\ Recv(Room)
  /\ sess' = [sess EXCEPT !.buf = @ \o Took(Room)]
  /\ Stay /\ UNCHANGED <<files, wire, sent, left, world>>

BodyComplete ==
  /\ InState("body") /\ ~BodyMissing
  /\ sess' = [sess EXCEPT !.state = "handle"]
  /\ Stay /\ UNCHANGED files /\ Quiet

Waiting == InState("headers") \/ (InState("body") /\ BodyMissing)

(* EAGAIN; end of file or an error. *)
ReadRetries ==
  /\ Waiting /\ Room > 0 /\ NothingToRead
  /\ Park(2) /\ UNCHANGED <<sess, files>> /\ Quiet
ReadEnds ==
  /\ Waiting \/ InState("detect")
  /\ EndOfInput
  /\ Close /\ Quiet

(* --------------------------------------------- http1_manager_routing_bridge *)

(* Which path the worker takes; through a wild pointer, any. *)
Routed(kind) == InState("handle") /\ (Req.kind = kind \/ sess.uri = "wild")

(* The session is dropped with its buffer and what that still holds; whether
   the 101 was written, and had a key to be made from, is not looked at. *)
HandleUpgrade ==
  /\ Routed("upgrade") /\ Req.kind = "upgrade"
  /\ \/ wire' = Append(wire, <<sess.req, "101", 1>>)
     \/ Can("full") /\ wire' = wire
  /\ sess' = [NewSession EXCEPT !.state = "ws"]
  /\ Park(2)
  /\ UNCHANGED <<files, net, pending, sent, left, world>>

HandleFcgi ==
  /\ Routed("fcgi")
  /\ sess' = [sess EXCEPT !.state = "fcgi"]
  /\ Park(3) /\ UNCHANGED files /\ Quiet

(* 502 or 404, or no answer if the file cannot be opened. *)
HandlePage ==
  /\ Routed("busy") \/ Routed("missing")
  /\ \E w \in PageOut(sess.req) : wire' = w
  /\ Close /\ UNCHANGED <<net, pending, sent, left, world>>
HandleNoAccess == Routed("noaccess") /\ Close /\ Quiet

FreeNumber == CHOOSE f \in 1 .. Cardinality(files) + 1 : f \notin files
HandleFile ==
  /\ Routed("file") \/ Routed("method")
  /\ files' = files \cup {FreeNumber}
  /\ sess' = [sess EXCEPT !.state = "send", !.file = FreeNumber, !.remaining = FileSize,
                          !.header_sent = FALSE]
  /\ Park(3) /\ Quiet

(* ------------------------------------------------------------ responding *)

(* The poll loop of the worker, to its end. *)
FcgiCompletes ==
  /\ InState("fcgi")
  /\ wire' = wire \o Part(sess.req, "fcgi", 2)
  /\ NextRequest /\ UNCHANGED <<net, pending, sent, left, world>>

(* The backend failed with nothing or a part passed on: 502, unless some
   response of this connection has set is_header_sent. *)
FcgiFails ==
  /\ InState("fcgi") /\ Can("backend")
  /\ \E n \in 0 .. 1 :
       wire' = wire \o Part(sess.req, "fcgi", n)
                    \o (IF sess.header_sent THEN <<>> ELSE Part(sess.req, "page", 2))
  /\ NextRequest /\ UNCHANGED <<net, pending, sent, left, world>>

(* http1_response_plain and http1_response_ssl.  What is left of the response:
   the header and the file from where the last write ended. *)
Unsent == (IF sess.header_sent THEN 0 ELSE 1) + sess.remaining

(* Fault: the offset is not kept, a retry begins again with the header. *)
AdvanceForgets(n) == [sess EXCEPT !.header_sent = FALSE, !.remaining = @ - n + 1]
Advance(n) == [sess EXCEPT !.header_sent = TRUE,
                           !.remaining = @ - n + (IF sess.header_sent THEN 0 ELSE 1)]

SendSome(n) ==
  /\ InState("send") /\ n \in 1 .. Unsent
  /\ LET first == 1 + FileSize - Unsent
     IN  wire' = wire \o [k \in 1 .. n |-> <<sess.req, "file", first + k>>]
  /\ sess' = Advance(n)
  /\ Stay /\ UNCHANGED <<files, net, pending, sent, left, world>>

ParkForRead == Park(2)                                              (* fault *)
ParkToWrite == IF Can("wantread") THEN \E s \in 2 .. 3 : Park(s) ELSE Park(3)

(* The socket takes no more. *)
SendRetries ==
  /\ InState("send") /\ Unsent > 0
  /\ ParkToWrite
  /\ UNCHANGED <<sess, files>> /\ Quiet

SendFails == InState("send") /\ Unsent > 0 /\ (Can("lost") \/ left) /\ Close /\ Quiet

(* sendfile or read finds the end of the file too early: an error in the
   clear, the end of the response over TLS. *)
SendShrunk ==
  /\ InState("send") /\ Can("shrunk") /\ sess.header_sent /\ sess.remaining > 0
  /\ IF world.tls THEN NextRequest ELSE Close
  /\ Quiet

SendDone == InState("send") /\ Unsent = 0 /\ NextRequest /\ Quiet

(* ------------------------------------------------------------------ spec *)

HttpInit ==
  /\ pc = "parked" /\ rearm = 2 /\ sess = NewSession /\ files = {}
  /\ net = <<>> /\ pending = <<>> /\ wire = <<>> /\ sent = 0 /\ left = FALSE
  /\ world \in World

Handle == HandleUpgrade \/ HandleFcgi \/ HandlePage \/ HandleNoAccess \/ HandleFile
Respond ==
  FcgiCompletes \/ FcgiFails \/ SendRetries \/ SendFails \/ SendShrunk \/ SendDone
  \/ \E n \in 1 .. 1 + FileSize : SendSome(n)
Read ==
  Detect \/ DetectRetries \/ Grow \/ ReadHeaders \/ ReadBody \/ BodyComplete \/ ReadRetries
  \/ ReadEnds

HttpStep == Read \/ Handle \/ Respond \/ Reports
ClientStep == ClientLeaves \/ \E n \in 1 .. Len(Script) : ClientSends(n)
===============================================================================
