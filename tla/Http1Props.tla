------------------------------ MODULE Http1Props ------------------------------
(* Properties of an HTTP/1.1 connection and of the WebSocket it becomes. *)
EXTENDS WsReceiver

Without(fs) == world.faults \cap fs = {}

(* The variables hold what the session's fields and the receiver's can hold. *)
TypeOK ==
  /\ pc \in {"parked", "run", "closed"} /\ rearm \in {0, 2, 3}
  /\ sess.state \in {"detect", "headers", "body", "handle", "fcgi", "send", "ws"}
  /\ sess.req \in 0 .. Requests /\ sess.uri \in {"none", "buffer", "route", "wild"}
  /\ sess.remaining \in 0 .. FileSize /\ sess.header_sent \in BOOLEAN
  /\ Len(sess.buf) <= sess.cap /\ sent \in 0 .. Len(Script) /\ left \in BOOLEAN
  /\ recv.state \in Parts /\ recv.as \in 0 .. Len(world.frames)
  /\ files = IF sess.file = 0 THEN {} ELSE {sess.file}

-----------------------------------------------------------------------------
(* The pieces of a response that a client accepts: the responses in the order
   of the requests, each whole before the next begins. *)
Follows(w, v) ==
  \/ v = <<w[1], w[2], w[3] + 1>>
  \/ w[3] = Size(w[2]) /\ v[1] = w[1] + 1 /\ v[3] = 1

(* halmos_http1_manager.c:225-367: however the socket takes a file, wherever a
   retry goes on, the client reads whole responses, one after the other, none
   twice and none for a request that was not asked. *)
ResponsesWhole ==
  Without({"pipelined", "undeclared", "backend", "shrunk"}) =>
    /\ wire # <<>> => wire[1][1] = 1 /\ wire[1][3] = 1
    /\ \A k \in 1 .. Len(wire) - 1 : Follows(wire[k], wire[k + 1])

(* halmos_http1_manager.c:44, the buffer grows while a body is read: what the
   router reads is the URI of this request, and all of the body is there. *)
RequestSound ==
  Without({"grown", "undeclared", "pipelined"}) /\ sess.state = "handle" =>
    /\ sess.uri # "wild"
    /\ IsPrefix(RequestPieces(sess.req), sess.buf)

(* What the session keeps between two events is of its type, its own file
   included, and stands for the request it handles. *)
RequestKept == TypeOK /\ RequestSound

(* halmos_ws_system.c:234: frames are dispatched in order, each made of its own
   bytes, however they arrive. Not claimed of frames sent before the 101, nor
   of a request with a body it does not declare, which is read as frames. *)
InOrder ==
  Without({"early", "undeclared"}) =>
    \A k \in 1 .. Len(delivered) : k <= Len(world.frames) /\ delivered[k] = FramePieces(k)

-----------------------------------------------------------------------------
(* A worker serves the connection; the client reads, so a socket that is full
   has room again and again. *)
Fairness ==
  /\ WF_vars((HttpStep /\ UNCHANGED <<recv, delivered>>) \/ WsStep)
  /\ \A n \in 1 .. 1 + FileSize : SF_vars(SendSome(n) /\ UNCHANGED <<recv, delivered>>)

FairSpec == Spec /\ Fairness

Asked(i) == sent >= Len(HttpScript(i))
Framed(j) == sent >= Len(HttpScript(Requests) \o WsScript(j))

(* A request that came whole is answered whole, a frame is dispatched, or the
   connection closes: no event is waited for that epoll will not report. *)
Progress ==
  Without({"pipelined", "undeclared", "backend", "shrunk", "full", "wantread", "early",
           "coalesced"}) =>
    /\ \A i \in 1 .. 2 : i <= Requests /\ Asked(i) ~> Answered(i) \/ pc = "closed"
    /\ \A j \in 1 .. 2 : j <= Len(world.frames) /\ Framed(j)
                          ~> Len(delivered) >= j \/ pc = "closed"
===============================================================================
