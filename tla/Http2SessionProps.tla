--------------------------- MODULE Http2SessionProps ---------------------------
(* Properties of an HTTP/2 session. *)
EXTENDS Http2Session

Without(fs) == world.faults \cap fs = {}

StreamRecord ==
  [state : {0, 2, 4, 6}, kind : Kinds \cup {"none"}, body : BOOLEAN, file : Nat,
   offset : 0 .. FileSize, sending : BOOLEAN, fcgi : {"off", "params", "stdin", "recv"}]

(* The variables hold what the session's fields can hold. *)
TypeOK ==
  /\ pc \in {"parked", "closed", "top", "preface", "collect", "streams", "header", "payload",
             "dispatch"}
  /\ rearm \in {0, 2, 4} /\ preface \in 0 .. Piece
  /\ read_state \in 0 .. 1 /\ header_bytes \in 0 .. Piece /\ payload_bytes \in 0 .. Piece
  /\ streams \in [Stream -> StreamRecord \cup {NoStream}]
  /\ out_window \in [Stream \cup {0} -> -(WindowSpan \div 2) .. WindowSpan \div 2 - 1]
  /\ todo \subseteq Stream /\ backends \subseteq Stream
  /\ cl \in [Stream -> {"none", "open", "ended", "refused", "reset"}] /\ in \in 0 .. world.frames

-----------------------------------------------------------------------------
(* The pieces of frames that went through http2_frame_send. *)
Buffered(ps) ==
  LET upTo[i \in 0 .. Len(ps)] ==
        IF i = 0 THEN <<>>
        ELSE IF ps[i][1] = 0 THEN upTo[i - 1]
        ELSE Append(upTo[i - 1], ps[i])
  IN  upTo[Len(ps)]

(* PiecesOf(1) \o PiecesOf(2) \o ... for n frames. *)
AllPieces(n) ==
  [k \in 1 .. Piece * n |-> <<1 + ((k - 1) \div Piece), 1 + ((k - 1) % Piece)>>]

(* halmos_http2_frame.c:33: what http2_frame_send was given leaves whole and in
   the order it was given, however the socket takes it and whenever the rest is
   flushed. *)
WireOrder ==
  pc = "closed" \/ out.error \/ Buffered(out.wire) \o out.pending = AllPieces(Len(out.asked))

(* handle_socket_retry and the flush: a session that gives the worker back
   while it still has bytes or streams to write asks epoll for EPOLLOUT, or
   nothing would wake it. *)
Rearmed == pc = "parked" /\ NeedWrite => rearm = 4

(* Each stream is answered with one HEADERS, first, and one END_STREAM, last;
   a stream the rate limiter refused gets RST_STREAM alone. *)
ResponseShape ==
  Without({"again", "late", "more", "bigheader"}) =>
    \A s \in Stream :
      LET mine == {i \in DOMAIN out.asked : out.asked[i].s = s /\ out.asked[i].k # "WINDOW_UPDATE"}
      IN  \A i \in mine :
            /\ (out.asked[i].k = "DATA") <=> (\E j \in mine : j < i)
            /\ out.asked[i].end \/ out.asked[i].k = "RST" => (\A j \in mine : j <= i)

(* File descriptors: what is open is what some stream holds, one each; after
   http2_session_destroy none is open.  Neither handler looks at the state of
   the stream: HEADERS repeated and DATA after END_STREAM or RST_STREAM route
   the request again, over the descriptor it has open. *)
FileOwned ==
  Without({"again", "more"}) =>
    LET holders == {s \in Stream : Exists(s) /\ streams[s].file # 0}
    IN  /\ files = {streams[s].file : s \in holders}
        /\ \A s, r \in holders : s # r => streams[s].file # streams[r].file

(* Flow control: as long as no page and no backend's answer was sent, which
   ask no window, server and client agree on every window.  The connection's is
   never overdrawn, a stream's only by what a SETTINGS frame took back from the
   window v announced before. *)
CreditKept ==
  Without({"overflow"}) /\ (\A x \in DOMAIN unpaid : unpaid[x] = 0) =>
    /\ \A x \in DOMAIN out_window : out_window[x] = View(x)
    /\ out_window[0] >= 0
    /\ \A s \in Stream : \E v \in Setting \cup {InitWindow} : out_window[s] >= peer_init - v

(* Every variable keeps its type, the windows the width of an int32_t, and
   the windows hold what was granted: WINDOW_UPDATE and SETTINGS add up. *)
WindowsKept == TypeOK /\ CreditKept

-----------------------------------------------------------------------------
(* The sockets of client and backends become ready again and again. *)
Fairness ==
  /\ WF_vars(Step) /\ WF_vars(Resume)
  /\ SF_vars(Flush(Len(out.pending)))
  /\ \A s \in Stream : SF_vars(FcgiSends(s) \/ FcgiAnswers(s))

FairSpec == Spec /\ Fairness

Answered(s) ==
  \E i \in 1 .. Len(out.asked) :
    /\ out.asked[i].s = s /\ (out.asked[i].end \/ out.asked[i].k = "RST")
    /\ \E j \in 1 .. Len(out.wire) : out.wire[j] = <<i, Piece>>

Starved(s) == Exists(s) /\ HasFile(streams[s]) /\ (out_window[0] <= 0 \/ out_window[s] <= 0)

Silent == {"emptyend", "badheader", "bigheader", "backend", "file"}

(* A request that came whole is answered up to END_STREAM, unless the client
   resets it, stops granting credit or the connection closes; also if the
   client repeats HEADERS or goes on with DATA. *)
EveryAnswer ==
  \A s \in Stream :
    Without(Silent) /\ cl[s] = "ended" /\ Exists(s) /\ streams[s].kind # "upgrade"
      ~> Answered(s) \/ cl[s] = "reset" \/ Starved(s) \/ pc = "closed"

(* halmos_http2_manager.c:69 goes round while a payload is missing; in every
   other case the worker comes back from the session. *)
Yields == []<>(pc \in {"parked", "closed"} \/ (read_state = 1 /\ ~NeedWrite))

-----------------------------------------------------------------------------
(* The comment at halmos_http2_frame.c:33-38: frames leave with their bytes in
   the right order.  SETTINGS ACK does not wait for the buffer. *)
FramesWhole ==
  \A i \in 1 .. Len(out.wire) - 1 :
    out.wire[i][2] < Piece => out.wire[i + 1] = <<out.wire[i][1], out.wire[i][2] + 1>>
===============================================================================
