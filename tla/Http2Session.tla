----------------------------- MODULE Http2Session -----------------------------
(***************************************************************************)
(* One HTTP/2 connection: the read loop http2_manager_session, the frame   *)
(* handlers, the router, the response senders and the pending write buffer.*)
(* One worker at a time drives a session (ConnLifecycle), so what can come *)
(* between two steps is the client, the backends and the socket, which     *)
(* takes a frame in pieces.  TLS differs only in how "try again" is told.  *)
(***************************************************************************)
EXTENDS Integers, Sequences, FiniteSets

CONSTANTS
  Stream,           (* stream identifiers                                   *)
  FileSize,         (* size of the file they may ask for, in units          *)
  FrameMax,         (* HTTP2_MAX_FRAME_SIZE, 16384, in units                *)
  InitWindow,       (* 65535, in units                                      *)
  WindowSpan,       (* 2^32: a window is an int32_t                         *)
  Setting,          (* INITIAL_WINDOW_SIZE values the client may announce   *)
  Increment,        (* WINDOW_UPDATE increments the client may send         *)
  World             (* the frames clients use and how many (a bound), what  *)
                    (* requests ask for, what may go wrong                  *)

Piece == 2          (* a frame reaches and leaves the socket in two pieces  *)

Kinds  == {"upgrade", "fcgi", "missing", "denied", "empty", "file"}
Moves  == {"DATA", "RST", "SETTINGS", "PING", "GOAWAY", "WINDOW_UPDATE"}
Faulty == {"again",     \* HEADERS on a stream that has had them
           "emptyend",  \* END_STREAM on a DATA frame without payload
           "badheader", \* a header block that does not parse
           "late",      \* DATA on a stream the rate limiter has refused
           "more",      \* DATA on a stream that has ended or was reset
           "oversize",  \* a payload longer than max_body_size
           "overflow",  \* increments beyond the largest window
           "bigheader", \* a response header longer than a frame
           "backend",   \* the backend fails after it took the request
           "file",      \* pread fails
           "lost"}      \* the connection fails

ASSUME Http2Assumption ==
  /\ Stream \subseteq Nat \ {0}
  /\ {FileSize, FrameMax, InitWindow, WindowSpan} \subseteq Nat \ {0}
  /\ InitWindow < WindowSpan \div 2 /\ WindowSpan % 2 = 0
  /\ Setting \subseteq 0 .. WindowSpan \div 2 - 1 /\ Increment \subseteq Nat \ {0}
  /\ World \subseteq [frames : Nat, moves : SUBSET Moves, kinds : SUBSET Kinds,
                  faults : SUBSET Faulty]

VARIABLES
  pc,               (* where http2_manager_session is                       *)
  rearm,            (* what it returned: 2 EPOLLIN, 4 EPOLLIN | EPOLLOUT    *)
  preface,          (* preface_bytes_read                                   *)
  read_state, header_bytes, payload_bytes,
  head,             (* current_frame_head                                   *)
  streams,          (* streams_hash                                         *)
  out_window,       (* out_window_size of the session (0) and each stream   *)
  peer_init,        (* peer_initial_window_size                             *)
  todo,             (* active_ids of http2_response_flush_active_streams    *)
  out,              (* pending_write_buf, write_error, and what was sent    *)
  files, backends,  (* open file descriptors, backend sockets in use        *)
  ledger,           (* history: what the client granted, less file octets   *)
  unpaid,           (* history: DATA octets sent with no regard to a window *)
  cl, in,           (* history: what the client did on each stream          *)
  world             (* the member of World this connection lives in         *)

session == <<preface, read_state, header_bytes, payload_bytes, head>>
flow    == <<out_window, peer_init, ledger>>
client  == <<cl, in, world>>
vars == <<pc, rearm, session, streams, flow, unpaid, todo, out, files, backends, client>>

(* ---------------------------------------------------------- the socket *)

Frame(k, s, n, end) == [k |-> k, s |-> s, n |-> n, end |-> end]
NoFrame == Frame("none", 0, 0, FALSE)

(* The pieces of the i-th frame handed to http2_frame_send; frames written
   directly, past the buffer, are number 0. *)
PiecesOf(i) == [p \in 1 .. Piece |-> <<i, p>>]

(* What one write of these pieces may do: a part goes out, none does. *)
Written(o, ps, n) == [o EXCEPT !.wire = @ \o SubSeq(ps, 1, n)]

Pending(o) == o.pending # <<>>

(* Fault: a write that does not look at the backlog. *)
WritePastBacklog(o, ps) ==
  {[Written(o, ps, n) EXCEPT !.pending = @ \o SubSeq(ps, n + 1, Len(ps))] : n \in 0 .. Len(ps)}

(* Behind a backlog everything waits; else what the socket does not take. *)
WriteOrBuffer(o, ps) ==
  IF Pending(o) THEN {[o EXCEPT !.pending = @ \o ps]}
  ELSE {[Written(o, ps, n) EXCEPT !.pending = SubSeq(ps, n + 1, Len(ps))] : n \in 0 .. Len(ps)}
       \cup (IF "lost" \in world.faults THEN {[o EXCEPT !.error = TRUE]} ELSE {})

(* http2_frame_send drops a frame that is too long. *)
FrameSend(o, f) ==
  IF f.n > FrameMax THEN {o}
  ELSE WriteOrBuffer([o EXCEPT !.asked = Append(@, f)], PiecesOf(Len(o.asked) + 1))

(* SETTINGS and its ACK go straight to the socket; what it refuses is lost. *)
DirectSend(o) == {Written(o, PiecesOf(0), n) : n \in 0 .. Piece}

SendAll(o, fs) ==
  LET after[i \in 0 .. Len(fs)] ==
        IF i = 0 THEN {o} ELSE UNION {FrameSend(x, fs[i]) : x \in after[i - 1]}
  IN  after[Len(fs)]

(* Fault: every chunk ends the stream. *)
EndEveryChunk(s, n, end) ==
  LET chunks == (n + FrameMax - 1) \div FrameMax
  IN  IF n = 0 THEN <<Frame("DATA", s, 0, end)>>
      ELSE [c \in 1 .. chunks |->
              Frame("DATA", s, IF c < chunks THEN FrameMax ELSE n - (c - 1) * FrameMax, end)]

(* http2_response_send_data: chunks of at most a frame. *)
DataFrames(s, n, end) ==
  LET chunks == (n + FrameMax - 1) \div FrameMax
  IN  IF n = 0 THEN IF end THEN <<Frame("DATA", s, 0, TRUE)>> ELSE <<>>
      ELSE [c \in 1 .. chunks |->
              Frame("DATA", s, IF c < chunks THEN FrameMax ELSE n - (c - 1) * FrameMax,
                    end /\ c = chunks)]

(* What http2_response_send_data writes, no window is asked or told. *)
Unpaid(s, n) == unpaid' = [unpaid EXCEPT ![0] = @ + n, ![s] = @ + n]

(* http2_response_send_header, and a page with it. *)
Header(s) == Frame("HEADERS", s, 1, FALSE)
PageSize  == 1
Page(s)   == <<Header(s)>> \o DataFrames(s, PageSize, TRUE)

(* ------------------------------------------------------------- streams *)

(* State of a stream: the code writes 2 and 4 and reads CLOSED, 6. *)
Closed == 6
NoStream  == [state |-> -1]
NewStream == [state |-> 0, kind |-> "none", body |-> FALSE, file |-> 0,
              offset |-> 0, sending |-> FALSE, fcgi |-> "off"]
Exists(s) == streams[s] # NoStream

HasFile(st) == st.sending /\ st.file # 0 /\ st.state # Closed
FilesOnly == {s \in Stream : Exists(s) /\ HasFile(streams[s])}   (* fault *)
Active == {s \in Stream : Exists(s) /\ (HasFile(streams[s]) \/ streams[s].fcgi # "off")}
NeedWrite == Pending(out) \/ Active # {}

SmallestFree == CHOOSE f \in 1 .. Cardinality(files) + 1 :
                  f \notin files /\ \A g \in 1 .. f - 1 : g \in files

(* int32_t arithmetic on the windows. *)
Signed(n) == ((n + WindowSpan \div 2) % WindowSpan) - WindowSpan \div 2

(* --------------------------------------------------------- the read loop *)

Goto(label) == pc' = label /\ UNCHANGED rearm
Return(status) == pc' = "parked" /\ rearm' = status

(* http2_session_destroy: files are closed, backend sockets are not released. *)
Close ==
  /\ pc' = "closed" /\ rearm' = 0
  /\ streams' = [s \in Stream |-> NoStream]
  /\ files' = files \ {streams[s].file : s \in {r \in Stream : Exists(r)}}
  /\ out' = [out EXCEPT !.pending = <<>>]
  /\ todo' = {}
  /\ UNCHANGED <<session, flow, unpaid, backends, client>>

(* EAGAIN: park, and ask for EPOLLOUT if there is something to write. *)
RetryBuffered == Return(IF Pending(out) THEN 4 ELSE 2)              (* fault *)
Retry == Return(IF NeedWrite THEN 4 ELSE 2)

(* epoll reports the descriptor, a worker takes it. *)
Resume ==
  /\ pc = "parked" /\ Goto("top")
  /\ UNCHANGED <<session, streams, flow, unpaid, todo, out, files, backends, client>>

AfterFlush == IF preface < Piece THEN "preface" ELSE "collect"

FlushFails ==
  /\ pc = "top"
  /\ out.error \/ (Pending(out) /\ "lost" \in world.faults)
  /\ Close

(* http2_socket_flush_pending_write took n pieces. *)
Flush(n) ==
  /\ pc = "top" /\ ~out.error /\ Pending(out)
  /\ n \in 0 .. Len(out.pending)
  /\ out' = [Written(out, out.pending, n)
               EXCEPT !.pending = SubSeq(@, n + 1, Len(@))]
  /\ IF n < Len(out.pending) THEN Return(4) ELSE Goto(AfterFlush)
  /\ UNCHANGED <<session, streams, flow, unpaid, todo, files, backends, client>>

NothingToFlush ==
  /\ pc = "top" /\ ~out.error /\ ~Pending(out)
  /\ Goto(AfterFlush)
  /\ UNCHANGED <<session, streams, flow, unpaid, todo, out, files, backends, client>>

(* process_preface *)
ReadPreface(n) ==
  /\ pc = "preface" /\ n \in 1 .. Piece - preface
  /\ preface' = preface + n
  /\ Goto(IF preface' < Piece THEN "top" ELSE "collect")
  /\ UNCHANGED <<read_state, header_bytes, payload_bytes, head, streams, flow, unpaid, todo,
                 out, files, backends, client>>

(* Fault: a payload is awaited even when there is something to write. *)
Persist ==
  /\ \/ pc \in {"preface", "header"} /\ Retry
     \/ pc = "payload" /\ Goto("top")
  /\ UNCHANGED <<session, streams, flow, unpaid, todo, out, files, backends, client>>

(* A read finds nothing.  While a payload is awaited and nothing is to be
   written, the loop goes round instead of returning. *)
WouldBlock ==
  /\ \/ pc \in {"preface", "header"} /\ Retry
     \/ pc = "payload" /\ IF NeedWrite THEN Return(4) ELSE Goto("top")
  /\ UNCHANGED <<session, streams, flow, unpaid, todo, out, files, backends, client>>

(* A read finds the end of the stream, or the connection failed. *)
EndOfFile ==
  /\ pc \in {"preface", "header", "payload"} /\ "lost" \in world.faults
  /\ Close

(* ------------------------------------------ http2_response_flush_active_streams *)

Collect ==
  /\ pc = "collect"
  /\ todo' = Active
  /\ Goto("streams")
  /\ UNCHANGED <<session, streams, flow, unpaid, out, files, backends, client>>

(* After the streams: the header of the next frame, or the rest of a payload. *)
StreamsDone ==
  /\ pc = "streams" /\ todo = {}
  /\ Goto(IF read_state = 0 THEN "header" ELSE "payload")
  /\ UNCHANGED <<session, streams, flow, unpaid, todo, out, files, backends, client>>

Turn(s) == pc = "streams" /\ s \in todo /\ todo' = todo \ {s}

Allowed(s) ==
  LET st == streams[s]
  IN  CHOOSE m \in {FrameMax, out_window[0], out_window[s], FileSize - st.offset} :
        \A k \in {FrameMax, out_window[0], out_window[s], FileSize - st.offset} : m <= k

KeepNumber(st) == [st EXCEPT !.sending = FALSE, !.state = Closed]   (* fault *)
FinishFile(st) == [st EXCEPT !.file = 0, !.sending = FALSE, !.state = Closed]

FileTurn(s) == Turn(s) /\ streams[s].fcgi = "off" /\ HasFile(streams[s])

FileWaits(s) ==
  /\ FileTurn(s) /\ (out_window[0] <= 0 \/ out_window[s] <= 0)
  /\ UNCHANGED <<pc, rearm, session, streams, flow, unpaid, out, files, backends, client>>

FileChunk(s) ==
  LET st == streams[s]
      n  == Allowed(s)
      last == st.offset + n >= FileSize
  IN  /\ FileTurn(s) /\ out_window[0] > 0 /\ out_window[s] > 0
      /\ out' \in FrameSend(out, Frame("DATA", s, n, last))
      /\ out_window' = [out_window EXCEPT ![0] = Signed(@ - n), ![s] = Signed(@ - n)]
      /\ ledger' = [ledger EXCEPT ![0] = @ - n, ![s] = @ - n]
      /\ streams' = [streams EXCEPT ![s] = IF last THEN [FinishFile(st) EXCEPT !.offset = @ + n]
                                           ELSE [st EXCEPT !.offset = @ + n]]
      /\ files' = IF last THEN files \ {st.file} ELSE files
      /\ UNCHANGED <<pc, rearm, session, peer_init, unpaid, backends, client>>

(* pread fails: the stream is closed and the client not told. *)
FileFails(s) ==
  /\ FileTurn(s) /\ "file" \in world.faults /\ out_window[0] > 0 /\ out_window[s] > 0
  /\ streams' = [streams EXCEPT ![s] = FinishFile(@)]
  /\ files' = files \ {streams[s].file}
  /\ UNCHANGED <<pc, rearm, session, flow, unpaid, out, backends, client>>

FcgiTurn(s) == Turn(s) /\ streams[s].fcgi # "off"

(* poll(..., 0) reports nothing, a send takes a part, a chunk holds no
   complete header. *)
FcgiWaits(s) ==
  /\ FcgiTurn(s)
  /\ UNCHANGED <<pc, rearm, session, streams, flow, unpaid, out, files, backends, client>>

FcgiSends(s) ==
  /\ FcgiTurn(s) /\ streams[s].fcgi \in {"params", "stdin"}
  /\ streams' = [streams EXCEPT ![s].fcgi =
                   IF @ = "params" /\ streams[s].body THEN "stdin" ELSE "recv"]
  /\ UNCHANGED <<pc, rearm, session, flow, unpaid, out, files, backends, client>>

FcgiEnds(s, st) ==
  /\ streams' = [streams EXCEPT ![s] = [st EXCEPT !.fcgi = "off"]]
  /\ backends' = backends \ {s}

(* http2_response_send_complex_header: all the backend's headers in one frame. *)
ComplexHeader(s) ==
  {Header(s)} \cup (IF "bigheader" \in world.faults
                   THEN {Frame("HEADERS", s, FrameMax + 1, FALSE)} ELSE {})

(* The chunk that completes the header ends the response: the header, and the
   body read so far with END_STREAM. *)
FcgiAnswers(s) ==
  /\ FcgiTurn(s) /\ streams[s].fcgi = "recv"
  /\ \E h \in ComplexHeader(s), b \in {0, FrameMax + 1} :
       out' \in SendAll(out, <<h>> \o DataFrames(s, b, TRUE)) /\ Unpaid(s, b)
  /\ FcgiEnds(s, [streams[s] EXCEPT !.state = 4])
  /\ UNCHANGED <<pc, rearm, session, flow, files, client>>

FcgiFails(s) ==
  /\ FcgiTurn(s) /\ "backend" \in world.faults
  /\ FcgiEnds(s, streams[s])
  /\ UNCHANGED <<pc, rearm, session, flow, unpaid, out, files, client>>

(* -------------------------------------------------------- reading a frame *)

(* The window of x as the client counts it: every DATA octet takes from it. *)
View(x) == ledger[x] - unpaid[x]

(* A client that keeps the rules never makes a window overflow. *)
Fits(x, inc) == View(x) + inc < WindowSpan \div 2 \/ "overflow" \in world.faults

MayData ==
  {s \in Stream : \/ cl[s] = "open"
                  \/ cl[s] = "refused" /\ "late" \in world.faults
                  \/ cl[s] \in {"ended", "reset"} /\ "more" \in world.faults}

(* The frames the client may send next. *)
ClientFrame ==
  {Frame("HEADERS", s, 1, e) : e \in BOOLEAN,
     s \in {r \in Stream : cl[r] = "none" \/ "again" \in world.faults}} \cup
  {f \in {Frame("DATA", s, 1, e) : s \in MayData, e \in BOOLEAN}
     \cup {Frame("DATA", s, 0, TRUE) : s \in IF "emptyend" \in world.faults THEN MayData ELSE {}}
     \cup {Frame("RST", s, 1, FALSE) : s \in {r \in Stream : cl[r] \in {"open", "ended"}}}
     \cup {Frame("SETTINGS", 0, v, FALSE) : v \in Setting}
     \cup {Frame("PING", 0, 1, FALSE), Frame("GOAWAY", 0, 1, FALSE)}
     \cup {Frame("WINDOW_UPDATE", x, inc, FALSE) :
             x \in {0} \cup {r \in Stream : Exists(r)}, inc \in Increment} :
   /\ f.k \in world.moves
   /\ f.k = "WINDOW_UPDATE" => Fits(f.s, f.n)
   /\ f.k = "SETTINGS" => \A s \in Stream : Exists(s) => Fits(s, f.n - peer_init)}

(* read_frame_header *)
ReadHeader(n) ==
  /\ pc = "header" /\ n \in 1 .. Piece - header_bytes
  /\ header_bytes > 0 \/ in < world.frames
  /\ IF header_bytes + n < Piece
     THEN /\ header_bytes' = header_bytes + n
          /\ Goto("top")
          /\ UNCHANGED <<read_state, payload_bytes, head, client>>
     ELSE /\ header_bytes' = Piece
          /\ \E f \in ClientFrame : head' = f
          /\ read_state' = 1 /\ payload_bytes' = 0
          /\ in' = in + 1
          /\ Goto("payload")
          /\ UNCHANGED <<cl, world>>
  /\ UNCHANGED <<preface, streams, flow, unpaid, todo, out, files, backends>>

(* A payload beyond the limit closes the connection. *)
PayloadTooLong ==
  /\ pc = "header" /\ in < world.frames /\ "oversize" \in world.faults
  /\ Close

PayloadSize == IF head.k = "DATA" /\ head.n = 0 THEN 0 ELSE Piece

(* read_frame_payload: a part read goes round the loop. *)
ReadPayload(n) ==
  /\ pc = "payload"
  /\ n \in 0 .. PayloadSize - payload_bytes
  /\ n = 0 => PayloadSize = 0
  /\ payload_bytes' = payload_bytes + n
  /\ Goto(IF payload_bytes' < PayloadSize THEN "top" ELSE "dispatch")
  /\ UNCHANGED <<preface, read_state, header_bytes, head, streams, flow, unpaid, todo, out,
                 files, backends, client>>

(* ------------------------------------------------------------- the router *)

(* http2_router_bridge for stream s, now st, after the frames pre; the caller
   leaves state after.  An upgrade is only confirmed. *)
RouteUpgrade(s, st) ==
  /\ out' \in FrameSend(out, Header(s))
  /\ streams' = [streams EXCEPT ![s] = st]
  /\ UNCHANGED <<files, backends, unpaid>>

(* A backend is found, or 502. *)
RouteFcgi(s, st, after, pre) ==
  \/ /\ out' \in SendAll(out, pre)
     /\ streams' = [streams EXCEPT ![s] = [st EXCEPT !.fcgi = "params", !.state = after]]
     /\ backends' = backends \cup {s}
     /\ UNCHANGED <<files, unpaid>>
  \/ /\ out' \in SendAll(out, pre \o Page(s)) /\ Unpaid(s, PageSize)
     /\ streams' = [streams EXCEPT ![s] = [st EXCEPT !.state = 4]]
     /\ UNCHANGED <<files, backends>>

(* 404, 403, or an empty file. *)
RoutePage(s, st, pre) ==
  /\ out' \in SendAll(out, pre \o IF st.kind = "empty" THEN <<Header(s), Frame("DATA", s, 0, TRUE)>>
                                  ELSE Page(s))
  /\ Unpaid(s, IF st.kind = "empty" THEN 0 ELSE PageSize)
  /\ streams' = [streams EXCEPT ![s] = [st EXCEPT !.state = 4]]
  /\ UNCHANGED <<files, backends>>

RouteFile(s, st, after, pre) ==
  /\ out' \in SendAll(out, pre \o <<Header(s)>>)
  /\ files' = files \cup {SmallestFree}
  /\ streams' = [streams EXCEPT ![s] =
       [st EXCEPT !.file = SmallestFree, !.offset = 0, !.sending = TRUE, !.state = after]]
  /\ UNCHANGED <<backends, unpaid>>

RouterBridge(s, st, after, pre) ==
  \/ st.kind = "fcgi" /\ RouteFcgi(s, st, after, pre)
  \/ st.kind \in {"missing", "denied", "empty"} /\ RoutePage(s, st, pre)
  \/ st.kind = "file" /\ RouteFile(s, st, after, pre)

(* ------------------------------------------------------------ the handlers *)

(* The end of dispatch_frame: ready for the next frame. *)
FrameDone ==
  /\ Goto("top")
  /\ read_state' = 0 /\ header_bytes' = 0 /\ payload_bytes' = 0 /\ head' = NoFrame
  /\ UNCHANGED <<preface, todo, in, world>>

At(k) == pc = "dispatch" /\ head.k = k
Told(s, what) == cl' = [cl EXCEPT ![s] = what]

(* http2_stream_get_or_create: a new stream has the initial window. *)
GetOrCreate(s) == IF Exists(s) THEN streams[s] ELSE NewStream
DefaultWindow(s) ==                                                 (* fault *)
  /\ out_window' = [out_window EXCEPT ![s] = InitWindow]
  /\ ledger' = IF Exists(s) THEN ledger ELSE [ledger EXCEPT ![s] = peer_init]
  /\ UNCHANGED peer_init
CreateWindow(s) ==
  /\ out_window' = IF Exists(s) THEN out_window ELSE [out_window EXCEPT ![s] = peer_init]
  /\ ledger' = IF Exists(s) THEN ledger ELSE [ledger EXCEPT ![s] = peer_init]
  /\ UNCHANGED peer_init

Progress(end) == IF end THEN "ended" ELSE "open"

(* check_rate_limit *)
Refusal(s) == Frame("RST", s, 1, FALSE)

(* http2_parser_handle_headers: does not parse, refused by the rate limit,
   asks for a WebSocket, complete, or to be followed by DATA. *)
HandleHeaders ==
  LET s  == head.s
      st == GetOrCreate(s)
  IN  /\ At("HEADERS") /\ FrameDone /\ CreateWindow(s)
      /\ \/ /\ "badheader" \in world.faults
            /\ streams' = [streams EXCEPT ![s] = [st EXCEPT !.kind = "missing"]]
            /\ Told(s, Progress(head.end))
            /\ UNCHANGED <<out, files, backends, unpaid>>
         \/ \E k \in world.kinds :
              \/ /\ streams' = [streams EXCEPT ![s] = [st EXCEPT !.kind = k]]
                 /\ out' \in FrameSend(out, Refusal(s))
                 /\ Told(s, "refused")
                 /\ UNCHANGED <<files, backends, unpaid>>
              \/ /\ k = "upgrade"
                 /\ RouteUpgrade(s, [st EXCEPT !.kind = k])
                 /\ Told(s, Progress(head.end))
              \/ /\ k # "upgrade" /\ head.end
                 /\ RouterBridge(s, [st EXCEPT !.kind = k, !.state = 2], 2, <<>>)
                 /\ Told(s, "ended")
              \/ /\ k # "upgrade" /\ ~head.end
                 /\ streams' = [streams EXCEPT ![s] = [st EXCEPT !.kind = k]]
                 /\ Told(s, "open")
                 /\ UNCHANGED <<out, files, backends, unpaid>>

(* append_stream_body, and the credit for it given back. *)
AppendBody(st) == [st EXCEPT !.body = TRUE]
Updates(s) == <<Frame("WINDOW_UPDATE", s, 1, FALSE), Frame("WINDOW_UPDATE", 0, 1, FALSE)>>

(* handle_stream_end *)
StreamEnds(s, st) == RouterBridge(s, st, 4, Updates(s))

(* http2_parser_handle_data: a frame without payload is ignored, and with it
   its END_STREAM; a WebSocket's payload is unpacked if whole; else it is
   body, and END_STREAM routes the request. *)
HandleData ==
  LET s  == head.s
      st == streams[s]
  IN  /\ At("DATA") /\ FrameDone
      /\ Told(s, Progress(head.end))
      /\ UNCHANGED flow
      /\ \/ /\ head.n = 0
            /\ UNCHANGED <<streams, out, files, backends, unpaid>>
         \/ /\ head.n > 0 /\ st.kind = "upgrade"
            /\ out' \in SendAll(out, Updates(s)) \cup {out}
            /\ UNCHANGED <<streams, files, backends, unpaid>>
         \/ /\ head.n > 0 /\ st.kind # "upgrade" /\ ~head.end
            /\ out' \in SendAll(out, Updates(s))
            /\ streams' = [streams EXCEPT ![s] = AppendBody(@)]
            /\ UNCHANGED <<files, backends, unpaid>>
         \/ /\ head.n > 0 /\ st.kind # "upgrade" /\ head.end
            /\ StreamEnds(s, AppendBody(st))

(* RST_STREAM stops a file, not a backend. *)
HandleReset ==
  LET s == head.s
  IN  /\ At("RST") /\ FrameDone /\ Told(s, "reset")
      /\ streams' = [streams EXCEPT ![s] = FinishFile(@)]
      /\ files' = files \ {streams[s].file}
      /\ UNCHANGED <<flow, unpaid, out, backends>>

(* INITIAL_WINDOW_SIZE moves the window of every stream. *)
HandleSettings ==
  LET delta == head.n - peer_init
  IN  /\ At("SETTINGS") /\ FrameDone
      /\ peer_init' = head.n
      /\ out_window' = [x \in DOMAIN out_window |->
                          IF x \in Stream /\ Exists(x) THEN Signed(out_window[x] + delta)
                          ELSE out_window[x]]
      /\ ledger' = [x \in DOMAIN ledger |->
                      IF x \in Stream /\ Exists(x) THEN ledger[x] + delta ELSE ledger[x]]
      /\ out' \in DirectSend(out)
      /\ UNCHANGED <<cl, streams, files, backends, unpaid>>

HandlePing ==
  /\ At("PING") /\ FrameDone
  /\ out' \in FrameSend(out, Frame("PING", 0, 1, FALSE))
  /\ UNCHANGED <<cl, flow, unpaid, streams, files, backends>>

HandleGoaway == At("GOAWAY") /\ Close

(* http2_frame_handle_window_update *)
HandleWindowUpdate ==
  /\ At("WINDOW_UPDATE") /\ FrameDone
  /\ out_window' = [out_window EXCEPT ![head.s] = Signed(@ + head.n)]
  /\ ledger' = [ledger EXCEPT ![head.s] = @ + head.n]
  /\ UNCHANGED <<cl, peer_init, out, streams, files, backends, unpaid>>

(* ------------------------------------------------------------------ spec *)

(* session_init: the first call sends SETTINGS, which an empty socket takes. *)
Init ==
  /\ pc = "top" /\ rearm = 0 /\ preface = 0
  /\ read_state = 0 /\ header_bytes = 0 /\ payload_bytes = 0 /\ head = NoFrame
  /\ streams = [s \in Stream |-> NoStream]
  /\ out_window = [x \in Stream \cup {0} |-> InitWindow] /\ ledger = out_window
  /\ unpaid = [x \in Stream \cup {0} |-> 0]
  /\ peer_init = InitWindow
  /\ todo = {} /\ files = {} /\ backends = {}
  /\ out = [wire |-> PiecesOf(0), pending |-> <<>>, asked |-> <<>>, error |-> FALSE]
  /\ cl = [s \in Stream |-> "none"] /\ in = 0
  /\ world \in World

StreamTurn(s) ==
  FileWaits(s) \/ FileChunk(s) \/ FileFails(s)
  \/ FcgiWaits(s) \/ FcgiSends(s) \/ FcgiAnswers(s) \/ FcgiFails(s)

Dispatch ==
  HandleHeaders \/ HandleData \/ HandleReset \/ HandleSettings \/ HandlePing
  \/ HandleGoaway \/ HandleWindowUpdate

Read ==
  \/ \E n \in 1 .. Piece : ReadPreface(n) \/ ReadHeader(n)
  \/ \E n \in 0 .. Piece : ReadPayload(n)
  \/ WouldBlock \/ EndOfFile \/ PayloadTooLong

Write == FlushFails \/ NothingToFlush \/ \E n \in 0 .. Len(out.pending) : Flush(n)

Step == Write \/ Read \/ Collect \/ StreamsDone \/ Dispatch \/ \E s \in Stream : StreamTurn(s)

Next == Step \/ Resume

Spec == Init /\ [][Next]_vars
===============================================================================
