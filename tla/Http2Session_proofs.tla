-------------------------- MODULE Http2Session_proofs --------------------------
(***************************************************************************)
(* Proofs about Http2Session, for every set of streams, every size of      *)
(* files, frames and windows, and every set of connections World.          *)
(***************************************************************************)
EXTENDS Http2SessionProps, FiniteSetTheorems, SequenceTheorems, WellFoundedInduction, TLAPS

(***************************************************************************)
(* Types.                                                                  *)
(***************************************************************************)

StreamId == Stream \cup {0}
Headings == [k : {"HEADERS"} \cup Moves, s : StreamId, n : Nat, end : BOOLEAN]

(* A client at c that makes the mistakes fs may send DATA, as in MayData.  *)
DataFor(c, fs) ==
  c = "open" \/ (c = "refused" /\ "late" \in fs) \/ (c \in {"ended", "reset"} /\ "more" \in fs)

(* The windows the client has announced or may announce for a new stream.  *)
Announced == Setting \cup {InitWindow}

(* TypeOK with the variables it leaves out, and what the read loop knows:  *)
(* a frame whose header was read is one the client may send.               *)
Typed ==
  /\ TypeOK
  /\ world \in World
  /\ IsFiniteSet(files) /\ files \subseteq Nat
  /\ peer_init \in Announced
  /\ ledger \in [StreamId -> Int]

Heading ==
  /\ pc \in {"payload", "dispatch"} => read_state = 1
  /\ header_bytes = 1 => in < world.frames
  /\ read_state = 1 =>
       /\ head \in Headings
       /\ head.k \in {"HEADERS", "DATA", "RST"} => head.s \in Stream
       /\ head.k = "HEADERS" => cl[head.s] = "none" \/ "again" \in world.faults
       /\ head.k = "DATA" => DataFor(cl[head.s], world.faults)
       /\ head.k = "RST" => cl[head.s] \in {"open", "ended"}
       /\ head.k = "SETTINGS" => head.n \in Setting
       /\ head.k = "WINDOW_UPDATE" => head.n \in Increment

(* A stream is known from its first HEADERS on, and forgotten at the end.  *)
Known ==
  pc # "closed" => /\ \A s \in Stream : cl[s] = "none" <=> ~Exists(s)
                   /\ \A s \in todo : Exists(s)

TypeInv == Typed /\ Heading /\ Known

LEMMA Sizes ==
  /\ FileSize \in Nat \ {0} /\ FrameMax \in Nat \ {0} /\ InitWindow \in Nat \ {0}
  /\ WindowSpan \in Nat /\ InitWindow < WindowSpan \div 2 /\ WindowSpan = 2 * (WindowSpan \div 2)
  /\ Stream \subseteq Nat \ {0} /\ 0 \notin Stream
  /\ WindowSpan \div 2 \in Nat
BY Http2Assumption

LEMMA AnnouncedTyped ==
  /\ InitWindow \in Announced /\ Setting \subseteq Announced
  /\ \A v \in Announced : v \in Nat /\ v < WindowSpan \div 2
  /\ \A v \in Setting : v \in Nat
<1> DEFINE h == WindowSpan \div 2
<1>1. h \in Nat /\ InitWindow < h /\ InitWindow \in Nat
  BY Sizes
<1>2. Setting \subseteq 0 .. h - 1
  BY Http2Assumption
<1> HIDE DEF h
<1>3. \A v \in 0 .. h - 1 : v \in Nat /\ v < h
  BY <1>1
<1> QED
  BY <1>1, <1>2, <1>3 DEF Announced, h

LEMMA WorldTyped ==
  ASSUME world \in World
  PROVE  world.frames \in Nat /\ world.kinds \subseteq Kinds
BY Http2Assumption

(* The arithmetic of int32_t: what fits is kept. *)
LEMMA SignedFits ==
  ASSUME NEW n \in Int
  PROVE  /\ Signed(n) \in -(WindowSpan \div 2) .. WindowSpan \div 2 - 1
         /\ -(WindowSpan \div 2) <= n /\ n < WindowSpan \div 2 => Signed(n) = n
<1> DEFINE h == WindowSpan \div 2
           w == WindowSpan
<1>1. h \in Nat /\ w \in Nat /\ w = h + h /\ 0 < h
  BY Sizes
<1>2. Signed(n) = ((n + h) % w) - h
  BY DEF Signed
<1> HIDE DEF h, w
<1>3. (n + h) % w \in Int /\ 0 <= (n + h) % w /\ (n + h) % w < w
  BY <1>1
<1>4. Signed(n) \in Int /\ -h <= Signed(n) /\ Signed(n) <= h - 1
  BY <1>1, <1>2, <1>3
<1>5. ASSUME -h <= n, n < h PROVE Signed(n) = n
  <2>1. n + h \in Int /\ 0 <= n + h /\ n + h < w
    BY <1>1, <1>5
  <2>2. (n + h) % w = n + h
    BY <1>1, <2>1
  <2> QED
    BY <1>1, <1>2, <2>2
<1>6. -h \in Int /\ h - 1 \in Int
  BY <1>1
<1>7. Signed(n) \in -h .. h - 1
  BY <1>4, <1>6
<1> QED
  BY <1>5, <1>7 DEF h

(* A set of numbers has a least one. *)
LEMMA LeastNumber ==
  ASSUME NEW S \in SUBSET Nat, S # {}
  PROVE  \E n \in S : \A m \in S : n <= m
<1> DEFINE R == {ss \in Nat \X Nat : ss[1] < ss[2]}
<1>1. IsWellFoundedOn(R, Nat)
  BY NatLessThanWellFounded DEF OpToRel
<1>2. \E x \in S : \A y \in S : ~ (<<y, x>> \in R)
  <2> HIDE DEF R
  <2> QED
    BY <1>1, WFMin
<1>3. PICK x \in S : \A y \in S : ~ (<<y, x>> \in R)
  BY <1>2
<1>4. \A y \in S : x <= y
  <2>1. TAKE y \in S
  <2>2. x \in Nat /\ y \in Nat
    OBVIOUS
  <2>3. ~ (y < x)
    BY <1>3, <2>2
  <2> QED
    BY <2>2, <2>3
<1> QED
  BY <1>4

(* There is a free file descriptor, and it is not that of an open file. *)
LEMMA FreeFile ==
  ASSUME IsFiniteSet(files), files \subseteq Nat
  PROVE  SmallestFree \in Nat \ {0} /\ SmallestFree \notin files
<1> DEFINE c == Cardinality(files) + 1
           Gap == {f \in 1 .. c : f \notin files}
<1>1. c \in Nat /\ c = Cardinality(files) + 1 /\ Cardinality(files) \in Nat
  BY FS_CardinalityType
<1>2. Gap # {}
  <2> SUFFICES ASSUME Gap = {} PROVE FALSE
    OBVIOUS
  <2>1. 1 .. c \in SUBSET files
    OBVIOUS
  <2> HIDE DEF c
  <2>2. Cardinality(1 .. c) <= Cardinality(files)
    BY <2>1, FS_Subset
  <2>3. Cardinality(1 .. c) = c
    BY <1>1, FS_Interval
  <2> QED
    BY <1>1, <2>2, <2>3
<1>3. PICK f \in Gap : \A g \in Gap : f <= g
  <2>1. Gap \in SUBSET Nat
    BY <1>1
  <2> HIDE DEF Gap
  <2> QED
    BY <1>2, <2>1, LeastNumber
<1>4. f \in 1 .. c /\ f \notin files
  OBVIOUS
<1>5. \A g \in 1 .. f - 1 : g \in files
  <2> SUFFICES ASSUME NEW g \in 1 .. f - 1, g \notin files PROVE FALSE
    OBVIOUS
  <2> HIDE DEF c
  <2>1. g \in 1 .. c /\ g < f
    BY <1>1, <1>4
  <2> QED
    BY <1>1, <1>3, <1>4, <2>1
<1>6. \E x \in 1 .. c : x \notin files /\ \A g \in 1 .. x - 1 : g \in files
  BY <1>4, <1>5
<1>7. SmallestFree \in 1 .. c /\ SmallestFree \notin files
  BY <1>6 DEF SmallestFree
<1> QED
  BY <1>1, <1>7

(* What is written into a stream's record. *)
LEMMA Records ==
  ASSUME NEW st \in StreamRecord
  PROVE  /\ FinishFile(st) \in StreamRecord /\ FinishFile(st).file = 0
         /\ AppendBody(st) \in StreamRecord
         /\ AppendBody(st).file = st.file /\ AppendBody(st).kind = st.kind
         /\ st # NoStream
<1>1. FinishFile(st) \in StreamRecord /\ FinishFile(st).file = 0
  BY DEF StreamRecord, FinishFile, Closed
<1>2. AppendBody(st) \in StreamRecord
  BY DEF StreamRecord, AppendBody
<1>3. AppendBody(st).file = st.file /\ AppendBody(st).kind = st.kind
  BY DEF StreamRecord, AppendBody
<1>4. st # NoStream
  BY DEF StreamRecord, NoStream
<1> QED
  BY <1>1, <1>2, <1>3, <1>4

LEMMA Asking ==
  ASSUME NEW st \in StreamRecord, NEW k \in Kinds
  PROVE  /\ [st EXCEPT !.kind = k] \in StreamRecord
         /\ [st EXCEPT !.kind = k].file = st.file /\ [st EXCEPT !.kind = k].kind = k
         /\ [st EXCEPT !.kind = k, !.state = 2] \in StreamRecord
         /\ [st EXCEPT !.kind = k, !.state = 2].file = st.file
         /\ [st EXCEPT !.kind = k, !.state = 2].kind = k
BY DEF StreamRecord

LEMMA Working ==
  ASSUME NEW st \in StreamRecord, NEW x \in {2, 4},
         NEW g \in {"off", "params", "stdin", "recv"}
  PROVE  /\ [st EXCEPT !.state = x] \in StreamRecord /\ [st EXCEPT !.state = x].file = st.file
         /\ [st EXCEPT !.fcgi = g] \in StreamRecord /\ [st EXCEPT !.fcgi = g].file = st.file
         /\ [st EXCEPT !.fcgi = g, !.state = x] \in StreamRecord
         /\ [st EXCEPT !.fcgi = g, !.state = x].file = st.file
BY DEF StreamRecord

LEMMA Reading ==
  ASSUME NEW st \in StreamRecord, NEW o \in 0 .. FileSize
  PROVE  [st EXCEPT !.offset = o] \in StreamRecord /\ [st EXCEPT !.offset = o].file = st.file
BY DEF StreamRecord

LEMMA NewRecord == NewStream \in StreamRecord /\ NewStream.file = 0
BY Sizes DEF NewStream, StreamRecord

LEMMA Stored ==
  ASSUME Typed, NEW s \in Stream
  PROVE  /\ Exists(s) => streams[s] \in StreamRecord
         /\ GetOrCreate(s) \in StreamRecord
         /\ \A r \in StreamRecord : r # NoStream
BY NewRecord DEF Typed, TypeOK, Exists, GetOrCreate, StreamRecord, NoStream

(* Stream s becomes r; its file is the one it had, none, or a new one.     *)
Becomes(s, r) == r \in StreamRecord /\ streams' = [streams EXCEPT ![s] = r]
KeepsFile(old, r) == r.file = old /\ files' = files
Opens(r) == /\ r.file \in Nat \ {0} /\ r.file \notin files
            /\ files' = files \cup {r.file}
Shuts(old, r) == r.file = 0 /\ files' = files \ {old}

LEMMA RouterEffect ==
  ASSUME Typed, NEW s \in Stream, NEW st \in StreamRecord, NEW after \in {2, 4}, NEW pre,
         RouterBridge(s, st, after, pre)
  PROVE  /\ \E r \in StreamRecord : Becomes(s, r) /\ (KeepsFile(st.file, r) \/ Opens(r))
         /\ backends' = backends \cup {s} \/ backends' = backends
<1>1. CASE RouteFcgi(s, st, after, pre)
  <2>1. CASE streams' = [streams EXCEPT ![s] = [st EXCEPT !.fcgi = "params", !.state = after]]
    <3>1. /\ [st EXCEPT !.fcgi = "params", !.state = after] \in StreamRecord
          /\ [st EXCEPT !.fcgi = "params", !.state = after].file = st.file
      BY Working
    <3> QED
      BY <1>1, <2>1, <3>1 DEF RouteFcgi, Becomes, KeepsFile
  <2>2. CASE streams' = [streams EXCEPT ![s] = [st EXCEPT !.state = 4]]
    <3>1. /\ [st EXCEPT !.state = 4] \in StreamRecord
          /\ [st EXCEPT !.state = 4].file = st.file
      BY Working
    <3> QED
      BY <1>1, <2>2, <3>1 DEF RouteFcgi, Becomes, KeepsFile
  <2> QED
    BY <1>1, <2>1, <2>2 DEF RouteFcgi
<1>2. CASE RoutePage(s, st, pre)
  <2>1. /\ [st EXCEPT !.state = 4] \in StreamRecord
        /\ [st EXCEPT !.state = 4].file = st.file
    BY Working
  <2> QED
    BY <1>2, <2>1 DEF RoutePage, Becomes, KeepsFile
<1>3. CASE RouteFile(s, st, after, pre)
  <2> DEFINE f == SmallestFree
             r == [st EXCEPT !.file = f, !.offset = 0, !.sending = TRUE, !.state = after]
  <2>1. f \in Nat \ {0} /\ f \notin files
    BY FreeFile DEF Typed
  <2>2. streams' = [streams EXCEPT ![s] = r] /\ files' = files \cup {f} /\ backends' = backends
    BY <1>3 DEF RouteFile
  <2> HIDE DEF f
  <2>3. r \in StreamRecord /\ r.file = f
    <3>1. f \in Nat /\ 0 \in 0 .. FileSize
      BY <2>1, Sizes
    <3>2. r \in StreamRecord
      BY <3>1 DEF StreamRecord
    <3>3. r.file = f
      BY DEF StreamRecord
    <3> QED
      BY <3>2, <3>3
  <2> HIDE DEF r
  <2> QED
    BY <2>1, <2>2, <2>3 DEF Becomes, Opens
<1> QED
  BY <1>1, <1>2, <1>3 DEF RouterBridge

(* What a stream may send now is the least of the frame, the windows and   *)
(* the rest of the file.                                                   *)
LEMMA LeastOfFour ==
  ASSUME NEW a \in Int, NEW b \in Int, NEW c \in Int, NEW d \in Int
  PROVE  \E m \in {a, b, c, d} : \A k \in {a, b, c, d} : m <= k
<1>1. PICK x \in {a, b} : x <= a /\ x <= b
  OBVIOUS
<1>2. PICK y \in {c, d} : y <= c /\ y <= d
  OBVIOUS
<1>3. x \in Int /\ y \in Int
  OBVIOUS
<1>4. PICK m \in {x, y} : m <= x /\ m <= y
  BY <1>3
<1>5. m \in Int /\ m <= a /\ m <= b /\ m <= c /\ m <= d
  BY <1>1, <1>2, <1>3, <1>4
<1>6. m \in {a, b, c, d}
  OBVIOUS
<1> QED
  BY <1>5, <1>6

LEMMA AllowedBounds ==
  ASSUME Typed, NEW s \in Stream, Exists(s), out_window[0] > 0, out_window[s] > 0
  PROVE  /\ Allowed(s) \in Nat /\ Allowed(s) <= out_window[0] /\ Allowed(s) <= out_window[s]
         /\ Allowed(s) <= FrameMax
         /\ streams[s].offset \in 0 .. FileSize
         /\ streams[s].offset + Allowed(s) \in 0 .. FileSize
<1> DEFINE a == FrameMax
           b == out_window[0]
           c == out_window[s]
           o == streams[s].offset
           d == FileSize - o
           n == Allowed(s)
<1>1. streams[s] \in StreamRecord
  BY Stored
<1>2. o \in 0 .. FileSize
  BY <1>1 DEF StreamRecord
<1>3. o \in Nat /\ o <= FileSize /\ FileSize \in Nat
  BY <1>2, Sizes
<1>4. b \in Int /\ c \in Int
  <2>1. out_window \in [Stream \cup {0} -> -(WindowSpan \div 2) .. WindowSpan \div 2 - 1]
    BY DEF Typed, TypeOK
  <2> DEFINE S == -(WindowSpan \div 2) .. WindowSpan \div 2 - 1
  <2>2. S \subseteq Int
    OBVIOUS
  <2> HIDE DEF S
  <2> QED
    BY <2>1, <2>2 DEF S
<1>5. a \in Nat /\ a > 0 /\ b > 0 /\ c > 0
  BY Sizes
<1>6. n = CHOOSE m \in {a, b, c, d} : \A k \in {a, b, c, d} : m <= k
  BY DEF Allowed
<1> HIDE DEF a, b, c, o, n
<1>7. d \in Nat /\ d = FileSize - o
  BY <1>3
<1> HIDE DEF d
<1>8. n \in {a, b, c, d} /\ \A k \in {a, b, c, d} : n <= k
  <2>1. a \in Int /\ b \in Int /\ c \in Int /\ d \in Int
    BY <1>4, <1>5, <1>7
  <2>2. \E m \in {a, b, c, d} : \A k \in {a, b, c, d} : m <= k
    BY <2>1, LeastOfFour
  <2> QED
    BY <1>6, <2>2
<1>9. n \in Int /\ 0 <= n /\ n <= a /\ n <= b /\ n <= c /\ n <= d
  BY <1>4, <1>5, <1>7, <1>8
<1>10. n \in Nat /\ o + n \in 0 .. FileSize
  BY <1>3, <1>7, <1>9
<1> QED
  BY <1>2, <1>9, <1>10 DEF a, b, c, o, n

(* Steps that leave the streams, the windows and the files alone.          *)
Aside == UNCHANGED <<streams, flow, files, backends, cl, world>>

LEMMA AsideTypes ==
  ASSUME TypeInv, Aside, pc # "closed", pc' # "closed",
         pc' \in {"parked", "top", "preface", "collect", "streams", "header", "payload",
                  "dispatch"},
         rearm' \in {0, 2, 4}, preface' \in 0 .. Piece, read_state' \in 0 .. 1,
         header_bytes' \in 0 .. Piece, payload_bytes' \in 0 .. Piece,
         \A s \in todo' : s \in Stream /\ Exists(s),
         in' \in 0 .. world.frames, Heading'
  PROVE  TypeInv'
<1>1. TypeOK'
  BY DEF TypeInv, Typed, TypeOK, Aside, flow
<1>2. Typed'
  BY <1>1 DEF TypeInv, Typed, Aside, flow
<1>3. Known'
  BY DEF TypeInv, Known, Aside, Exists
<1> QED
  BY <1>2, <1>3 DEF TypeInv

LEMMA CloseTypes ==
  ASSUME TypeInv, Close
  PROVE  TypeInv'
<1>1. /\ pc' = "closed" /\ rearm' = 0 /\ streams' = [s \in Stream |-> NoStream]
      /\ files' \subseteq files /\ todo' = {} /\ UNCHANGED <<session, flow, backends, client>>
  BY DEF Close
<1>2. TypeOK'
  BY <1>1 DEF TypeInv, Typed, TypeOK, session, flow, client
<1>3. IsFiniteSet(files') /\ files' \subseteq Nat
  BY <1>1, FS_Subset DEF TypeInv, Typed
<1>4. Typed'
  BY <1>1, <1>2, <1>3 DEF TypeInv, Typed, flow, client
<1>5. Heading'
  BY <1>1 DEF TypeInv, Heading, session, client
<1>6. Known'
  BY <1>1 DEF Known
<1> QED
  BY <1>4, <1>5, <1>6 DEF TypeInv

(* What a client may send is a frame, for a stream that can take it. *)
LEMMA ClientFrames ==
  ASSUME NEW f \in ClientFrame
  PROVE  /\ f \in Headings
         /\ f.k \in {"HEADERS", "DATA", "RST"} => f.s \in Stream
         /\ f.k = "HEADERS" => cl[f.s] = "none" \/ "again" \in world.faults
         /\ f.k = "DATA" => DataFor(cl[f.s], world.faults)
         /\ f.k = "RST" => cl[f.s] \in {"open", "ended"}
         /\ f.k = "SETTINGS" => /\ f.n \in Setting
                               /\ \A s \in Stream : Exists(s) => Fits(s, f.n - peer_init)
         /\ f.k = "WINDOW_UPDATE" => /\ f.n \in Increment /\ Fits(f.s, f.n)
                                     /\ f.s # 0 => f.s \in Stream /\ Exists(f.s)
<1> DEFINE H == {Frame("HEADERS", s, 1, e) : e \in BOOLEAN,
                   s \in {r \in Stream : cl[r] = "none" \/ "again" \in world.faults}}
           D == {Frame("DATA", s, 1, e) : s \in MayData, e \in BOOLEAN}
           E == {Frame("DATA", s, 0, TRUE) :
                   s \in IF "emptyend" \in world.faults THEN MayData ELSE {}}
           R == {Frame("RST", s, 1, FALSE) : s \in {r \in Stream : cl[r] \in {"open", "ended"}}}
           S == {Frame("SETTINGS", 0, v, FALSE) : v \in Setting}
           P == {Frame("PING", 0, 1, FALSE), Frame("GOAWAY", 0, 1, FALSE)}
           X == {0} \cup {r \in Stream : Exists(r)}
           W == {Frame("WINDOW_UPDATE", x, inc, FALSE) : x \in X, inc \in Increment}
           B == D \cup E \cup R \cup S \cup P \cup W
<1>0. ClientFrame =
        H \cup {g \in B : /\ g.k \in world.moves
                          /\ g.k = "WINDOW_UPDATE" => Fits(g.s, g.n)
                          /\ g.k = "SETTINGS" => \A s \in Stream : Exists(s) => Fits(s, g.n - peer_init)}
  BY DEF ClientFrame
<1>1. /\ f \in H \/ f \in B
      /\ f \in H \/ (/\ f.k = "WINDOW_UPDATE" => Fits(f.s, f.n)
                     /\ f.k = "SETTINGS" => \A s \in Stream : Exists(s) => Fits(s, f.n - peer_init))
  <2> HIDE DEF H, B
  <2> QED
    BY <1>0
<1> HIDE DEF H, B, D, E, R, S, P, W, X
<1>3. /\ 0 \in StreamId /\ Stream \subseteq StreamId /\ 0 \in Nat /\ 1 \in Nat
      /\ Setting \subseteq Nat /\ Increment \subseteq Nat /\ {TRUE, FALSE} = BOOLEAN
      /\ {"HEADERS", "DATA", "RST", "SETTINGS", "PING", "GOAWAY", "WINDOW_UPDATE"}
           = {"HEADERS"} \cup Moves
  <2>1. Setting \subseteq Nat
    BY AnnouncedTyped
  <2> QED
    BY <2>1, Http2Assumption DEF StreamId, Moves
<1>4. CASE f \in H
  <2>1. PICK e \in BOOLEAN, s \in Stream :
          f = Frame("HEADERS", s, 1, e) /\ (cl[s] = "none" \/ "again" \in world.faults)
    BY <1>4 DEF H
  <2> QED
    BY <1>3, <2>1 DEF Frame, Headings
<1>5. CASE f \in D \cup E
  <2>1. PICK s \in MayData, n \in {0, 1}, e \in BOOLEAN : f = Frame("DATA", s, n, e)
    <3>1. CASE f \in D
      BY <3>1 DEF D
    <3>2. CASE f \in E
      <4>1. PICK s \in MayData : f = Frame("DATA", s, 0, TRUE)
        BY <3>2 DEF E
      <4> QED
        BY <4>1
    <3> QED
      BY <1>5, <3>1, <3>2
  <2>2. s \in Stream /\ DataFor(cl[s], world.faults)
    BY DEF MayData, DataFor
  <2>3. f \in Headings /\ f.k = "DATA" /\ f.s = s
    BY <1>3, <2>1, <2>2 DEF Frame, Headings
  <2> QED
    BY <2>2, <2>3
<1>6. CASE f \in R
  <2>1. PICK s \in Stream : f = Frame("RST", s, 1, FALSE) /\ cl[s] \in {"open", "ended"}
    BY <1>6 DEF R
  <2>2. f \in Headings /\ f.k = "RST" /\ f.s = s
    BY <1>3, <2>1 DEF Frame, Headings
  <2> QED
    BY <2>1, <2>2
<1>7. CASE f \in S
  <2>1. PICK v \in Setting : f = Frame("SETTINGS", 0, v, FALSE)
    BY <1>7 DEF S
  <2>2. f \in Headings /\ f.k = "SETTINGS" /\ f.n = v
    BY <1>3, <2>1 DEF Frame, Headings
  <2>3. f \notin H
    BY <2>2 DEF H, Frame
  <2> QED
    BY <1>1, <2>2, <2>3
<1>8. CASE f \in P
  <2>1. f = Frame("PING", 0, 1, FALSE) \/ f = Frame("GOAWAY", 0, 1, FALSE)
    BY <1>8 DEF P
  <2>2. f.k \in {"PING", "GOAWAY"}
    BY <2>1 DEF Frame
  <2>3. f \in Headings
    <3>1. Frame("PING", 0, 1, FALSE) \in Headings
      BY <1>3 DEF Frame, Headings
    <3>2. Frame("GOAWAY", 0, 1, FALSE) \in Headings
      BY <1>3 DEF Frame, Headings
    <3> QED
      BY <2>1, <3>1, <3>2
  <2> QED
    BY <2>2, <2>3
<1>9. CASE f \in W
  <2>0. X \subseteq StreamId /\ \A x \in X : x # 0 => x \in Stream /\ Exists(x)
    BY DEF X, StreamId
  <2>1. PICK x \in X, inc \in Increment :
          f = Frame("WINDOW_UPDATE", x, inc, FALSE)
    BY <1>9 DEF W, Frame
  <2>2. x \in StreamId /\ inc \in Nat
    BY <1>3, <2>0
  <2>3. f \in Headings /\ f.k = "WINDOW_UPDATE" /\ f.n = inc /\ f.s = x
    BY <1>3, <2>1, <2>2 DEF Frame, Headings
  <2>4. f \notin H
    BY <2>3 DEF H, Frame
  <2> QED
    BY <1>1, <2>0, <2>1, <2>3, <2>4
<1> QED
  BY <1>1, <1>4, <1>5, <1>6, <1>7, <1>8, <1>9 DEF B

(* The read loop. *)
LEMMA LoopTypes ==
  ASSUME TypeInv,
         \/ Resume \/ NothingToFlush \/ WouldBlock \/ Collect \/ StreamsDone
         \/ \E n \in 0 .. Len(out.pending) : Flush(n)
         \/ \E n \in 1 .. Piece : ReadPreface(n) \/ ReadHeader(n)
         \/ \E n \in 0 .. Piece : ReadPayload(n)
  PROVE  TypeInv'
<1>0. /\ Typed /\ TypeOK /\ Heading /\ Known /\ todo \subseteq Stream
      /\ world.frames \in Nat
  BY WorldTyped DEF TypeInv, Typed, TypeOK
<1>1. CASE Resume
  <2>1. /\ Aside /\ pc = "parked" /\ pc' = "top" /\ UNCHANGED <<rearm, session, todo, in>>
    BY <1>1 DEF Resume, Aside, Goto, flow, client
  <2>2. Heading'
    BY <1>0, <2>1 DEF Heading, session, Aside
  <2>3. \A s \in todo' : s \in Stream /\ Exists(s)
    BY <1>0, <2>1 DEF Known
  <2> QED
    BY <1>0, <2>1, <2>2, <2>3, AsideTypes DEF TypeOK, session
<1>2. CASE NothingToFlush
  <2>1. /\ Aside /\ pc = "top" /\ pc' \in {"preface", "collect"}
        /\ UNCHANGED <<rearm, session, todo, in>>
    BY <1>2 DEF NothingToFlush, Aside, Goto, AfterFlush, flow, client
  <2>2. Heading'
    BY <1>0, <2>1 DEF Heading, session, Aside
  <2>3. \A s \in todo' : s \in Stream /\ Exists(s)
    BY <1>0, <2>1 DEF Known
  <2> QED
    BY <1>0, <2>1, <2>2, <2>3, AsideTypes DEF TypeOK, session
<1>3. CASE WouldBlock
  <2>1. /\ Aside /\ UNCHANGED <<session, todo, in>>
        /\ \/ pc \in {"preface", "header"} /\ pc' = "parked" /\ rearm' \in {2, 4}
           \/ pc = "payload" /\ pc' = "parked" /\ rearm' = 4
           \/ pc = "payload" /\ pc' = "top" /\ rearm' = rearm
    BY <1>3 DEF WouldBlock, Aside, Goto, Retry, Return, flow, client
  <2>2. Heading'
    BY <1>0, <2>1 DEF Heading, session, Aside
  <2>3. \A s \in todo' : s \in Stream /\ Exists(s)
    BY <1>0, <2>1 DEF Known
  <2>4. rearm' \in {0, 2, 4}
    BY <1>0, <2>1 DEF TypeOK
  <2> QED
    BY <1>0, <2>1, <2>2, <2>3, <2>4, AsideTypes DEF TypeOK, session
<1>4. CASE Collect
  <2>1. /\ Aside /\ pc = "collect" /\ pc' = "streams" /\ todo' = Active
        /\ UNCHANGED <<rearm, session, in>>
    BY <1>4 DEF Collect, Aside, Goto, flow, client
  <2>2. Heading'
    BY <1>0, <2>1 DEF Heading, session, Aside
  <2>3. \A s \in todo' : s \in Stream /\ Exists(s)
    BY <2>1 DEF Active
  <2> QED
    BY <1>0, <2>1, <2>2, <2>3, AsideTypes DEF TypeOK, session
<1>5. CASE StreamsDone
  <2>1. /\ Aside /\ pc = "streams" /\ pc' = (IF read_state = 0 THEN "header" ELSE "payload")
        /\ UNCHANGED <<rearm, session, todo, in>>
    BY <1>5 DEF StreamsDone, Aside, Goto, flow, client
  <2>2. read_state \in 0 .. 1
    BY <1>0 DEF TypeOK
  <2>3. Heading'
    BY <1>0, <2>1, <2>2 DEF Heading, session, Aside
  <2>4. \A s \in todo' : s \in Stream /\ Exists(s)
    BY <1>0, <2>1 DEF Known
  <2> QED
    BY <1>0, <2>1, <2>3, <2>4, AsideTypes DEF TypeOK, session
<1>6. ASSUME NEW n \in 0 .. Len(out.pending), Flush(n) PROVE TypeInv'
  <2>1. /\ Aside /\ pc = "top" /\ UNCHANGED <<session, todo, in>>
        /\ \/ pc' = "parked" /\ rearm' = 4
           \/ pc' \in {"preface", "collect"} /\ rearm' = rearm
    BY <1>6 DEF Flush, Aside, Goto, Return, AfterFlush, flow, client
  <2>2. Heading'
    BY <1>0, <2>1 DEF Heading, session, Aside
  <2>3. \A s \in todo' : s \in Stream /\ Exists(s)
    BY <1>0, <2>1 DEF Known
  <2>4. rearm' \in {0, 2, 4}
    BY <1>0, <2>1 DEF TypeOK
  <2> QED
    BY <1>0, <2>1, <2>2, <2>3, <2>4, AsideTypes DEF TypeOK, session
<1>7. ASSUME NEW n \in 1 .. Piece, ReadPreface(n) PROVE TypeInv'
  <2>1. /\ Aside /\ pc = "preface" /\ pc' \in {"top", "collect"}
        /\ UNCHANGED <<rearm, read_state, header_bytes, payload_bytes, head, todo, in>>
        /\ preface' = preface + n /\ n \in 1 .. Piece - preface
    BY <1>7 DEF ReadPreface, Aside, Goto, flow, client
  <2>2. Heading'
    BY <1>0, <2>1 DEF Heading, Aside
  <2>3. \A s \in todo' : s \in Stream /\ Exists(s)
    BY <1>0, <2>1 DEF Known
  <2>4. preface' \in 0 .. Piece
    BY <1>0, <2>1 DEF TypeOK, Piece
  <2> QED
    BY <1>0, <2>1, <2>2, <2>3, <2>4, AsideTypes DEF TypeOK
<1>8. ASSUME NEW n \in 1 .. Piece, ReadHeader(n) PROVE TypeInv'
  <2>1. /\ Aside /\ pc = "header" /\ UNCHANGED <<rearm, preface, todo>>
        /\ n \in 1 .. Piece - header_bytes /\ header_bytes \in 0 .. Piece
    BY <1>0, <1>8 DEF ReadHeader, Aside, Goto, flow, client, TypeOK
  <2>2. \A s \in todo' : s \in Stream /\ Exists(s)
    BY <1>0, <2>1 DEF Known
  <2>3. in \in 0 .. world.frames /\ in < world.frames
    <3>1. header_bytes > 0 \/ in < world.frames
      BY <1>8 DEF ReadHeader
    <3>2. header_bytes > 0 => header_bytes = 1
      BY <2>1 DEF Piece
    <3>3. in \in 0 .. world.frames
      BY <1>0 DEF TypeOK
    <3> QED
      BY <1>0, <3>1, <3>2, <3>3 DEF Heading
  <2>4. CASE header_bytes + n < Piece
    <3>1. /\ pc' = "top" /\ UNCHANGED <<read_state, payload_bytes, head, in>>
          /\ header_bytes' = header_bytes + n
      BY <1>8, <2>4 DEF ReadHeader, Goto, client
    <3>2. header_bytes' \in 0 .. Piece
      BY <2>1, <2>4, <3>1 DEF Piece
    <3>3. Heading'
      BY <1>0, <2>1, <2>3, <3>1 DEF Heading, Aside
    <3> QED
      BY <1>0, <2>1, <2>2, <3>1, <3>2, <3>3, AsideTypes DEF TypeOK
  <2>5. CASE ~(header_bytes + n < Piece)
    <3>1. /\ pc' = "payload" /\ read_state' = 1 /\ payload_bytes' = 0 /\ in' = in + 1
          /\ header_bytes' = Piece /\ head' \in ClientFrame
      BY <1>8, <2>5 DEF ReadHeader, Goto, client
    <3>2. in' \in 0 .. world.frames /\ 2 \in 0 .. Piece /\ 0 \in 0 .. Piece
      BY <1>0, <2>3, <3>1 DEF Piece
    <3>3. Heading'
      <4>1. /\ head' \in Headings
            /\ head'.k \in {"HEADERS", "DATA", "RST"} => head'.s \in Stream
            /\ head'.k = "HEADERS" => cl[head'.s] = "none" \/ "again" \in world.faults
            /\ head'.k = "DATA" => DataFor(cl[head'.s], world.faults)
            /\ head'.k = "RST" => cl[head'.s] \in {"open", "ended"}
            /\ head'.k = "SETTINGS" => head'.n \in Setting
            /\ head'.k = "WINDOW_UPDATE" => head'.n \in Increment
        BY <3>1, ClientFrames
      <4> QED
        BY <2>1, <3>1, <4>1 DEF Heading, Aside, Piece
    <3> QED
      BY <1>0, <2>1, <2>2, <3>1, <3>2, <3>3, AsideTypes DEF TypeOK, Piece
  <2> QED
    BY <2>4, <2>5
<1>9. ASSUME NEW n \in 0 .. Piece, ReadPayload(n) PROVE TypeInv'
  <2>1. /\ Aside /\ pc = "payload" /\ pc' \in {"top", "dispatch"}
        /\ UNCHANGED <<rearm, preface, read_state, header_bytes, head, todo, in>>
        /\ payload_bytes' = payload_bytes + n /\ n \in 0 .. PayloadSize - payload_bytes
    BY <1>9 DEF ReadPayload, Aside, Goto, flow, client
  <2>2. Heading'
    BY <1>0, <2>1 DEF Heading, Aside
  <2>3. \A s \in todo' : s \in Stream /\ Exists(s)
    BY <1>0, <2>1 DEF Known
  <2>4. payload_bytes' \in 0 .. Piece
    <3>1. PayloadSize \in {0, 2}
      BY DEF PayloadSize, Piece
    <3> QED
      BY <1>0, <2>1, <3>1 DEF TypeOK, Piece
  <2> QED
    BY <1>0, <2>1, <2>2, <2>3, <2>4, AsideTypes DEF TypeOK
<1> QED
  BY <1>1, <1>2, <1>3, <1>4, <1>5, <1>6, <1>7, <1>8, <1>9

(* What the turn of a stream does to it, to the files and to the windows.  *)
Drained(s, n) ==
  /\ n <= out_window[0] /\ n <= out_window[s]
  /\ out_window' = [out_window EXCEPT ![0] = Signed(@ - n), ![s] = Signed(@ - n)]
  /\ ledger' = [ledger EXCEPT ![0] = @ - n, ![s] = @ - n]

Turned(s) ==
  /\ \/ UNCHANGED <<streams, files>>
     \/ \E r \in StreamRecord : /\ Becomes(s, r)
                                /\ KeepsFile(streams[s].file, r) \/ Shuts(streams[s].file, r)
  /\ \/ UNCHANGED <<out_window, ledger>>
     \/ \E n \in Nat : Drained(s, n)

LEMMA FileChunkEffect ==
  ASSUME TypeInv, NEW s \in Stream, Exists(s), FileChunk(s)
  PROVE  Turned(s)
<1> DEFINE st == streams[s]
           n == Allowed(s)
           last == st.offset + n >= FileSize
<1>1. st \in StreamRecord
  BY Stored DEF TypeInv
<1>2. /\ out_window[0] > 0 /\ out_window[s] > 0
      /\ out_window' = [out_window EXCEPT ![0] = Signed(@ - n), ![s] = Signed(@ - n)]
      /\ ledger' = [ledger EXCEPT ![0] = @ - n, ![s] = @ - n]
      /\ streams' = [streams EXCEPT ![s] = IF last THEN [FinishFile(st) EXCEPT !.offset = @ + n]
                                           ELSE [st EXCEPT !.offset = @ + n]]
      /\ files' = IF last THEN files \ {st.file} ELSE files
  BY DEF FileChunk
<1>3. n \in Nat /\ n <= out_window[0] /\ n <= out_window[s] /\ st.offset + n \in 0 .. FileSize
  BY <1>2, AllowedBounds DEF TypeInv
<1>4. Drained(s, n)
  BY <1>2, <1>3 DEF Drained
<1> HIDE DEF n
<1>5. CASE last
  <2> DEFINE r == [FinishFile(st) EXCEPT !.offset = @ + n]
  <2>1. FinishFile(st) \in StreamRecord /\ FinishFile(st).file = 0
        /\ FinishFile(st).offset = st.offset
    BY <1>1 DEF FinishFile, StreamRecord, Closed
  <2>2. r = [FinishFile(st) EXCEPT !.offset = st.offset + n]
    BY <2>1
  <2>3. r \in StreamRecord /\ r.file = 0
    BY <1>3, <2>1, <2>2, Reading
  <2>4. streams' = [streams EXCEPT ![s] = r] /\ files' = files \ {st.file}
    BY <1>2, <1>5
  <2> HIDE DEF r, st
  <2>5. Becomes(s, r) /\ Shuts(st.file, r)
    BY <2>3, <2>4 DEF Becomes, Shuts
  <2> QED
    BY <1>3, <1>4, <2>3, <2>5 DEF Turned, st
<1>6. CASE ~last
  <2> DEFINE r == [st EXCEPT !.offset = @ + n]
  <2>1. r = [st EXCEPT !.offset = st.offset + n]
    OBVIOUS
  <2>2. r \in StreamRecord /\ r.file = st.file
    BY <1>1, <1>3, <2>1, Reading
  <2>3. streams' = [streams EXCEPT ![s] = r] /\ files' = files
    BY <1>2, <1>6
  <2> HIDE DEF r, st
  <2>4. Becomes(s, r) /\ KeepsFile(st.file, r)
    BY <2>2, <2>3 DEF Becomes, KeepsFile
  <2> QED
    BY <1>3, <1>4, <2>2, <2>4 DEF Turned, st
<1> QED
  BY <1>5, <1>6

LEMMA TurnEffect ==
  ASSUME TypeInv, NEW s \in Stream, StreamTurn(s)
  PROVE  /\ pc = "streams" /\ todo' = todo \ {s} /\ Exists(s)
         /\ UNCHANGED <<pc, rearm, session, client, peer_init>>
         /\ backends' \subseteq backends
         /\ Turned(s)
<1>1. /\ pc = "streams" /\ s \in todo /\ todo' = todo \ {s}
      /\ UNCHANGED <<pc, rearm, session, client, peer_init>> /\ backends' \subseteq backends
  BY DEF StreamTurn, FileWaits, FileChunk, FileFails, FcgiWaits, FcgiSends, FcgiAnswers,
         FcgiFails, FileTurn, FcgiTurn, Turn, FcgiEnds, flow
<1>2. Exists(s)
  BY <1>1 DEF TypeInv, Known
<1> DEFINE st == streams[s]
<1>3. st \in StreamRecord
  BY <1>2, Stored DEF TypeInv
<1>4. ASSUME FileChunk(s) PROVE Turned(s)
  BY <1>2, <1>4, FileChunkEffect
<1>5. ASSUME FileWaits(s) \/ FcgiWaits(s) PROVE Turned(s)
  BY <1>5 DEF FileWaits, FcgiWaits, Turned, flow
<1>6. ASSUME FileFails(s) PROVE Turned(s)
  <2>1. /\ streams' = [streams EXCEPT ![s] = FinishFile(st)] /\ files' = files \ {st.file}
        /\ UNCHANGED <<out_window, ledger>>
    BY <1>6 DEF FileFails, flow
  <2>2. FinishFile(st) \in StreamRecord /\ FinishFile(st).file = 0
    BY <1>3, Records
  <2> QED
    BY <2>1, <2>2 DEF Turned, Becomes, Shuts
<1>7. ASSUME FcgiSends(s) PROVE Turned(s)
  <2> DEFINE g == IF st.fcgi = "params" /\ st.body THEN "stdin" ELSE "recv"
             r == [st EXCEPT !.fcgi = g]
  <2>1. streams' = [streams EXCEPT ![s] = r] /\ UNCHANGED <<files, out_window, ledger>>
    BY <1>7 DEF FcgiSends, flow, Exists
  <2>2. r \in StreamRecord /\ r.file = st.file
    <3>1. g \in {"off", "params", "stdin", "recv"}
      OBVIOUS
    <3> HIDE DEF g
    <3> QED
      BY <1>3, <3>1, Working
  <2> HIDE DEF r
  <2> QED
    BY <2>1, <2>2 DEF Turned, Becomes, KeepsFile
<1>8. ASSUME FcgiAnswers(s) PROVE Turned(s)
  <2> DEFINE r == [[st EXCEPT !.state = 4] EXCEPT !.fcgi = "off"]
  <2>1. streams' = [streams EXCEPT ![s] = r] /\ UNCHANGED <<files, out_window, ledger>>
    BY <1>8 DEF FcgiAnswers, FcgiEnds, flow
  <2>2. r \in StreamRecord /\ r.file = st.file
    BY <1>3 DEF StreamRecord
  <2> HIDE DEF r
  <2> QED
    BY <2>1, <2>2 DEF Turned, Becomes, KeepsFile
<1>9. ASSUME FcgiFails(s) PROVE Turned(s)
  <2> DEFINE r == [st EXCEPT !.fcgi = "off"]
  <2>1. streams' = [streams EXCEPT ![s] = r] /\ UNCHANGED <<files, out_window, ledger>>
    BY <1>9 DEF FcgiFails, FcgiEnds, flow
  <2>2. r \in StreamRecord /\ r.file = st.file
    BY <1>3 DEF StreamRecord
  <2> HIDE DEF r
  <2> QED
    BY <2>1, <2>2 DEF Turned, Becomes, KeepsFile
<1> QED
  BY <1>1, <1>2, <1>4, <1>5, <1>6, <1>7, <1>8, <1>9 DEF StreamTurn

WindowRange == -(WindowSpan \div 2) .. WindowSpan \div 2 - 1

LEMMA WindowsTyped ==
  ASSUME Typed
  PROVE  /\ out_window \in [StreamId -> WindowRange] /\ ledger \in [StreamId -> Int]
         /\ WindowRange \subseteq Int
         /\ Stream \subseteq StreamId /\ 0 \in StreamId /\ 0 \notin Stream
         /\ \A x \in StreamId : out_window[x] \in Int /\ ledger[x] \in Int
<1>1. out_window \in [StreamId -> WindowRange] /\ ledger \in [StreamId -> Int]
  BY DEF Typed, TypeOK, StreamId, WindowRange
<1>2. WindowRange \subseteq Int
  BY DEF WindowRange
<1>3. Stream \subseteq StreamId /\ 0 \in StreamId /\ 0 \notin Stream
  BY Sizes DEF StreamId
<1>4. \A x \in StreamId : out_window[x] \in Int /\ ledger[x] \in Int
  BY <1>1, <1>2
<1> QED
  BY <1>1, <1>2, <1>3, <1>4

LEMMA Drains ==
  ASSUME Typed, NEW s \in Stream, NEW n \in Nat, Drained(s, n)
  PROVE  /\ out_window' \in [StreamId -> WindowRange] /\ ledger' \in [StreamId -> Int]
         /\ \A x \in {0, s} : /\ out_window'[x] = Signed(out_window[x] - n)
                              /\ ledger'[x] = ledger[x] - n
         /\ \A x \in StreamId \ {0, s} : /\ out_window'[x] = out_window[x]
                                         /\ ledger'[x] = ledger[x]
<1>1. /\ out_window \in [StreamId -> WindowRange] /\ ledger \in [StreamId -> Int]
      /\ s \in StreamId /\ 0 \in StreamId /\ s # 0
      /\ \A x \in StreamId : out_window[x] \in Int /\ ledger[x] \in Int
  BY WindowsTyped
<1> DEFINE a == Signed(out_window[0] - n)
           b == Signed(out_window[s] - n)
           c == ledger[0] - n
           d == ledger[s] - n
<1>2. a \in WindowRange /\ b \in WindowRange /\ c \in Int /\ d \in Int
  BY <1>1, SignedFits DEF WindowRange
<1>3. /\ out_window' = [out_window EXCEPT ![0] = a, ![s] = b]
      /\ ledger' = [ledger EXCEPT ![0] = c, ![s] = d]
  BY <1>1 DEF Drained
<1> HIDE DEF a, b, c, d
<1>4. /\ out_window' \in [StreamId -> WindowRange] /\ ledger' \in [StreamId -> Int]
  BY <1>1, <1>2, <1>3
<1>5. out_window'[0] = a /\ out_window'[s] = b /\ ledger'[0] = c /\ ledger'[s] = d
  BY <1>1, <1>3
<1>6. \A x \in StreamId \ {0, s} : out_window'[x] = out_window[x] /\ ledger'[x] = ledger[x]
  BY <1>1, <1>3
<1> QED
  BY <1>4, <1>5, <1>6 DEF a, b, c, d

LEMMA TurnTypes ==
  ASSUME TypeInv, NEW s \in Stream, StreamTurn(s)
  PROVE  TypeInv'
<1>1. /\ pc = "streams" /\ todo' = todo \ {s} /\ Exists(s)
      /\ UNCHANGED <<pc, rearm, session, client, peer_init>>
      /\ backends' \subseteq backends /\ Turned(s)
  BY TurnEffect
<1>2. /\ streams' \in [Stream -> StreamRecord \cup {NoStream}]
      /\ \A x \in Stream : Exists(x)' <=> Exists(x)
  <2>0. streams \in [Stream -> StreamRecord \cup {NoStream}]
    BY DEF TypeInv, Typed, TypeOK
  <2>1. CASE streams' = streams
    BY <2>0, <2>1 DEF Exists
  <2>2. ASSUME NEW r \in StreamRecord, streams' = [streams EXCEPT ![s] = r]
        PROVE  <1>2!1 /\ <1>2!2
    BY <1>1, <2>0, <2>2, Stored DEF Exists, TypeInv
  <2> QED
    BY <1>1, <2>1, <2>2 DEF Turned, Becomes
<1>3. files' \subseteq files
  BY <1>1 DEF Turned, KeepsFile, Shuts
<1>4. out_window' \in [StreamId -> WindowRange] /\ ledger' \in [StreamId -> Int]
  <2>1. CASE UNCHANGED <<out_window, ledger>>
    BY <2>1, WindowsTyped DEF TypeInv
  <2>2. ASSUME NEW n \in Nat, Drained(s, n) PROVE <1>4!1 /\ <1>4!2
    BY <2>2, Drains DEF TypeInv
  <2> QED
    BY <1>1, <2>1, <2>2 DEF Turned
<1>5. TypeOK'
  BY <1>1, <1>2, <1>4 DEF TypeInv, Typed, TypeOK, session, client, StreamId, WindowRange
<1>6. IsFiniteSet(files') /\ files' \subseteq Nat
  BY <1>3, FS_Subset DEF TypeInv, Typed
<1>7. Typed'
  BY <1>1, <1>4, <1>5, <1>6 DEF TypeInv, Typed, client
<1>8. Heading'
  BY <1>1 DEF TypeInv, Heading, session, client
<1>9. Known'
  <2>1. todo \subseteq Stream
    BY DEF TypeInv, Typed, TypeOK
  <2> QED
    BY <1>1, <1>2, <2>1 DEF TypeInv, Known, client
<1> QED
  BY <1>7, <1>8, <1>9 DEF TypeInv

(* What a handler does to the stream of its frame. *)
LEMMA HeadersEffect ==
  ASSUME TypeInv, HandleHeaders
  PROVE  /\ pc = "dispatch" /\ FrameDone /\ head.s \in Stream
         /\ cl[head.s] = "none" \/ "again" \in world.faults
         /\ CreateWindow(head.s) /\ backends' \subseteq Stream
         /\ \E what \in {"open", "ended", "refused"}, r \in StreamRecord :
              /\ Told(head.s, what) /\ Becomes(head.s, r)
              /\ \/ KeepsFile(GetOrCreate(head.s).file, r)
                 \/ what = "ended" /\ Opens(r)
<1> DEFINE s == head.s
           st == GetOrCreate(s)
           Effect == \E what \in {"open", "ended", "refused"}, r \in StreamRecord :
                       /\ Told(s, what) /\ Becomes(s, r)
                       /\ KeepsFile(st.file, r) \/ (what = "ended" /\ Opens(r))
<1>1. /\ pc = "dispatch" /\ FrameDone /\ head.k = "HEADERS" /\ CreateWindow(s)
  BY DEF HandleHeaders, At
<1>2. s \in Stream /\ (cl[s] = "none" \/ "again" \in world.faults)
  BY <1>1 DEF TypeInv, Heading
<1>3. /\ st \in StreamRecord /\ world.kinds \subseteq Kinds /\ Typed
      /\ backends \subseteq Stream
  BY <1>2, Stored, WorldTyped DEF TypeInv, Typed, TypeOK
<1>4. Progress(head.end) \in {"open", "ended"}
  BY DEF Progress
<1>5. ASSUME NEW k \in Kinds, NEW what \in {"open", "ended", "refused"},
             streams' = [streams EXCEPT ![s] = [st EXCEPT !.kind = k]],
             Told(s, what), UNCHANGED <<files, backends>>
      PROVE  Effect /\ backends' \subseteq Stream
  <2> DEFINE r == [st EXCEPT !.kind = k]
  <2>1. r \in StreamRecord /\ r.file = st.file
    BY <1>3, Asking
  <2>2. Becomes(s, r) /\ KeepsFile(st.file, r)
    BY <1>5, <2>1 DEF Becomes, KeepsFile
  <2> HIDE DEF r, s, st
  <2> QED
    BY <1>3, <1>5, <2>1, <2>2
<1>6. CASE /\ "badheader" \in world.faults
           /\ streams' = [streams EXCEPT ![s] = [st EXCEPT !.kind = "missing"]]
           /\ Told(s, Progress(head.end))
           /\ UNCHANGED <<out, files, backends>>
  <2>1. "missing" \in Kinds
    BY DEF Kinds
  <2> QED
    BY <1>1, <1>2, <1>4, <1>5, <1>6, <2>1
<1>7. ASSUME NEW k \in world.kinds,
             \/ /\ streams' = [streams EXCEPT ![s] = [st EXCEPT !.kind = k]]
                /\ out' \in FrameSend(out, Refusal(s))
                /\ Told(s, "refused")
                /\ UNCHANGED <<files, backends>>
             \/ /\ k = "upgrade"
                /\ RouteUpgrade(s, [st EXCEPT !.kind = k])
                /\ Told(s, Progress(head.end))
             \/ /\ k # "upgrade" /\ head.end
                /\ RouterBridge(s, [st EXCEPT !.kind = k, !.state = 2], 2, <<>>)
                /\ Told(s, "ended")
             \/ /\ k # "upgrade" /\ ~head.end
                /\ streams' = [streams EXCEPT ![s] = [st EXCEPT !.kind = k]]
                /\ Told(s, "open")
                /\ UNCHANGED <<out, files, backends>>
      PROVE  Effect /\ backends' \subseteq Stream
  <2>0. k \in Kinds
    BY <1>3
  <2>1. CASE /\ RouterBridge(s, [st EXCEPT !.kind = k, !.state = 2], 2, <<>>)
             /\ Told(s, "ended")
    <3> DEFINE t == [st EXCEPT !.kind = k, !.state = 2]
    <3>1. t \in StreamRecord /\ t.file = st.file
      BY <1>3, <2>0, Asking
    <3>2. RouterBridge(s, t, 2, <<>>)
      BY <2>1
    <3> HIDE DEF s, st, t
    <3>3. /\ \E r \in StreamRecord : Becomes(s, r) /\ (KeepsFile(t.file, r) \/ Opens(r))
          /\ backends' = backends \cup {s} \/ backends' = backends
      BY <1>2, <1>3, <3>1, <3>2, RouterEffect DEF s
    <3> QED
      BY <1>2, <1>3, <2>1, <3>1, <3>3
  <2>2. CASE RouteUpgrade(s, [st EXCEPT !.kind = k]) /\ Told(s, Progress(head.end))
    BY <1>4, <1>5, <2>0, <2>2 DEF RouteUpgrade
  <2>3. CASE /\ streams' = [streams EXCEPT ![s] = [st EXCEPT !.kind = k]]
             /\ Told(s, "refused") \/ Told(s, "open")
             /\ UNCHANGED <<files, backends>>
    BY <1>5, <2>0, <2>3
  <2> QED
    BY <1>7, <2>1, <2>2, <2>3
<1>8. Effect /\ backends' \subseteq Stream
  <2>1. CASE \E k \in world.kinds :
             \/ /\ streams' = [streams EXCEPT ![s] = [st EXCEPT !.kind = k]]
                /\ out' \in FrameSend(out, Refusal(s))
                /\ Told(s, "refused")
                /\ UNCHANGED <<files, backends>>
             \/ /\ k = "upgrade"
                /\ RouteUpgrade(s, [st EXCEPT !.kind = k])
                /\ Told(s, Progress(head.end))
             \/ /\ k # "upgrade" /\ head.end
                /\ RouterBridge(s, [st EXCEPT !.kind = k, !.state = 2], 2, <<>>)
                /\ Told(s, "ended")
             \/ /\ k # "upgrade" /\ ~head.end
                /\ streams' = [streams EXCEPT ![s] = [st EXCEPT !.kind = k]]
                /\ Told(s, "open")
                /\ UNCHANGED <<out, files, backends>>
    BY <1>7, <2>1
  <2> QED
    BY <1>6, <2>1 DEF HandleHeaders
<1> QED
  BY <1>1, <1>2, <1>8

LEMMA DataEffect ==
  ASSUME TypeInv, HandleData
  PROVE  /\ pc = "dispatch" /\ FrameDone /\ head.s \in Stream /\ Exists(head.s)
         /\ DataFor(cl[head.s], world.faults)
         /\ UNCHANGED flow /\ backends' \subseteq Stream
         /\ \E what \in {"open", "ended"} :
              /\ Told(head.s, what)
              /\ \/ UNCHANGED <<streams, files>>
                 \/ \E r \in StreamRecord :
                      /\ Becomes(head.s, r)
                      /\ \/ KeepsFile(streams[head.s].file, r)
                         \/ what = "ended" /\ Opens(r)
<1> DEFINE s == head.s
           st == streams[s]
           Effect == \/ UNCHANGED <<streams, files>>
                     \/ \E r \in StreamRecord :
                          /\ Becomes(s, r)
                          /\ KeepsFile(st.file, r) \/ (head.end /\ Opens(r))
<1>1. /\ pc = "dispatch" /\ FrameDone /\ head.k = "DATA" /\ UNCHANGED flow
      /\ Told(s, Progress(head.end))
  BY DEF HandleData, At
<1>2. s \in Stream /\ DataFor(cl[s], world.faults) /\ head.end \in BOOLEAN
  BY <1>1 DEF TypeInv, Heading, Headings
<1>3. Exists(s)
  <2>1. cl[s] # "none"
    BY <1>2 DEF DataFor
  <2> HIDE DEF s
  <2> QED
    BY <1>1, <1>2, <2>1 DEF TypeInv, Known
<1>4. st \in StreamRecord /\ Typed /\ backends \subseteq Stream
  BY <1>2, <1>3, Stored DEF TypeInv, Typed, TypeOK
<1>5. AppendBody(st) \in StreamRecord /\ AppendBody(st).file = st.file
  BY <1>4, Records
<1>6. Effect /\ backends' \subseteq Stream
  <2>1. CASE UNCHANGED <<streams, files, backends>>
    BY <1>4, <2>1
  <2>2. CASE /\ streams' = [streams EXCEPT ![s] = AppendBody(@)] /\ UNCHANGED <<files, backends>>
    <3>1. Becomes(s, AppendBody(st)) /\ KeepsFile(st.file, AppendBody(st))
      BY <1>5, <2>2 DEF Becomes, KeepsFile
    <3> QED
      BY <1>4, <1>5, <2>2, <3>1
  <2>3. CASE head.end /\ StreamEnds(s, AppendBody(st))
    <3> DEFINE t == AppendBody(st)
               pre == Updates(s)
    <3>1. t \in StreamRecord /\ t.file = st.file
      BY <1>5
    <3>2. RouterBridge(s, t, 4, pre)
      BY <2>3 DEF StreamEnds
    <3> HIDE DEF s, st, t, pre
    <3>3. /\ \E r \in StreamRecord : Becomes(s, r) /\ (KeepsFile(t.file, r) \/ Opens(r))
          /\ backends' = backends \cup {s} \/ backends' = backends
      BY <1>2, <1>4, <3>1, <3>2, RouterEffect
    <3> QED
      BY <1>2, <1>4, <2>3, <3>1, <3>3
  <2> QED
    BY <2>1, <2>2, <2>3 DEF HandleData
<1>7. CASE head.end
  <2>1. Told(s, "ended")
    BY <1>1, <1>7 DEF Progress
  <2> HIDE DEF s, st
  <2>2. \/ UNCHANGED <<streams, files>>
        \/ \E r \in StreamRecord : Becomes(s, r) /\ (KeepsFile(st.file, r) \/ Opens(r))
    BY <1>6
  <2> QED
    BY <1>1, <1>2, <1>3, <1>6, <2>1, <2>2 DEF s, st
<1>8. CASE ~head.end
  <2>1. Told(s, "open")
    BY <1>1, <1>8 DEF Progress
  <2> HIDE DEF s, st
  <2>2. \/ UNCHANGED <<streams, files>>
        \/ \E r \in StreamRecord : Becomes(s, r) /\ KeepsFile(st.file, r)
    BY <1>6, <1>8
  <2> QED
    BY <1>1, <1>2, <1>3, <1>6, <2>1, <2>2 DEF s, st
<1> QED
  BY <1>7, <1>8

LEMMA ResetEffect ==
  ASSUME TypeInv, HandleReset
  PROVE  /\ pc = "dispatch" /\ FrameDone /\ head.s \in Stream /\ Exists(head.s)
         /\ UNCHANGED <<flow, backends>> /\ Told(head.s, "reset")
         /\ \E r \in StreamRecord : Becomes(head.s, r) /\ Shuts(streams[head.s].file, r)
<1>1. /\ pc = "dispatch" /\ FrameDone /\ head.k = "RST" /\ UNCHANGED <<flow, backends>>
      /\ Told(head.s, "reset")
      /\ streams' = [streams EXCEPT ![head.s] = FinishFile(@)]
      /\ files' = files \ {streams[head.s].file}
  BY DEF HandleReset, At
<1>2. head.s \in Stream /\ cl[head.s] \in {"open", "ended"}
  BY <1>1 DEF TypeInv, Heading
<1>3. Exists(head.s)
  BY <1>1, <1>2 DEF TypeInv, Known
<1>4. FinishFile(streams[head.s]) \in StreamRecord /\ FinishFile(streams[head.s]).file = 0
  BY <1>2, <1>3, Stored, Records DEF TypeInv
<1>5. Becomes(head.s, FinishFile(streams[head.s]))
      /\ Shuts(streams[head.s].file, FinishFile(streams[head.s]))
  BY <1>1, <1>4 DEF Becomes, Shuts
<1> QED
  BY <1>1, <1>2, <1>3, <1>4, <1>5

(* A handled frame leaves the loop ready for the next.                     *)
LEMMA HandledTypes ==
  ASSUME TypeInv, pc = "dispatch", FrameDone,
         cl' \in [Stream -> {"none", "open", "ended", "refused", "reset"}],
         streams' \in [Stream -> StreamRecord \cup {NoStream}],
         \A x \in Stream : cl'[x] = "none" <=> ~Exists(x)',
         \A x \in Stream : Exists(x) => Exists(x)',
         IsFiniteSet(files'), files' \subseteq Nat, backends' \subseteq Stream,
         out_window' \in [StreamId -> WindowRange], ledger' \in [StreamId -> Int],
         peer_init' \in Announced
  PROVE  TypeInv'
<1>1. /\ pc' = "top" /\ read_state' = 0 /\ header_bytes' = 0 /\ payload_bytes' = 0
      /\ UNCHANGED <<rearm, preface, todo, in, world>>
  BY DEF FrameDone, Goto
<1>2. TypeOK'
  BY <1>1 DEF TypeInv, Typed, TypeOK, StreamId, WindowRange, Piece
<1>3. Typed'
  BY <1>1, <1>2 DEF TypeInv, Typed
<1>4. Heading'
  BY <1>1 DEF Heading
<1>5. Known'
  <2>1. todo \subseteq Stream /\ \A x \in todo : Exists(x)
    BY DEF TypeInv, Typed, TypeOK, Known
  <2> QED
    BY <1>1, <2>1 DEF Known
<1> QED
  BY <1>3, <1>4, <1>5 DEF TypeInv

(* A stream that is written to is known, and so is every other that was.   *)
LEMMA BecomesKnown ==
  ASSUME TypeInv, NEW s \in Stream, pc # "closed",
         NEW what \in {"open", "ended", "refused", "reset"}, Told(s, what),
         \/ Exists(s) /\ UNCHANGED streams
         \/ \E r \in StreamRecord : Becomes(s, r)
  PROVE  /\ cl' \in [Stream -> {"none", "open", "ended", "refused", "reset"}]
         /\ streams' \in [Stream -> StreamRecord \cup {NoStream}]
         /\ \A x \in Stream : cl'[x] = "none" <=> ~Exists(x)'
         /\ \A x \in Stream : Exists(x) => Exists(x)'
<1>1. /\ cl \in [Stream -> {"none", "open", "ended", "refused", "reset"}]
      /\ streams \in [Stream -> StreamRecord \cup {NoStream}]
      /\ \A x \in Stream : cl[x] = "none" <=> ~Exists(x)
      /\ \A r \in StreamRecord : r # NoStream
  BY Stored DEF TypeInv, Typed, TypeOK, Known
<1>2. cl' = [cl EXCEPT ![s] = what]
  BY DEF Told
<1>3. /\ cl' \in [Stream -> {"none", "open", "ended", "refused", "reset"}]
      /\ cl'[s] # "none" /\ \A x \in Stream : x # s => cl'[x] = cl[x]
  BY <1>1, <1>2
<1>4. CASE Exists(s) /\ UNCHANGED streams
  BY <1>1, <1>3, <1>4 DEF Exists
<1>5. ASSUME NEW r \in StreamRecord, Becomes(s, r)
      PROVE  /\ streams' \in [Stream -> StreamRecord \cup {NoStream}]
             /\ Exists(s)' /\ \A x \in Stream : x # s => (Exists(x)' <=> Exists(x))
  BY <1>1, <1>5 DEF Becomes, Exists
<1> QED
  BY <1>1, <1>3, <1>4, <1>5

(* The windows after HEADERS, SETTINGS and WINDOW_UPDATE.                  *)
LEMMA Creates ==
  ASSUME Typed, NEW s \in Stream, CreateWindow(s)
  PROVE  /\ out_window' \in [StreamId -> WindowRange] /\ ledger' \in [StreamId -> Int]
         /\ UNCHANGED peer_init
         /\ Exists(s) => UNCHANGED <<out_window, ledger>>
         /\ ~Exists(s) => out_window'[s] = peer_init /\ ledger'[s] = peer_init
         /\ \A x \in StreamId \ {s} : out_window'[x] = out_window[x] /\ ledger'[x] = ledger[x]
<1>1. /\ out_window \in [StreamId -> WindowRange] /\ ledger \in [StreamId -> Int]
      /\ s \in StreamId
  BY WindowsTyped
<1>2. peer_init \in WindowRange /\ peer_init \in Int
  <2> DEFINE h == WindowSpan \div 2
  <2>1. h \in Nat
    BY Sizes
  <2>2. peer_init \in Nat /\ peer_init < h
    BY AnnouncedTyped DEF Typed
  <2> HIDE DEF h
  <2>3. peer_init \in -h .. h - 1
    BY <2>1, <2>2
  <2> QED
    BY <2>1, <2>2, <2>3 DEF WindowRange, h
<1>3. UNCHANGED peer_init
  BY DEF CreateWindow
<1>4. CASE Exists(s)
  BY <1>1, <1>3, <1>4 DEF CreateWindow
<1>5. CASE ~Exists(s)
  <2>1. /\ out_window' = [out_window EXCEPT ![s] = peer_init]
        /\ ledger' = [ledger EXCEPT ![s] = peer_init]
    BY <1>5 DEF CreateWindow
  <2> QED
    BY <1>1, <1>2, <1>3, <1>5, <2>1
<1> QED
  BY <1>4, <1>5

LEMMA Settles ==
  ASSUME TypeInv, HandleSettings
  PROVE  /\ pc = "dispatch" /\ FrameDone /\ UNCHANGED <<cl, streams, files, backends>>
         /\ head.n \in Setting /\ peer_init' = head.n
         /\ out_window' \in [StreamId -> WindowRange] /\ ledger' \in [StreamId -> Int]
         /\ \A x \in StreamId :
              IF x \in Stream /\ Exists(x)
              THEN /\ out_window'[x] = Signed(out_window[x] + (head.n - peer_init))
                   /\ ledger'[x] = ledger[x] + (head.n - peer_init)
              ELSE out_window'[x] = out_window[x] /\ ledger'[x] = ledger[x]
<1> DEFINE d == head.n - peer_init
           T(x) == x \in Stream /\ Exists(x)
<1>1. /\ pc = "dispatch" /\ FrameDone /\ UNCHANGED <<cl, streams, files, backends>>
      /\ head.k = "SETTINGS" /\ peer_init' = head.n
      /\ out_window' = [x \in DOMAIN out_window |->
                          IF T(x) THEN Signed(out_window[x] + d) ELSE out_window[x]]
      /\ ledger' = [x \in DOMAIN ledger |->
                      IF T(x) THEN ledger[x] + d ELSE ledger[x]]
  BY DEF HandleSettings, At
<1>2. /\ out_window \in [StreamId -> WindowRange] /\ ledger \in [StreamId -> Int]
      /\ \A x \in StreamId : out_window[x] \in Int /\ ledger[x] \in Int
  BY WindowsTyped DEF TypeInv
<1>3. head.n \in Setting /\ head.n \in Int /\ peer_init \in Int
  <2>1. head.n \in Setting
    BY <1>1 DEF TypeInv, Heading
  <2>2. head.n \in Nat /\ peer_init \in Nat
    BY <2>1, AnnouncedTyped DEF TypeInv, Typed
  <2> QED
    BY <2>1, <2>2
<1>4. d \in Int
  BY <1>3
<1> HIDE DEF d, T
<1>5. \A x \in StreamId : /\ Signed(out_window[x] + d) \in WindowRange
                          /\ ledger[x] + d \in Int
  <2>1. TAKE x \in StreamId
  <2> DEFINE w == out_window[x]
             l == ledger[x]
  <2>2. w \in Int /\ l \in Int
    BY <1>2
  <2> HIDE DEF w, l
  <2>3. w + d \in Int /\ l + d \in Int
    BY <1>4, <2>2
  <2>4. Signed(w + d) \in WindowRange
    BY <2>3, SignedFits DEF WindowRange
  <2> QED
    BY <2>3, <2>4 DEF w, l
<1>6. out_window' \in [StreamId -> WindowRange] /\ ledger' \in [StreamId -> Int]
  BY <1>1, <1>2, <1>5
<1>7. \A x \in StreamId :
        IF T(x) THEN out_window'[x] = Signed(out_window[x] + d) /\ ledger'[x] = ledger[x] + d
        ELSE out_window'[x] = out_window[x] /\ ledger'[x] = ledger[x]
  BY <1>1, <1>2
<1> QED
  BY <1>1, <1>3, <1>6, <1>7 DEF d, T

LEMMA Grants ==
  ASSUME TypeInv, HandleWindowUpdate
  PROVE  /\ pc = "dispatch" /\ FrameDone
         /\ UNCHANGED <<cl, peer_init, streams, files, backends>>
         /\ head.k = "WINDOW_UPDATE" /\ head.s \in StreamId /\ head.n \in Nat \ {0}
         /\ out_window' \in [StreamId -> WindowRange] /\ ledger' \in [StreamId -> Int]
         /\ out_window'[head.s] = Signed(out_window[head.s] + head.n)
         /\ ledger'[head.s] = ledger[head.s] + head.n
         /\ \A x \in StreamId \ {head.s} :
              out_window'[x] = out_window[x] /\ ledger'[x] = ledger[x]
<1> DEFINE s == head.s
           n == head.n
<1>1. /\ pc = "dispatch" /\ FrameDone
      /\ UNCHANGED <<cl, peer_init, streams, files, backends>> /\ head.k = "WINDOW_UPDATE"
      /\ out_window' = [out_window EXCEPT ![s] = Signed(@ + n)]
      /\ ledger' = [ledger EXCEPT ![s] = @ + n]
  BY DEF HandleWindowUpdate, At, FrameDone
<1>2. s \in StreamId /\ n \in Nat \ {0}
  BY <1>1, Http2Assumption DEF TypeInv, Heading, Headings
<1>3. /\ out_window \in [StreamId -> WindowRange] /\ ledger \in [StreamId -> Int]
      /\ \A x \in StreamId : out_window[x] \in Int /\ ledger[x] \in Int
  BY WindowsTyped DEF TypeInv
<1> DEFINE a == Signed(out_window[s] + n)
           b == ledger[s] + n
<1>4. a \in WindowRange /\ b \in Int
  <2> DEFINE w == out_window[s]
             l == ledger[s]
  <2>1. w \in Int /\ l \in Int
    BY <1>2, <1>3
  <2> HIDE DEF w, l, n, s
  <2>2. w + n \in Int /\ l + n \in Int
    BY <1>2, <2>1
  <2>3. Signed(w + n) \in WindowRange
    BY <2>2, SignedFits DEF WindowRange
  <2> QED
    BY <2>2, <2>3 DEF w, l
<1>5. out_window' = [out_window EXCEPT ![s] = a] /\ ledger' = [ledger EXCEPT ![s] = b]
  BY <1>1
<1> HIDE DEF a, b, s
<1>6. /\ out_window' \in [StreamId -> WindowRange] /\ ledger' \in [StreamId -> Int]
      /\ out_window'[s] = a /\ ledger'[s] = b
      /\ \A x \in StreamId \ {s} : out_window'[x] = out_window[x] /\ ledger'[x] = ledger[x]
  BY <1>2, <1>3, <1>4, <1>5
<1> QED
  BY <1>1, <1>2, <1>6 DEF a, b, s

LEMMA FilesTyped ==
  ASSUME Typed, NEW old, NEW r,
         KeepsFile(old, r) \/ Opens(r) \/ Shuts(old, r)
  PROVE  IsFiniteSet(files') /\ files' \subseteq Nat
<1>1. IsFiniteSet(files) /\ files \subseteq Nat
  BY DEF Typed
<1>2. CASE KeepsFile(old, r)
  BY <1>1, <1>2 DEF KeepsFile
<1>3. CASE Opens(r)
  <2>1. r.file \in Nat /\ files' = files \cup {r.file}
    BY <1>3 DEF Opens
  <2> QED
    BY <1>1, <2>1, FS_AddElement
<1>4. CASE Shuts(old, r)
  <2>1. files' \subseteq files
    BY <1>4 DEF Shuts
  <2> QED
    BY <1>1, <2>1, FS_Subset
<1> QED
  BY <1>2, <1>3, <1>4

(* The handlers. *)
LEMMA DispatchTypes ==
  ASSUME TypeInv, Dispatch
  PROVE  TypeInv'
<1>0. /\ Typed /\ backends \subseteq Stream /\ IsFiniteSet(files) /\ files \subseteq Nat
      /\ peer_init \in Announced
      /\ out_window \in [StreamId -> WindowRange] /\ ledger \in [StreamId -> Int]
      /\ cl \in [Stream -> {"none", "open", "ended", "refused", "reset"}]
      /\ streams \in [Stream -> StreamRecord \cup {NoStream}]
      /\ pc # "closed" => \A x \in Stream : cl[x] = "none" <=> ~Exists(x)
  BY WindowsTyped DEF TypeInv, Typed, TypeOK, Known
<1>1. CASE HandleHeaders
  <2>1. /\ pc = "dispatch" /\ FrameDone /\ head.s \in Stream /\ CreateWindow(head.s)
        /\ backends' \subseteq Stream
    BY <1>1, HeadersEffect
  <2>2. PICK what \in {"open", "ended", "refused"}, r \in StreamRecord :
          /\ Told(head.s, what) /\ Becomes(head.s, r)
          /\ KeepsFile(GetOrCreate(head.s).file, r) \/ Opens(r)
    BY <1>1, HeadersEffect
  <2>3. IsFiniteSet(files') /\ files' \subseteq Nat
    BY <1>0, <2>2, FilesTyped
  <2>4. /\ out_window' \in [StreamId -> WindowRange] /\ ledger' \in [StreamId -> Int]
        /\ peer_init' = peer_init
    BY <1>0, <2>1, Creates
  <2>5. /\ cl' \in [Stream -> {"none", "open", "ended", "refused", "reset"}]
        /\ streams' \in [Stream -> StreamRecord \cup {NoStream}]
        /\ \A x \in Stream : cl'[x] = "none" <=> ~Exists(x)'
        /\ \A x \in Stream : Exists(x) => Exists(x)'
    BY <2>1, <2>2, BecomesKnown
  <2> QED
    BY <1>0, <2>1, <2>3, <2>4, <2>5, HandledTypes
<1>2. CASE HandleData
  <2>1. /\ pc = "dispatch" /\ FrameDone /\ head.s \in Stream /\ Exists(head.s)
        /\ UNCHANGED flow /\ backends' \subseteq Stream
    BY <1>2, DataEffect
  <2>2. PICK what \in {"open", "ended"} :
          /\ Told(head.s, what)
          /\ \/ UNCHANGED <<streams, files>>
             \/ \E r \in StreamRecord :
                  Becomes(head.s, r) /\ (KeepsFile(streams[head.s].file, r) \/ Opens(r))
    BY <1>2, DataEffect
  <2>3. IsFiniteSet(files') /\ files' \subseteq Nat
    <3>1. CASE UNCHANGED <<streams, files>>
      BY <1>0, <3>1
    <3>2. ASSUME NEW r \in StreamRecord, KeepsFile(streams[head.s].file, r) \/ Opens(r)
          PROVE  <2>3!1 /\ <2>3!2
      BY <1>0, <3>2, FilesTyped
    <3> QED
      BY <2>2, <3>1, <3>2
  <2>4. /\ cl' \in [Stream -> {"none", "open", "ended", "refused", "reset"}]
        /\ streams' \in [Stream -> StreamRecord \cup {NoStream}]
        /\ \A x \in Stream : cl'[x] = "none" <=> ~Exists(x)'
        /\ \A x \in Stream : Exists(x) => Exists(x)'
    BY <2>1, <2>2, BecomesKnown
  <2>5. out_window' = out_window /\ ledger' = ledger /\ peer_init' = peer_init
    BY <2>1 DEF flow
  <2> QED
    BY <1>0, <2>1, <2>3, <2>4, <2>5, HandledTypes
<1>3. CASE HandleReset
  <2>1. /\ pc = "dispatch" /\ FrameDone /\ head.s \in Stream /\ Exists(head.s)
        /\ UNCHANGED <<flow, backends>> /\ Told(head.s, "reset")
    BY <1>3, ResetEffect
  <2>2. PICK r \in StreamRecord : Becomes(head.s, r) /\ Shuts(streams[head.s].file, r)
    BY <1>3, ResetEffect
  <2>3. IsFiniteSet(files') /\ files' \subseteq Nat
    BY <1>0, <2>2, FilesTyped
  <2>4. /\ cl' \in [Stream -> {"none", "open", "ended", "refused", "reset"}]
        /\ streams' \in [Stream -> StreamRecord \cup {NoStream}]
        /\ \A x \in Stream : cl'[x] = "none" <=> ~Exists(x)'
        /\ \A x \in Stream : Exists(x) => Exists(x)'
    BY <2>1, <2>2, BecomesKnown
  <2>5. out_window' = out_window /\ ledger' = ledger /\ peer_init' = peer_init
    BY <2>1 DEF flow
  <2> QED
    BY <1>0, <2>1, <2>3, <2>4, <2>5, HandledTypes
<1>4. CASE HandleSettings
  <2>1. /\ pc = "dispatch" /\ FrameDone /\ UNCHANGED <<cl, streams, files, backends>>
        /\ head.n \in Setting /\ peer_init' = head.n
        /\ out_window' \in [StreamId -> WindowRange] /\ ledger' \in [StreamId -> Int]
    BY <1>4, Settles
  <2>2. peer_init' \in Announced
    BY <2>1, AnnouncedTyped
  <2> QED
    BY <1>0, <2>1, <2>2, HandledTypes DEF Exists
<1>5. CASE HandleWindowUpdate
  <2>1. /\ pc = "dispatch" /\ FrameDone /\ UNCHANGED <<cl, peer_init, streams, files, backends>>
        /\ out_window' \in [StreamId -> WindowRange] /\ ledger' \in [StreamId -> Int]
    BY <1>5, Grants
  <2> QED
    BY <1>0, <2>1, HandledTypes DEF Exists
<1>6. CASE HandlePing
  <2>1. /\ pc = "dispatch" /\ FrameDone
        /\ UNCHANGED <<cl, out_window, peer_init, ledger, streams, files, backends>>
    BY <1>6 DEF HandlePing, At, flow
  <2> QED
    BY <1>0, <2>1, HandledTypes DEF Exists
<1>7. CASE HandleGoaway
  BY <1>7, CloseTypes DEF HandleGoaway
<1> QED
  BY <1>1, <1>2, <1>3, <1>4, <1>5, <1>6, <1>7 DEF Dispatch

LEMMA TypeInit == Init => TypeInv
<1> SUFFICES ASSUME Init PROVE TypeInv
  OBVIOUS
<1>1. /\ pc = "top" /\ rearm = 0 /\ preface = 0 /\ read_state = 0 /\ header_bytes = 0
      /\ payload_bytes = 0 /\ streams = [s \in Stream |-> NoStream]
      /\ out_window = [x \in Stream \cup {0} |-> InitWindow] /\ ledger = out_window
      /\ peer_init = InitWindow /\ todo = {} /\ files = {} /\ backends = {}
      /\ cl = [s \in Stream |-> "none"] /\ in = 0 /\ world \in World
  BY DEF Init
<1>2. world.frames \in Nat
  BY <1>1, WorldTyped
<1>3. InitWindow \in -(WindowSpan \div 2) .. WindowSpan \div 2 - 1 /\ InitWindow \in Nat
  <2> DEFINE h == WindowSpan \div 2
  <2>1. h \in Nat /\ InitWindow < h /\ InitWindow \in Nat
    BY Sizes
  <2> HIDE DEF h
  <2>2. InitWindow \in -h .. h - 1
    BY <2>1
  <2> QED
    BY <2>1, <2>2 DEF h
<1>4. out_window \in [Stream \cup {0} -> -(WindowSpan \div 2) .. WindowSpan \div 2 - 1]
  <2> DEFINE R == -(WindowSpan \div 2) .. WindowSpan \div 2 - 1
  <2>1. InitWindow \in R
    BY <1>3
  <2> HIDE DEF R
  <2> QED
    BY <1>1, <2>1 DEF R
<1>5. TypeOK
  BY <1>1, <1>2, <1>4 DEF TypeOK, Piece
<1>6. Typed
  BY <1>1, <1>3, <1>5, FS_EmptySet, AnnouncedTyped DEF Typed, StreamId
<1>7. Heading
  BY <1>1 DEF Heading
<1>8. Known
  BY <1>1 DEF Known, Exists
<1> QED
  BY <1>6, <1>7, <1>8 DEF TypeInv

LEMMA TypeStep == TypeInv /\ [Next]_vars => TypeInv'
<1> SUFFICES ASSUME TypeInv, [Next]_vars PROVE TypeInv'
  OBVIOUS
<1>1. CASE UNCHANGED vars
  BY <1>1 DEF vars, session, flow, client, TypeInv, Typed, TypeOK, Heading, Known, Exists
<1>2. CASE FlushFails \/ EndOfFile \/ PayloadTooLong
  BY <1>2, CloseTypes DEF FlushFails, EndOfFile, PayloadTooLong
<1>3. CASE Dispatch
  BY <1>3, DispatchTypes
<1>4. CASE \E s \in Stream : StreamTurn(s)
  BY <1>4, TurnTypes
<1>5. CASE \/ Resume \/ NothingToFlush \/ WouldBlock \/ Collect \/ StreamsDone
           \/ \E n \in 0 .. Len(out.pending) : Flush(n)
           \/ \E n \in 1 .. Piece : ReadPreface(n) \/ ReadHeader(n)
           \/ \E n \in 0 .. Piece : ReadPayload(n)
  BY <1>5, LoopTypes
<1> QED
  BY <1>1, <1>2, <1>3, <1>4, <1>5 DEF Next, Step, Write, Read

LEMMA TypeInvariant == Spec => []TypeInv
BY TypeInit, TypeStep, PTL DEF Spec

(***************************************************************************)
(* A parked session is woken when it must be.                              *)
(***************************************************************************)

(* Rearmed: whenever the session hands the worker back, epoll was asked for *)
(* EPOLLOUT if anything is left to write.  Parking is the only step that    *)
(* could break it: nothing touches a parked session until it is resumed.    *)
THEOREM RearmedCorrect == Spec => []Rearmed
<1>1. Init => Rearmed
  BY DEF Init, Rearmed
<1>2. TypeInv /\ Rearmed /\ [Next]_vars => Rearmed'
  <2> SUFFICES ASSUME TypeInv, Rearmed, [Next]_vars, pc' = "parked", NeedWrite' PROVE rearm' = 4
    BY DEF Rearmed
  <2>1. CASE UNCHANGED vars
    BY <2>1 DEF vars, Rearmed, NeedWrite, Pending, Active, Exists, HasFile
  <2>2. CASE FlushFails \/ EndOfFile \/ PayloadTooLong
    BY <2>2 DEF FlushFails, EndOfFile, PayloadTooLong, Close
  <2>3. CASE Dispatch
    BY <2>3 DEF Dispatch, HandleHeaders, HandleData, HandleReset, HandleSettings, HandlePing,
                HandleGoaway, HandleWindowUpdate, FrameDone, Goto, Close
  <2>4. ASSUME NEW s \in Stream, StreamTurn(s) PROVE FALSE
    BY <2>4, TurnEffect
  <2>5. CASE Resume \/ NothingToFlush \/ Collect \/ StreamsDone
    BY <2>5 DEF Resume, NothingToFlush, Collect, StreamsDone, Goto, AfterFlush
  <2>6. CASE WouldBlock
    <3>1. UNCHANGED <<streams, out>>
      BY <2>6 DEF WouldBlock
    <3>2. NeedWrite
      BY <3>1 DEF NeedWrite, Pending, Active, Exists, HasFile
    <3> QED
      BY <2>6, <3>2 DEF WouldBlock, Retry, Return, Goto
  <2>7. ASSUME NEW n \in 0 .. Len(out.pending), Flush(n) PROVE rearm' = 4
    BY <2>7 DEF Flush, Goto, AfterFlush, Return
  <2>8. ASSUME NEW n \in 1 .. Piece, ReadPreface(n) \/ ReadHeader(n) PROVE FALSE
    BY <2>8 DEF ReadPreface, ReadHeader, Goto
  <2>9. ASSUME NEW n \in 0 .. Piece, ReadPayload(n) PROVE FALSE
    BY <2>9 DEF ReadPayload, Goto
  <2> QED
    BY <2>1, <2>2, <2>3, <2>4, <2>5, <2>6, <2>7, <2>8, <2>9 DEF Next, Step, Write, Read
<1> QED
  BY <1>1, <1>2, TypeInvariant, PTL DEF Spec

(***************************************************************************)
(* File descriptors.                                                       *)
(***************************************************************************)

Holders == {s \in Stream : Exists(s) /\ streams[s].file # 0}

FilesHeld ==
  /\ files = {streams[s].file : s \in Holders}
  /\ \A s, r \in Holders : s # r => streams[s].file # streams[r].file

(* A stream that holds a file was asked for it by a request that ended: it  *)
(* is routed again only by HEADERS or DATA its client may not send.         *)
FileInv ==
  Without({"again", "more"}) =>
    /\ FilesHeld
    /\ pc # "closed" => \A s \in Holders : cl[s] \in {"ended", "reset"}

LEMMA HoldersChange ==
  ASSUME Typed, FilesHeld, NEW s \in Stream, NEW r \in StreamRecord, Becomes(s, r), NEW old \in Nat,
         old = (IF Exists(s) THEN streams[s].file ELSE 0),
         KeepsFile(old, r) \/ Shuts(old, r) \/ (old = 0 /\ Opens(r))
  PROVE  /\ FilesHeld'
         /\ Holders' = IF r.file = 0 THEN Holders \ {s} ELSE Holders \cup {s}
<1>1. /\ streams' = [streams EXCEPT ![s] = r]
      /\ streams \in [Stream -> StreamRecord \cup {NoStream}]
      /\ r # NoStream
  BY Stored DEF Becomes, Typed, TypeOK
<1>2. streams'[s] = r /\ \A x \in Stream \ {s} : streams'[x] = streams[x]
  BY <1>1
<1>3. Exists(s)' /\ \A x \in Stream \ {s} : Exists(x)' <=> Exists(x)
  BY <1>1, <1>2 DEF Exists
<1>4. Holders' = IF r.file = 0 THEN Holders \ {s} ELSE Holders \cup {s}
  BY <1>2, <1>3 DEF Holders
<1>5. s \in Holders <=> old # 0
  BY DEF Holders
<1>6. s \in Holders => old = streams[s].file
  BY DEF Holders
<1>7. /\ files = {streams[x].file : x \in Holders}
      /\ \A x, y \in Holders : x # y => streams[x].file # streams[y].file
      /\ Holders \subseteq Stream
      /\ \A x \in Holders : streams[x].file # 0
  BY DEF FilesHeld, Holders
<1>8. CASE r.file = old /\ files' = files
  <2>1. Holders' = Holders
    BY <1>4, <1>5, <1>8
  <2>2. \A x \in Holders : streams'[x].file = streams[x].file
    BY <1>2, <1>6, <1>7, <1>8
  <2>3. FilesHeld'
    BY <1>7, <1>8, <2>1, <2>2 DEF FilesHeld
  <2> QED
    BY <1>4, <2>3
<1>9. CASE r.file = 0 /\ files' = files \ {old}
  <2>1. Holders' = Holders \ {s} /\ \A x \in Holders' : streams'[x].file = streams[x].file
    BY <1>2, <1>4, <1>7, <1>9
  <2>2. files' = {streams[x].file : x \in Holders \ {s}}
    <3>1. CASE s \in Holders
      BY <1>6, <1>7, <1>9, <3>1
    <3>2. CASE s \notin Holders
      BY <1>5, <1>7, <1>9, <3>2
    <3> QED
      BY <3>1, <3>2
  <2>3. FilesHeld'
    BY <1>7, <2>1, <2>2 DEF FilesHeld
  <2> QED
    BY <1>4, <2>3
<1>10. CASE old = 0 /\ Opens(r)
  <2>1. r.file # 0 /\ r.file \notin files /\ files' = files \cup {r.file} /\ s \notin Holders
    BY <1>5, <1>10 DEF Opens
  <2>2. Holders' = Holders \cup {s} /\ streams'[s].file = r.file
        /\ \A x \in Holders : streams'[x].file = streams[x].file /\ x # s
    BY <1>2, <1>4, <1>7, <2>1
  <2>3. files' = {streams'[x].file : x \in Holders'}
    BY <1>7, <2>1, <2>2
  <2>4. \A x, y \in Holders' : x # y => streams'[x].file # streams'[y].file
    <3>1. \A x \in Holders : streams'[x].file \in files
      BY <1>7, <2>2
    <3> QED
      BY <1>7, <2>1, <2>2, <3>1
  <2>5. FilesHeld'
    BY <2>3, <2>4 DEF FilesHeld
  <2> QED
    BY <1>4, <2>5
<1> QED
  BY <1>8, <1>9, <1>10 DEF KeepsFile, Shuts

LEMMA LoopAside ==
  ASSUME \/ Resume \/ NothingToFlush \/ WouldBlock \/ Collect \/ StreamsDone
         \/ \E n \in 0 .. Len(out.pending) : Flush(n)
         \/ \E n \in 1 .. Piece : ReadPreface(n) \/ ReadHeader(n)
         \/ \E n \in 0 .. Piece : ReadPayload(n)
  PROVE  Aside /\ pc # "closed" /\ pc' # "closed"
<1>1. CASE Resume \/ NothingToFlush \/ Collect \/ StreamsDone
  BY <1>1 DEF Resume, NothingToFlush, Collect, StreamsDone, Goto, AfterFlush, Aside, flow, client
<1>2. CASE WouldBlock
  BY <1>2 DEF WouldBlock, Goto, Return, Retry, Aside, flow, client
<1>3. ASSUME NEW n \in 0 .. Len(out.pending), Flush(n)
      PROVE  Aside /\ pc # "closed" /\ pc' # "closed"
  BY <1>3 DEF Flush, Goto, Return, AfterFlush, Aside, flow, client
<1>4. ASSUME NEW n \in 1 .. Piece, ReadPreface(n) \/ ReadHeader(n)
      PROVE  Aside /\ pc # "closed" /\ pc' # "closed"
  BY <1>4 DEF ReadPreface, ReadHeader, Goto, Aside, flow, client
<1>5. ASSUME NEW n \in 0 .. Piece, ReadPayload(n)
      PROVE  Aside /\ pc # "closed" /\ pc' # "closed"
  BY <1>5 DEF ReadPayload, Goto, Aside, flow, client
<1> QED
  BY <1>1, <1>2, <1>3, <1>4, <1>5

LEMMA FileAside ==
  ASSUME FileInv, UNCHANGED <<streams, files, cl, world>>, pc # "closed"
  PROVE  FileInv'
BY DEF FileInv, FilesHeld, Holders, Exists, Without

LEMMA FileClose ==
  ASSUME FileInv, Close
  PROVE  FileInv'
<1>1. /\ pc' = "closed" /\ streams' = [s \in Stream |-> NoStream] /\ world' = world
      /\ files' = files \ {streams[s].file : s \in {r \in Stream : Exists(r)}}
  BY DEF Close, client
<1>2. Holders' = {}
  BY <1>1 DEF Holders, Exists
<1>3. ASSUME FilesHeld PROVE files' = {}
  BY <1>1, <1>3 DEF FilesHeld, Holders
<1> QED
  BY <1>1, <1>2, <1>3 DEF FileInv, FilesHeld, Without

LEMMA FileTurns ==
  ASSUME TypeInv, FileInv, NEW s \in Stream, StreamTurn(s)
  PROVE  FileInv'
<1>1. /\ pc = "streams" /\ Exists(s) /\ UNCHANGED <<pc, client>> /\ Turned(s)
  BY TurnEffect
<1>2. CASE UNCHANGED <<streams, files>>
  BY <1>1, <1>2, FileAside DEF client
<1>3. ASSUME NEW r \in StreamRecord, Becomes(s, r),
             KeepsFile(streams[s].file, r) \/ Shuts(streams[s].file, r),
             Without({"again", "more"})
      PROVE  FileInv'
  <2>1. streams[s].file \in Nat
    BY <1>1, Stored DEF TypeInv, StreamRecord
  <2>2. FilesHeld /\ \A x \in Holders : cl[x] \in {"ended", "reset"}
    BY <1>1, <1>3 DEF FileInv
  <2>3. FilesHeld' /\ Holders' = IF r.file = 0 THEN Holders \ {s} ELSE Holders \cup {s}
    BY <1>1, <1>3, <2>1, <2>2, HoldersChange DEF TypeInv
  <2>4. r.file # 0 => s \in Holders
    BY <1>1, <1>3 DEF KeepsFile, Shuts, Holders
  <2>5. Holders' \subseteq Holders
    BY <2>3, <2>4
  <2> QED
    BY <1>1, <2>2, <2>3, <2>5 DEF FileInv, client
<1>4. CASE ~Without({"again", "more"})
  BY <1>1, <1>4 DEF FileInv, Without, client
<1> QED
  BY <1>1, <1>2, <1>3, <1>4 DEF Turned

LEMMA FileDispatch ==
  ASSUME TypeInv, FileInv, Dispatch
  PROVE  FileInv'
<1>1. CASE HandleGoaway
  BY <1>1, FileClose DEF HandleGoaway
<1>2. CASE HandleSettings \/ HandlePing \/ HandleWindowUpdate
  BY <1>2, FileAside DEF HandleSettings, HandlePing, HandleWindowUpdate, At, FrameDone
<1>3. ASSUME NEW s \in Stream, NEW r \in StreamRecord,
             NEW what \in {"open", "ended", "refused", "reset"}, NEW old \in Nat,
             Told(s, what), Becomes(s, r), world' = world, pc # "closed",
             old = IF Exists(s) THEN streams[s].file ELSE 0,
             Without({"again", "more"}) =>
               \/ old = 0 /\ KeepsFile(old, r)
               \/ what = "reset" /\ Shuts(old, r)
               \/ what = "ended" /\ old = 0 /\ Opens(r)
      PROVE  FileInv'
  <2> SUFFICES ASSUME Without({"again", "more"}) PROVE FileInv'
    BY <1>3 DEF FileInv, Without
  <2>1. FilesHeld /\ Typed /\ \A x \in Holders : cl[x] \in {"ended", "reset"}
    BY <1>3 DEF FileInv, TypeInv
  <2>2. FilesHeld' /\ Holders' = IF r.file = 0 THEN Holders \ {s} ELSE Holders \cup {s}
    BY <1>3, <2>1, HoldersChange
  <2>3. cl \in [Stream -> {"none", "open", "ended", "refused", "reset"}]
    BY <2>1 DEF Typed, TypeOK
  <2>4. cl'[s] = what /\ \A x \in Stream \ {s} : cl'[x] = cl[x]
    BY <1>3, <2>3 DEF Told
  <2>5. r.file # 0 => what = "ended"
    BY <1>3 DEF KeepsFile, Shuts
  <2>6. Holders \subseteq Stream
    BY DEF Holders
  <2>7. \A x \in Holders' : cl'[x] \in {"ended", "reset"}
    BY <2>1, <2>2, <2>4, <2>5, <2>6
  <2> QED
    BY <2>2, <2>7 DEF FileInv
<1>4. CASE HandleHeaders
  <2>1. /\ pc = "dispatch" /\ FrameDone /\ head.s \in Stream
        /\ cl[head.s] = "none" \/ "again" \in world.faults
    BY <1>4, HeadersEffect
  <2>2. PICK what \in {"open", "ended", "refused"}, r \in StreamRecord :
          /\ Told(head.s, what) /\ Becomes(head.s, r)
          /\ \/ KeepsFile(GetOrCreate(head.s).file, r)
             \/ what = "ended" /\ Opens(r)
    BY <1>4, HeadersEffect
  <2> DEFINE old == IF Exists(head.s) THEN streams[head.s].file ELSE 0
  <2>3. old \in Nat
    BY <2>1, Stored DEF TypeInv, StreamRecord
  <2>4. Without({"again", "more"}) => ~Exists(head.s)
    BY <2>1 DEF TypeInv, Known, Without
  <2>5. Without({"again", "more"}) => old = 0 /\ GetOrCreate(head.s).file = 0
    BY <2>4, NewRecord DEF GetOrCreate
  <2>6. world' = world
    BY <2>1 DEF FrameDone
  <2> QED
    BY <1>3, <2>1, <2>2, <2>3, <2>5, <2>6
<1>5. CASE HandleData
  <2>1. /\ pc = "dispatch" /\ FrameDone /\ head.s \in Stream /\ Exists(head.s)
        /\ DataFor(cl[head.s], world.faults)
    BY <1>5, DataEffect
  <2>2. PICK what \in {"open", "ended"} :
          /\ Told(head.s, what)
          /\ \/ UNCHANGED <<streams, files>>
             \/ \E r \in StreamRecord :
                  /\ Becomes(head.s, r)
                  /\ \/ KeepsFile(streams[head.s].file, r)
                     \/ what = "ended" /\ Opens(r)
    BY <1>5, DataEffect
  <2> DEFINE old == IF Exists(head.s) THEN streams[head.s].file ELSE 0
  <2>3. old \in Nat /\ old = streams[head.s].file
    BY <2>1, Stored DEF TypeInv, StreamRecord
  <2>4. Without({"again", "more"}) => head.s \notin Holders /\ old = 0
    <3>1. Without({"again", "more"}) => cl[head.s] \notin {"ended", "reset"}
      BY <2>1 DEF DataFor, Without
    <3> QED
      BY <2>1, <3>1 DEF FileInv, Holders
  <2>5. world' = world
    BY <2>1 DEF FrameDone
  <2>6. CASE UNCHANGED <<streams, files>>
    <3>1. cl \in [Stream -> {"none", "open", "ended", "refused", "reset"}]
      BY DEF TypeInv, Typed, TypeOK
    <3>2. \A x \in Stream \ {head.s} : cl'[x] = cl[x]
      BY <2>2, <3>1 DEF Told
    <3> QED
      BY <2>1, <2>4, <2>5, <2>6, <3>2 DEF FileInv, FilesHeld, Holders, Exists, Without
  <2> QED
    BY <1>3, <2>1, <2>2, <2>3, <2>4, <2>5, <2>6
<1>6. CASE HandleReset
  <2>1. /\ pc = "dispatch" /\ FrameDone /\ head.s \in Stream /\ Exists(head.s)
        /\ Told(head.s, "reset")
    BY <1>6, ResetEffect
  <2>2. PICK r \in StreamRecord : Becomes(head.s, r) /\ Shuts(streams[head.s].file, r)
    BY <1>6, ResetEffect
  <2> DEFINE old == IF Exists(head.s) THEN streams[head.s].file ELSE 0
  <2>3. old \in Nat /\ old = streams[head.s].file
    BY <2>1, Stored DEF TypeInv, StreamRecord
  <2>4. world' = world
    BY <2>1 DEF FrameDone
  <2> QED
    BY <1>3, <2>1, <2>2, <2>3, <2>4
<1> QED
  BY <1>1, <1>2, <1>4, <1>5, <1>6 DEF Dispatch

(* FileOwned: the descriptors that are open are those the streams hold, one *)
(* each, and none is left after http2_session_destroy, unless a client sends *)
(* HEADERS again on a stream it has used, or DATA on one it has ended or     *)
(* reset.                                                                    *)
THEOREM FilesCorrect == Spec => []FileOwned
<1>1. Init => FileInv
  BY DEF Init, FileInv, FilesHeld, Holders, Exists
<1>2. TypeInv /\ FileInv /\ [Next]_vars => FileInv'
  <2> SUFFICES ASSUME TypeInv, FileInv, [Next]_vars PROVE FileInv'
    OBVIOUS
  <2>1. CASE UNCHANGED vars
    BY <2>1 DEF vars, client, FileInv, FilesHeld, Holders, Exists, Without
  <2>2. CASE FlushFails \/ EndOfFile \/ PayloadTooLong
    BY <2>2, FileClose DEF FlushFails, EndOfFile, PayloadTooLong
  <2>3. CASE Dispatch
    BY <2>3, FileDispatch
  <2>4. CASE \E s \in Stream : StreamTurn(s)
    BY <2>4, FileTurns
  <2>5. CASE \/ Resume \/ NothingToFlush \/ WouldBlock \/ Collect \/ StreamsDone
             \/ \E n \in 0 .. Len(out.pending) : Flush(n)
             \/ \E n \in 1 .. Piece : ReadPreface(n) \/ ReadHeader(n)
             \/ \E n \in 0 .. Piece : ReadPayload(n)
    BY <2>5, LoopAside, FileAside DEF Aside
  <2> QED
    BY <2>1, <2>2, <2>3, <2>4, <2>5 DEF Next, Step, Write, Read
<1>3. FileInv => FileOwned
  BY DEF FileInv, FileOwned, FilesHeld, Holders
<1> QED
  BY <1>1, <1>2, <1>3, TypeInvariant, PTL DEF Spec

(***************************************************************************)
(* Flow control.                                                           *)
(***************************************************************************)

Half == WindowSpan \div 2

(* Server and client agree; v is the window that was announced when the    *)
(* stream was last written to or began.                                    *)
Credit ==
  /\ out_window = ledger
  /\ out_window[0] >= 0
  /\ \A s \in Stream : \E v \in Announced : out_window[s] >= peer_init - v

(* The frame being read makes no window overflow, nor does anything done   *)
(* before it is dispatched; a WINDOW_UPDATE is for a stream that exists.    *)
Fitting ==
  read_state = 1 =>
    /\ head.k = "SETTINGS" =>
         \A s \in Stream : Exists(s) => ledger[s] + (head.n - peer_init) < Half
    /\ head.k = "WINDOW_UPDATE" =>
         /\ ledger[head.s] + head.n < Half
         /\ head.s # 0 => head.s \in Stream /\ Exists(head.s)

(* SETTINGS leaves the window of a stream that is not known yet as it is.  *)
Unused == \A s \in Stream : ~Exists(s) => out_window[s] >= 0

Balanced == Credit /\ (pc # "closed" => Fitting /\ Unused)

(* Pages and the answers of backends end the agreement for good. *)
NothingUnpaid == \A x \in DOMAIN unpaid : unpaid[x] = 0
UnpaidTyped == unpaid \in [StreamId -> Nat]

CreditInv == UnpaidTyped /\ (Without({"overflow"}) /\ NothingUnpaid => Balanced)

LEMMA Pays ==
  ASSUME UnpaidTyped, NEW s \in Stream, NEW n \in Nat, Unpaid(s, n)
  PROVE  UnpaidTyped' /\ (NothingUnpaid' => NothingUnpaid)
<1>1. unpaid \in [StreamId -> Nat] /\ s \in StreamId /\ 0 \in StreamId /\ s # 0
  BY Sizes DEF UnpaidTyped, StreamId
<1> DEFINE a == unpaid[0] + n
           b == unpaid[s] + n
<1>2. a \in Nat /\ b \in Nat /\ (a = 0 => unpaid[0] = 0) /\ (b = 0 => unpaid[s] = 0)
  <2>1. unpaid[0] \in Nat /\ unpaid[s] \in Nat
    BY <1>1
  <2> QED
    BY <2>1
<1>3. unpaid' = [unpaid EXCEPT ![0] = a, ![s] = b]
  BY <1>1 DEF Unpaid
<1> HIDE DEF a, b
<1>4. unpaid' \in [StreamId -> Nat] /\ unpaid'[0] = a /\ unpaid'[s] = b
      /\ \A x \in StreamId \ {0, s} : unpaid'[x] = unpaid[x]
  BY <1>1, <1>2, <1>3
<1>5. ASSUME \A x \in StreamId : unpaid'[x] = 0 PROVE \A x \in StreamId : unpaid[x] = 0
  BY <1>1, <1>2, <1>4, <1>5
<1>6. DOMAIN unpaid = StreamId /\ DOMAIN unpaid' = StreamId
  BY <1>1, <1>4
<1> QED
  BY <1>4, <1>5, <1>6 DEF UnpaidTyped, NothingUnpaid

(* Only what http2_response_send_data writes is not paid for.              *)
LEMMA WorldKept == [Next]_vars => world' = world
BY DEF Next, Step, Write, Read, Dispatch, StreamTurn, vars, client, Close, FrameDone, Resume,
       FlushFails, Flush, NothingToFlush, ReadPreface, ReadHeader, ReadPayload, WouldBlock,
       EndOfFile, PayloadTooLong, Collect, StreamsDone, FileWaits, FileChunk, FileFails,
       FcgiWaits, FcgiSends, FcgiAnswers, FcgiFails, HandleHeaders, HandleData, HandleReset,
       HandleSettings, HandlePing, HandleGoaway, HandleWindowUpdate

LEMMA UnpaidStep ==
  ASSUME TypeInv, UnpaidTyped, [Next]_vars
  PROVE  UnpaidTyped' /\ (NothingUnpaid' => NothingUnpaid)
<1>1. ASSUME unpaid' = unpaid PROVE UnpaidTyped' /\ (NothingUnpaid' => NothingUnpaid)
  BY <1>1 DEF UnpaidTyped, NothingUnpaid
<1>2. ASSUME NEW s \in Stream, NEW st, NEW after, NEW pre, RouterBridge(s, st, after, pre)
      PROVE  unpaid' = unpaid \/ \E n \in Nat : Unpaid(s, n)
  <2>1. PageSize \in Nat /\ (IF st.kind = "empty" THEN 0 ELSE PageSize) \in Nat
    BY DEF PageSize
  <2> QED
    BY <1>2, <2>1 DEF RouterBridge, RouteFcgi, RoutePage, RouteFile
<1>3. CASE HandleHeaders
  <2>1. head.s \in Stream
    BY <1>3, HeadersEffect
  <2>2. unpaid' = unpaid \/ \E n \in Nat : Unpaid(head.s, n)
    <3>1. CASE \E st : RouterBridge(head.s, st, 2, <<>>)
      BY <1>2, <2>1, <3>1
    <3>2. CASE ~ \E st : RouterBridge(head.s, st, 2, <<>>)
      BY <1>3, <3>2 DEF HandleHeaders, RouteUpgrade
    <3> QED
      BY <3>1, <3>2
  <2> QED
    BY <1>1, <2>1, <2>2, Pays
<1>4. CASE HandleData
  <2>1. head.s \in Stream
    BY <1>4, DataEffect
  <2>2. unpaid' = unpaid \/ \E n \in Nat : Unpaid(head.s, n)
    <3>1. CASE \E st, pre : RouterBridge(head.s, st, 4, pre)
      BY <1>2, <2>1, <3>1
    <3>2. CASE ~ \E st, pre : RouterBridge(head.s, st, 4, pre)
      BY <1>4, <3>2 DEF HandleData, StreamEnds
    <3> QED
      BY <3>1, <3>2
  <2> QED
    BY <1>1, <2>1, <2>2, Pays
<1>5. ASSUME NEW s \in Stream, StreamTurn(s)
      PROVE  UnpaidTyped' /\ (NothingUnpaid' => NothingUnpaid)
  <2>1. CASE FcgiAnswers(s)
    <3>1. PICK b \in {0, FrameMax + 1} : Unpaid(s, b)
      BY <2>1 DEF FcgiAnswers
    <3>2. b \in Nat
      BY Sizes
    <3> QED
      BY <3>1, <3>2, Pays
  <2>2. CASE ~FcgiAnswers(s)
    <3>1. unpaid' = unpaid
      BY <1>5, <2>2 DEF StreamTurn, FileWaits, FileChunk, FileFails, FcgiWaits, FcgiSends, FcgiFails
    <3> QED
      BY <1>1, <3>1
  <2> QED
    BY <2>1, <2>2
<1>6. CASE FlushFails \/ EndOfFile \/ PayloadTooLong \/ HandleGoaway
  BY <1>1, <1>6 DEF FlushFails, EndOfFile, PayloadTooLong, HandleGoaway, Close
<1>7. CASE HandleReset \/ HandleSettings \/ HandlePing \/ HandleWindowUpdate
  BY <1>1, <1>7 DEF HandleReset, HandleSettings, HandlePing, HandleWindowUpdate
<1>8. CASE \/ Resume \/ NothingToFlush \/ WouldBlock \/ Collect \/ StreamsDone
           \/ \E n \in 0 .. Len(out.pending) : Flush(n)
           \/ \E n \in 1 .. Piece : ReadPreface(n) \/ ReadHeader(n)
           \/ \E n \in 0 .. Piece : ReadPayload(n)
  <2>1. unpaid' = unpaid
    BY <1>8 DEF Resume, NothingToFlush, WouldBlock, Collect, StreamsDone, Flush, ReadPreface,
                ReadHeader, ReadPayload
  <2> QED
    BY <1>1, <2>1
<1>9. CASE UNCHANGED vars
  BY <1>1, <1>9 DEF vars
<1> QED
  BY <1>3, <1>4, <1>5, <1>6, <1>7, <1>8, <1>9 DEF Next, Step, Write, Read, Dispatch

LEMMA Halves ==
  /\ Half \in Nat /\ InitWindow \in Nat /\ InitWindow < Half
  /\ \A n \in Int : -Half <= n /\ n < Half => Signed(n) = n
BY Sizes, SignedFits DEF Half

LEMMA CreditTyped ==
  ASSUME TypeInv
  PROVE  /\ peer_init \in Int /\ 0 <= peer_init /\ peer_init \in Announced
         /\ out_window \in [StreamId -> Int] /\ ledger \in [StreamId -> Int]
         /\ \A x \in StreamId : /\ out_window[x] \in Int /\ ledger[x] \in Int
                                /\ -Half <= out_window[x] /\ out_window[x] < Half
         /\ Stream \subseteq StreamId /\ 0 \in StreamId /\ 0 \notin Stream
<1>1. /\ out_window \in [StreamId -> WindowRange] /\ ledger \in [StreamId -> Int]
      /\ WindowRange \subseteq Int
      /\ Stream \subseteq StreamId /\ 0 \in StreamId /\ 0 \notin Stream
  BY WindowsTyped DEF TypeInv
<1>2. \A w \in WindowRange : w \in Int /\ -Half <= w /\ w < Half
  <2> DEFINE h == Half
  <2>1. h \in Nat /\ WindowRange = -h .. h - 1
    BY Halves DEF WindowRange, Half
  <2> HIDE DEF h
  <2>2. \A w \in WindowRange : w \in Int /\ -h <= w /\ w < h
    BY <2>1
  <2> QED
    BY <2>2 DEF h
<1>3. peer_init \in Int /\ 0 <= peer_init /\ peer_init \in Announced
  BY AnnouncedTyped DEF TypeInv, Typed
<1> QED
  BY <1>1, <1>2, <1>3

LEMMA Viewed ==
  ASSUME TypeInv, UnpaidTyped, NothingUnpaid
  PROVE  \A x \in StreamId : View(x) = ledger[x]
<1> TAKE x \in StreamId
<1>1. ledger[x] \in Int /\ unpaid[x] = 0
  BY CreditTyped DEF UnpaidTyped, NothingUnpaid
<1> DEFINE l == ledger[x]
           u == unpaid[x]
<1> HIDE DEF l, u
<1>2. l - u = l
  BY <1>1 DEF l, u
<1> QED
  BY <1>2 DEF View, l, u

LEMMA CreditAside ==
  ASSUME TypeInv, CreditInv, Aside, pc # "closed",
         UNCHANGED <<read_state, head>> \/ read_state' = 0 \/ head' \in ClientFrame,
         NothingUnpaid, Without({"overflow"})
  PROVE  Balanced'
<1>1. Credit /\ Fitting /\ Unused
  BY DEF CreditInv, Balanced
<1>2. Credit' /\ Unused'
  BY <1>1 DEF Credit, Unused, Exists, Aside, flow
<1>3. CASE UNCHANGED <<read_state, head>>
  BY <1>1, <1>2, <1>3 DEF Balanced, Fitting, Exists, Aside, flow
<1>4. CASE read_state' = 0
  BY <1>2, <1>4 DEF Balanced, Fitting
<1>5. CASE head' \in ClientFrame
  <2>1. /\ head' \in Headings
        /\ head'.k = "SETTINGS" => \A s \in Stream : Exists(s) => Fits(s, head'.n - peer_init)
        /\ head'.k = "WINDOW_UPDATE" => /\ Fits(head'.s, head'.n)
                                        /\ head'.s # 0 => head'.s \in Stream /\ Exists(head'.s)
    BY <1>5, ClientFrames
  <2>2. \A x \in StreamId : View(x) = ledger[x]
    BY Viewed DEF CreditInv
  <2>3. \A x \in StreamId : \A i : Fits(x, i) => ledger[x] + i < Half
    BY <2>2 DEF Fits, Without, Half
  <2>4. head'.s \in StreamId /\ Stream \subseteq StreamId
    BY <2>1 DEF Headings, StreamId
  <2>5. Fitting'
    BY <2>1, <2>3, <2>4 DEF Fitting, Exists, Aside, flow
  <2> QED
    BY <1>2, <2>5 DEF Balanced
<1> QED
  BY <1>3, <1>4, <1>5

LEMMA LoopReads ==
  ASSUME \/ Resume \/ NothingToFlush \/ WouldBlock \/ Collect \/ StreamsDone
         \/ \E n \in 0 .. Len(out.pending) : Flush(n)
         \/ \E n \in 1 .. Piece : ReadPreface(n) \/ ReadHeader(n)
         \/ \E n \in 0 .. Piece : ReadPayload(n)
  PROVE  UNCHANGED <<read_state, head>> \/ head' \in ClientFrame
<1>1. CASE Resume \/ NothingToFlush \/ Collect \/ StreamsDone \/ WouldBlock
  BY <1>1 DEF Resume, NothingToFlush, Collect, StreamsDone, WouldBlock, session
<1>2. ASSUME NEW n \in 0 .. Len(out.pending), Flush(n) PROVE UNCHANGED <<read_state, head>>
  BY <1>2 DEF Flush, session
<1>3. ASSUME NEW n \in 1 .. Piece, ReadPreface(n) \/ ReadHeader(n)
      PROVE  UNCHANGED <<read_state, head>> \/ head' \in ClientFrame
  BY <1>3 DEF ReadPreface, ReadHeader
<1>4. ASSUME NEW n \in 0 .. Piece, ReadPayload(n) PROVE UNCHANGED <<read_state, head>>
  BY <1>4 DEF ReadPayload
<1> QED
  BY <1>1, <1>2, <1>3, <1>4

LEMMA CreditTurns ==
  ASSUME TypeInv, CreditInv, NEW s \in Stream, StreamTurn(s), NothingUnpaid,
         Without({"overflow"})
  PROVE  Balanced'
<1>1. /\ pc = "streams" /\ Exists(s) /\ UNCHANGED <<pc, session, client, peer_init>>
      /\ Turned(s)
  BY TurnEffect
<1>2. Credit /\ Fitting /\ Unused
  BY <1>1 DEF CreditInv, Balanced
<1>3. \A x \in Stream : Exists(x)' <=> Exists(x)
  <2>1. streams \in [Stream -> StreamRecord \cup {NoStream}]
    BY DEF TypeInv, Typed, TypeOK
  <2>2. CASE streams' = streams
    BY <2>2 DEF Exists
  <2>3. ASSUME NEW r \in StreamRecord, streams' = [streams EXCEPT ![s] = r]
        PROVE  \A x \in Stream : Exists(x)' <=> Exists(x)
    BY <1>1, <2>1, <2>3, Stored DEF Exists, TypeInv
  <2> QED
    BY <1>1, <2>2, <2>3 DEF Turned, Becomes
<1>4. CASE UNCHANGED <<out_window, ledger>>
  BY <1>1, <1>2, <1>3, <1>4 DEF Balanced, Credit, Fitting, Unused, session
<1>5. ASSUME NEW n \in Nat, Drained(s, n) PROVE Balanced'
  <2>1. /\ out_window' \in [StreamId -> WindowRange] /\ ledger' \in [StreamId -> Int]
        /\ out_window'[0] = Signed(out_window[0] - n) /\ ledger'[0] = ledger[0] - n
        /\ out_window'[s] = Signed(out_window[s] - n) /\ ledger'[s] = ledger[s] - n
        /\ \A x \in StreamId \ {0, s} : out_window'[x] = out_window[x] /\ ledger'[x] = ledger[x]
    BY <1>5, Drains DEF TypeInv
  <2>2. n <= out_window[0] /\ n <= out_window[s]
    BY <1>5 DEF Drained
  <2>3. \A w \in Int : n <= w /\ w < Half => /\ Signed(w - n) = w - n
                                              /\ 0 <= w - n /\ w - n <= w
    BY Halves
  <2>4. \A x \in {0, s} : /\ out_window[x] \in Int /\ out_window[x] < Half
                          /\ ledger[x] = out_window[x] /\ n <= out_window[x]
    BY <1>2, <2>2, CreditTyped DEF Credit
  <2>5. \A x \in {0, s} : /\ out_window'[x] = out_window[x] - n
                          /\ ledger'[x] = out_window[x] - n
                          /\ out_window'[x] \in Int /\ 0 <= out_window'[x]
                          /\ ledger'[x] <= ledger[x]
    BY <2>1, <2>3, <2>4
  <2>6. \A x \in StreamId : /\ out_window'[x] = ledger'[x]
                            /\ ledger'[x] \in Int /\ ledger'[x] <= ledger[x]
    BY <1>2, <2>1, <2>5, CreditTyped DEF Credit
  <2>7. out_window' = ledger'
    BY <2>1, <2>6
  <2>8. Credit'
    <3>1. \A x \in Stream : x # s => out_window'[x] = out_window[x]
      BY <2>1, CreditTyped
    <3>2. \E v \in Announced : out_window'[s] >= peer_init - v
      <4>1. peer_init \in Announced /\ peer_init - peer_init = 0
        BY CreditTyped
      <4>2. out_window'[s] >= peer_init - peer_init
        BY <2>5, <4>1
      <4> QED
        BY <4>1, <4>2
    <3>3. out_window'[0] >= 0
      BY <2>5
    <3> QED
      BY <1>1, <1>2, <2>7, <3>1, <3>2, <3>3 DEF Credit
  <2>9. Fitting'
    <3>1. UNCHANGED <<read_state, head, peer_init>>
      BY <1>1 DEF session
    <3>2. ASSUME read_state = 1, head.k = "SETTINGS", NEW x \in Stream, Exists(x)
          PROVE  ledger'[x] + (head.n - peer_init) < Half
      <4> DEFINE a == ledger[x]
                 b == ledger'[x]
                 d == head.n - peer_init
      <4>1. a \in Int /\ b \in Int /\ b <= a
        BY <2>6, CreditTyped
      <4>2. d \in Int
        <5>1. head.n \in Int /\ peer_init \in Int
          BY <3>2, CreditTyped DEF TypeInv, Heading, Headings
        <5> QED
          BY <5>1
      <4>3. a + d < Half
        BY <1>2, <3>2 DEF Fitting
      <4> HIDE DEF a, b, d
      <4>4. b + d < Half
        BY <4>1, <4>2, <4>3, Halves
      <4> QED
        BY <4>4 DEF b, d
    <3>3. ASSUME read_state = 1, head.k = "WINDOW_UPDATE"
          PROVE  ledger'[head.s] + head.n < Half
      <4> DEFINE a == ledger[head.s]
                 b == ledger'[head.s]
                 d == head.n
      <4>0. head.s \in StreamId /\ d \in Int
        BY <3>3 DEF TypeInv, Heading, Headings
      <4>1. a \in Int /\ b \in Int /\ b <= a
        BY <2>6, <4>0, CreditTyped
      <4>3. a + d < Half
        BY <1>2, <3>3 DEF Fitting
      <4> HIDE DEF a, b, d
      <4>4. b + d < Half
        BY <4>0, <4>1, <4>3, Halves
      <4> QED
        BY <4>4 DEF b, d
    <3> QED
      BY <1>2, <1>3, <3>1, <3>2, <3>3 DEF Fitting
  <2>10. Unused'
    <3>1. \A x \in Stream : ~Exists(x) => x # s
      BY <1>1
    <3>2. \A x \in Stream : x # s => out_window'[x] = out_window[x]
      BY <2>1, CreditTyped
    <3> QED
      BY <1>2, <1>3, <3>1, <3>2 DEF Unused
  <2> QED
    BY <2>8, <2>9, <2>10 DEF Balanced
<1> QED
  BY <1>1, <1>4, <1>5 DEF Turned

LEMMA CreditDispatch ==
  ASSUME TypeInv, CreditInv, Dispatch, NothingUnpaid, Without({"overflow"})
  PROVE  Balanced'
<1>1. CASE HandleGoaway
  BY <1>1 DEF HandleGoaway, Close, CreditInv, Balanced, Credit, flow
<1>2. ASSUME ~HandleGoaway PROVE pc = "dispatch" /\ pc' = "top" /\ FrameDone
  BY <1>2 DEF Dispatch, HandleHeaders, HandleData, HandleReset, HandleSettings, HandlePing,
              HandleWindowUpdate, At, FrameDone, Goto
<1> SUFFICES ASSUME ~HandleGoaway PROVE Balanced'
  BY <1>1
<1>3. Credit /\ Fitting /\ Unused
  BY <1>2 DEF CreditInv, Balanced
<1>4. /\ pc' # "closed" /\ Fitting'
  BY <1>2 DEF FrameDone, Fitting
<1>5. \A x \in StreamId : out_window[x] = ledger[x]
  BY <1>3 DEF Credit
<1>6. CASE HandleHeaders
  <2>1. /\ head.s \in Stream /\ CreateWindow(head.s) /\ Typed /\ pc # "closed"
    BY <1>2, <1>6, HeadersEffect DEF TypeInv
  <2>2. PICK what \in {"open", "ended", "refused"}, r \in StreamRecord :
          Told(head.s, what) /\ Becomes(head.s, r)
    BY <1>6, HeadersEffect
  <2>3. \A x \in Stream : x = head.s \/ Exists(x) => Exists(x)'
    <3>1. \A x \in Stream : /\ cl'[x] = "none" <=> ~Exists(x)'
                            /\ Exists(x) => Exists(x)'
      BY <2>1, <2>2, BecomesKnown
    <3>2. cl'[head.s] = what
      BY <2>1, <2>2 DEF Told, Typed, TypeOK
    <3> QED
      BY <2>1, <3>1, <3>2
  <2>4. /\ out_window' \in [StreamId -> WindowRange] /\ ledger' \in [StreamId -> Int]
        /\ UNCHANGED peer_init
        /\ Exists(head.s) => UNCHANGED <<out_window, ledger>>
        /\ ~Exists(head.s) => out_window'[head.s] = peer_init /\ ledger'[head.s] = peer_init
        /\ \A x \in StreamId \ {head.s} : out_window'[x] = out_window[x]
                                          /\ ledger'[x] = ledger[x]
    BY <2>1, Creates
  <2>5. \A x \in StreamId : out_window'[x] = ledger'[x]
    BY <1>5, <2>4
  <2>6. out_window' = ledger'
    BY <2>4, <2>5
  <2>7. 0 # head.s /\ 0 \in StreamId /\ Stream \subseteq StreamId
    BY <2>1, CreditTyped
  <2>8. out_window'[0] >= 0
    BY <1>3, <2>4, <2>7 DEF Credit
  <2>9. \A x \in Stream : \E v \in Announced : out_window'[x] >= peer_init - v
    <3>1. peer_init \in Announced /\ peer_init >= peer_init - peer_init
      BY CreditTyped
    <3>2. CASE ~Exists(head.s)
      BY <1>3, <2>4, <2>7, <3>1, <3>2 DEF Credit
    <3>3. CASE Exists(head.s)
      BY <1>3, <2>4, <3>3 DEF Credit
    <3> QED
      BY <3>2, <3>3
  <2>10. Unused'
    BY <1>3, <2>3, <2>4, <2>7 DEF Unused
  <2> QED
    BY <1>4, <2>4, <2>6, <2>8, <2>9, <2>10 DEF Balanced, Credit
<1>7. ASSUME UNCHANGED flow, \A x \in Stream : Exists(x) => Exists(x)' PROVE Balanced'
  BY <1>3, <1>4, <1>7 DEF Balanced, Credit, Unused, flow
<1>8. CASE HandleData
  <2>1. /\ head.s \in Stream /\ Exists(head.s) /\ UNCHANGED flow
    BY <1>8, DataEffect
  <2>2. PICK what \in {"open", "ended"} :
          /\ Told(head.s, what)
          /\ UNCHANGED streams \/ \E r \in StreamRecord : Becomes(head.s, r)
    BY <1>8, DataEffect
  <2> QED
    BY <1>2, <1>7, <2>1, <2>2, BecomesKnown
<1>9. CASE HandleReset
  <2>1. /\ head.s \in Stream /\ UNCHANGED flow /\ Told(head.s, "reset")
        /\ \E r \in StreamRecord : Becomes(head.s, r)
    BY <1>9, ResetEffect
  <2> QED
    BY <1>2, <1>7, <2>1, BecomesKnown
<1>10. CASE HandlePing
  BY <1>7, <1>10 DEF HandlePing, Exists
<1>11. CASE HandleSettings
  <2> DEFINE d == head.n - peer_init
             T(x) == x \in Stream /\ Exists(x)
  <2>1. /\ head.k = "SETTINGS" /\ read_state = 1 /\ streams' = streams
        /\ head.n \in Setting /\ peer_init' = head.n
        /\ out_window' \in [StreamId -> WindowRange] /\ ledger' \in [StreamId -> Int]
        /\ \A x \in StreamId :
             IF T(x) THEN out_window'[x] = Signed(out_window[x] + d) /\ ledger'[x] = ledger[x] + d
             ELSE out_window'[x] = out_window[x] /\ ledger'[x] = ledger[x]
    BY <1>2, <1>11, Settles DEF HandleSettings, At, TypeInv, Heading
  <2>2. /\ head.n \in Int /\ 0 <= head.n /\ head.n \in Announced
        /\ d \in Int /\ d = head.n - peer_init
    <3>1. head.n \in Nat /\ head.n \in Announced
      BY <2>1, AnnouncedTyped
    <3> QED
      BY <3>1, CreditTyped
  <2>3. \A x \in Stream : Exists(x) => ledger[x] + d < Half
    BY <1>3, <2>1 DEF Fitting
  <2>4. \A x \in Stream : Exists(x) =>
          /\ out_window[x] + d \in Int /\ Signed(out_window[x] + d) = out_window[x] + d
          /\ \E v \in Announced : out_window[x] + d >= head.n - v
    <3>1. SUFFICES ASSUME NEW x \in Stream, Exists(x)
                   PROVE  /\ out_window[x] + d \in Int
                          /\ Signed(out_window[x] + d) = out_window[x] + d
                          /\ \E v \in Announced : out_window[x] + d >= head.n - v
      OBVIOUS
    <3> DEFINE w == out_window[x]
               p == peer_init
               m == head.n
    <3>2. PICK v \in Announced : w >= p - v
      BY <1>3 DEF Credit
    <3>3. v \in Nat /\ v < Half
      BY AnnouncedTyped DEF Half
    <3>4. w \in Int /\ p \in Int /\ m \in Int /\ d \in Int /\ d = m - p /\ 0 <= m
      BY <2>2, CreditTyped
    <3>5. w + d < Half
      BY <1>5, <2>3, <3>1, CreditTyped
    <3> HIDE DEF w, p, m, d
    <3>6. w + d \in Int /\ w + d >= m - v /\ w + d >= -Half
      BY <3>2, <3>3, <3>4, Halves
    <3>7. Signed(w + d) = w + d
      BY <3>5, <3>6, Halves
    <3> QED
      BY <3>6, <3>7 DEF w, m
  <2> HIDE DEF d
  <2>5. \A x \in StreamId : out_window'[x] = ledger'[x]
    BY <1>5, <2>1, <2>4
  <2>6. out_window' = ledger'
    BY <2>1, <2>5
  <2>7. out_window'[0] >= 0
    BY <1>3, <2>1, CreditTyped DEF Credit
  <2>8. \A x \in Stream : \E v \in Announced : out_window'[x] >= head.n - v
    <3>1. TAKE x \in Stream
    <3>2. CASE Exists(x)
      BY <2>1, <2>4, <3>2, CreditTyped
    <3>3. CASE ~Exists(x)
      <4>1. out_window'[x] = out_window[x] /\ out_window[x] >= 0 /\ out_window[x] \in Int
        BY <1>3, <2>1, <3>3, CreditTyped DEF Unused
      <4>2. head.n \in Announced /\ head.n - head.n = 0
        BY <2>2
      <4>3. out_window'[x] >= head.n - head.n
        BY <4>1, <4>2
      <4> QED
        BY <4>2, <4>3
    <3> QED
      BY <3>2, <3>3
  <2>9. Unused'
    BY <1>3, <2>1, CreditTyped DEF Unused, Exists
  <2> QED
    BY <1>4, <2>1, <2>6, <2>7, <2>8, <2>9 DEF Balanced, Credit
<1>12. CASE HandleWindowUpdate
  <2> DEFINE s == head.s
             n == head.n
  <2>1. /\ UNCHANGED <<peer_init, streams>> /\ head.k = "WINDOW_UPDATE" /\ read_state = 1
        /\ s \in StreamId /\ n \in Nat
        /\ out_window' \in [StreamId -> WindowRange] /\ ledger' \in [StreamId -> Int]
        /\ out_window'[s] = Signed(out_window[s] + n) /\ ledger'[s] = ledger[s] + n
        /\ \A x \in StreamId \ {s} : out_window'[x] = out_window[x] /\ ledger'[x] = ledger[x]
    BY <1>2, <1>12, Grants DEF TypeInv, Heading
  <2>2. ledger[s] + n < Half /\ (s # 0 => s \in Stream /\ Exists(s))
    BY <1>3, <2>1 DEF Fitting
  <2>3. /\ out_window'[s] = out_window[s] + n /\ out_window[s] \in Int
        /\ out_window'[s] >= out_window[s] /\ out_window'[s] \in Int
    <3> DEFINE w == out_window[s]
    <3>1. w \in Int /\ -Half <= w /\ w + n < Half
      BY <1>5, <2>1, <2>2, CreditTyped
    <3> HIDE DEF w, n
    <3>2. w + n \in Int /\ -Half <= w + n /\ w + n >= w
      BY <2>1, <3>1, Halves
    <3>3. Signed(w + n) = w + n
      BY <3>1, <3>2, Halves
    <3> QED
      BY <2>1, <3>1, <3>2, <3>3 DEF w
  <2> HIDE DEF s, n
  <2>4. \A x \in StreamId : out_window'[x] = ledger'[x]
    BY <1>5, <2>1, <2>3
  <2>5. out_window' = ledger'
    BY <2>1, <2>4
  <2>6. \A x \in StreamId : out_window[x] \in Int /\ out_window'[x] \in Int
                            /\ out_window'[x] >= out_window[x]
    BY <2>1, <2>3, CreditTyped
  <2>7. out_window'[0] >= 0
    BY <1>3, <2>6, CreditTyped DEF Credit
  <2>8. \A x \in Stream : \E v \in Announced : out_window'[x] >= peer_init - v
    <3>1. TAKE x \in Stream
    <3>2. PICK v \in Announced : out_window[x] >= peer_init - v
      BY <1>3 DEF Credit
    <3> DEFINE w == out_window[x]
               u == out_window'[x]
               q == peer_init - v
    <3>3. w \in Int /\ u \in Int /\ u >= w /\ w >= q /\ q \in Int
      BY <2>6, <3>2, AnnouncedTyped, CreditTyped
    <3> HIDE DEF w, u, q
    <3>4. u >= q
      BY <3>3
    <3> QED
      BY <3>4 DEF u, q
  <2>9. Unused'
    BY <1>3, <2>1, <2>6, CreditTyped DEF Unused, Exists
  <2> QED
    BY <1>4, <2>1, <2>5, <2>7, <2>8, <2>9 DEF Balanced, Credit
<1> QED
  BY <1>6, <1>8, <1>9, <1>10, <1>11, <1>12 DEF Dispatch

(* WindowsKept: every variable keeps its type and every window the width of *)
(* an int32_t; without an increment beyond the largest window, and until a  *)
(* page or a backend's answer is sent, server and client agree on the       *)
(* windows, the connection's is never overdrawn and a stream's only by what *)
(* SETTINGS took back.                                                      *)
THEOREM WindowsCorrect == Spec => []WindowsKept
<1>1. Init => CreditInv
  <2> SUFFICES ASSUME Init PROVE CreditInv
    OBVIOUS
  <2>1. /\ out_window = [x \in Stream \cup {0} |-> InitWindow] /\ ledger = out_window
        /\ peer_init = InitWindow /\ read_state = 0 /\ streams = [s \in Stream |-> NoStream]
        /\ unpaid = [x \in Stream \cup {0} |-> 0]
    BY DEF Init
  <2>2. InitWindow >= 0 /\ InitWindow >= InitWindow - InitWindow /\ InitWindow \in Announced
    BY Halves, AnnouncedTyped
  <2>3. UnpaidTyped
    BY <2>1 DEF UnpaidTyped, StreamId
  <2>4. Credit
    BY <2>1, <2>2 DEF Credit
  <2> QED
    BY <2>1, <2>2, <2>3, <2>4 DEF CreditInv, Balanced, Fitting, Unused
<1>2. TypeInv /\ CreditInv /\ [Next]_vars => CreditInv'
  <2> SUFFICES ASSUME TypeInv, CreditInv, [Next]_vars PROVE CreditInv'
    OBVIOUS
  <2>0. UnpaidTyped' /\ (NothingUnpaid' => NothingUnpaid) /\ world' = world
    <3>1. world' = world
      BY WorldKept
    <3> QED
      BY <3>1, UnpaidStep DEF CreditInv
  <2> SUFFICES ASSUME NothingUnpaid, Without({"overflow"}) PROVE Balanced'
    BY <2>0 DEF CreditInv, Without
  <2>1. CASE UNCHANGED vars
    BY <2>1 DEF vars, session, flow, CreditInv, Balanced, Credit, Fitting, Unused, Exists
  <2>2. CASE FlushFails \/ EndOfFile \/ PayloadTooLong
    BY <2>2 DEF FlushFails, EndOfFile, PayloadTooLong, Close, CreditInv, Balanced, Credit, flow
  <2>3. CASE Dispatch
    BY <2>3, CreditDispatch
  <2>4. CASE \E s \in Stream : StreamTurn(s)
    BY <2>4, CreditTurns
  <2>5. CASE \/ Resume \/ NothingToFlush \/ WouldBlock \/ Collect \/ StreamsDone
             \/ \E n \in 0 .. Len(out.pending) : Flush(n)
             \/ \E n \in 1 .. Piece : ReadPreface(n) \/ ReadHeader(n)
             \/ \E n \in 0 .. Piece : ReadPayload(n)
    <3>1. Aside /\ pc # "closed"
      BY <2>5, LoopAside
    <3>2. UNCHANGED <<read_state, head>> \/ head' \in ClientFrame
      BY <2>5, LoopReads
    <3> QED
      BY <3>1, <3>2, CreditAside
  <2> QED
    BY <2>1, <2>2, <2>3, <2>4, <2>5 DEF Next, Step, Write, Read
<1>3. TypeInv /\ CreditInv => WindowsKept
  <2> SUFFICES ASSUME TypeInv, CreditInv PROVE TypeOK /\ CreditKept
    BY DEF WindowsKept
  <2>1. TypeOK
    BY DEF TypeInv, Typed
  <2>2. ASSUME Without({"overflow"}), NothingUnpaid
        PROVE  /\ \A x \in DOMAIN out_window : out_window[x] = View(x)
               /\ out_window[0] >= 0
               /\ \A s \in Stream : \E v \in Announced : out_window[s] >= peer_init - v
    <3>1. Credit
      BY <2>2 DEF CreditInv, Balanced
    <3>2. DOMAIN out_window = StreamId /\ \A x \in StreamId : View(x) = ledger[x]
      BY <2>2, CreditTyped, Viewed DEF CreditInv
    <3> QED
      BY <3>1, <3>2 DEF Credit
  <2> QED
    BY <2>1, <2>2 DEF CreditKept, NothingUnpaid, Announced
<1> QED
  BY <1>1, <1>2, <1>3, TypeInvariant, PTL DEF Spec

(***************************************************************************)
(* The order on the wire.                                                  *)
(***************************************************************************)

(* f has the buffered pieces of s up to each place, as in Buffered.        *)
Follows(s, n, f) ==
  f = [i \in 0 .. n |-> IF i = 0 THEN <<>> ELSE
                       IF s[i][1] = 0 THEN f[i - 1] ELSE Append(f[i - 1], s[i])]

Grow(w, l) == IF l[1] = 0 THEN w ELSE Append(w, l)

LEMMA FollowsExists ==
  ASSUME NEW s
  PROVE  \A n \in Nat : \E f : Follows(s, n, f)
<1> DEFINE Bad == {n \in Nat : ~ \E f : Follows(s, n, f)}
<1>1. SUFFICES ASSUME Bad # {} PROVE FALSE
  OBVIOUS
<1>2. PICK n \in Bad : \A m \in Bad : n <= m
  <2> HIDE DEF Bad
  <2>1. Bad \in SUBSET Nat
    BY DEF Bad
  <2> QED
    BY <1>1, <2>1, LeastNumber
<1>3. n \in Nat /\ ~ \E f : Follows(s, n, f)
  OBVIOUS
<1>4. n # 0
  <2>1. Follows(s, 0, [i \in 0 .. 0 |-> <<>>])
    BY DEF Follows
  <2> QED
    BY <1>3, <2>1
<1>5. PICK f : Follows(s, n - 1, f)
  <2>1. n - 1 \in Nat /\ n - 1 \notin Bad
    <3> HIDE DEF Bad
    <3> QED
      BY <1>2, <1>3, <1>4
  <2> QED
    BY <2>1
<1> DEFINE g == [i \in 0 .. n |-> IF i < n THEN f[i] ELSE Grow(f[n - 1], s[n])]
<1>6. \A i \in 0 .. n - 1 : f[i] = IF i = 0 THEN <<>> ELSE
                          IF s[i][1] = 0 THEN f[i - 1] ELSE Append(f[i - 1], s[i])
  BY <1>5 DEF Follows
<1>7. \A i \in 0 .. n : g[i] = IF i = 0 THEN <<>> ELSE
                          IF s[i][1] = 0 THEN g[i - 1] ELSE Append(g[i - 1], s[i])
  <2> TAKE i \in 0 .. n
  <2>1. CASE i < n
    <3>1. i \in 0 .. n - 1 /\ g[i] = f[i] /\ (i # 0 => g[i - 1] = f[i - 1])
      BY <1>3, <2>1
    <3> HIDE DEF g
    <3> QED
      BY <1>6, <3>1
  <2>2. CASE i = n
    BY <1>3, <1>4, <2>2 DEF Grow
  <2> QED
    BY <1>3, <2>1, <2>2
<1>9. Follows(s, n, g)
  <2>1. g = [i \in 0 .. n |-> g[i]]
    OBVIOUS
  <2> HIDE DEF g
  <2> QED
    BY <1>7, <2>1 DEF Follows
<1> QED
  BY <1>3, <1>9

LEMMA BufferedFollows ==
  ASSUME NEW s, Len(s) \in Nat
  PROVE  \E f : Follows(s, Len(s), f) /\ Buffered(s) = f[Len(s)]
<1>1. \E f : Follows(s, Len(s), f)
  BY FollowsExists
<1> DEFINE f == CHOOSE f : Follows(s, Len(s), f)
<1>2. Follows(s, Len(s), f)
  BY <1>1
<1>3. Buffered(s) = f[Len(s)]
  BY DEF Buffered, Follows
<1> QED
  BY <1>2, <1>3

LEMMA FollowsAt ==
  ASSUME NEW s, NEW n \in Nat, NEW f, Follows(s, n, f)
  PROVE  f[0] = <<>> /\ \A i \in 1 .. n : f[i] = Grow(f[i - 1], s[i])
<1>1. \A i \in 0 .. n : f[i] = IF i = 0 THEN <<>> ELSE
                          IF s[i][1] = 0 THEN f[i - 1] ELSE Append(f[i - 1], s[i])
  BY DEF Follows
<1> QED
  BY <1>1 DEF Grow

(* What holds at 0 and goes on from each number to the next holds up to n. *)
LEMMA FollowsFrom ==
  ASSUME NEW n \in Nat, NEW G \in SUBSET (0 .. n), 0 \in G,
         \A i \in 1 .. n : i - 1 \in G => i \in G
  PROVE  G = 0 .. n
<1> DEFINE Bad == {i \in 0 .. n : i \notin G}
<1>1. SUFFICES ASSUME Bad # {} PROVE FALSE
  OBVIOUS
<1>2. PICK m \in Bad : \A k \in Bad : m <= k
  <2> HIDE DEF Bad
  <2>1. Bad \in SUBSET Nat
    BY DEF Bad
  <2> QED
    BY <1>1, <2>1, LeastNumber
<1>3. m \in 1 .. n /\ m \notin G
  OBVIOUS
<1>4. m - 1 \in 0 .. n /\ m - 1 \notin Bad
  <2> HIDE DEF Bad
  <2> QED
    BY <1>2, <1>3
<1> QED
  BY <1>3, <1>4

LEMMA FollowsSame ==
  ASSUME NEW s, NEW t, NEW n \in Nat, NEW m \in Nat, n <= m,
         NEW f, NEW g, Follows(s, n, f), Follows(t, m, g),
         \A i \in 1 .. n : s[i] = t[i]
  PROVE  \A i \in 0 .. n : f[i] = g[i]
<1> DEFINE G == {i \in 0 .. n : f[i] = g[i]}
<1>1. 0 \in G
  BY FollowsAt
<1>2. ASSUME NEW i \in 1 .. n, i - 1 \in G PROVE i \in G
  <2>1. f[i] = Grow(f[i - 1], s[i]) /\ g[i] = Grow(g[i - 1], t[i])
    BY FollowsAt
  <2> QED
    BY <1>2, <2>1
<1>3. G = 0 .. n
  <2>1. G \in SUBSET (0 .. n)
    OBVIOUS
  <2> HIDE DEF G
  <2> QED
    BY <1>1, <1>2, <2>1, FollowsFrom
<1> QED
  BY <1>3

(* What Buffered makes of no piece, and of one more at the end.            *)
LEMMA BufferedTyped ==
  ASSUME NEW L, NEW s \in Seq(L)
  PROVE  Buffered(s) \in Seq(L)
<1>1. PICK f : Follows(s, Len(s), f) /\ Buffered(s) = f[Len(s)]
  BY BufferedFollows
<1> DEFINE n == Len(s)
           G == {i \in 0 .. n : f[i] \in Seq(L)}
<1>2. n \in Nat
  OBVIOUS
<1>3. 0 \in G
  <2>1. f[0] = <<>> /\ <<>> \in Seq(L)
    BY <1>1, <1>2, FollowsAt
  <2>2. 0 \in 0 .. n
    BY <1>2
  <2> QED
    BY <2>1, <2>2
<1>4. ASSUME NEW i \in 1 .. n, i - 1 \in G PROVE i \in G
  <2>1. f[i] = Grow(f[i - 1], s[i])
    BY <1>1, <1>2, FollowsAt
  <2>2. s[i] \in L
    OBVIOUS
  <2>3. f[i - 1] \in Seq(L)
    BY <1>4
  <2>4. f[i] \in Seq(L)
    BY <2>1, <2>2, <2>3 DEF Grow
  <2> QED
    BY <1>2, <2>4
<1>5. G = 0 .. n
  <2>1. G \in SUBSET (0 .. n)
    OBVIOUS
  <2> HIDE DEF G, n
  <2> QED
    BY <1>2, <1>3, <1>4, <2>1, FollowsFrom
<1> QED
  BY <1>1, <1>2, <1>5

LEMMA BufferedNone == Buffered(<<>>) = <<>>
<1>1. PICK f : Follows(<<>>, Len(<<>>), f) /\ Buffered(<<>>) = f[Len(<<>>)]
  BY BufferedFollows
<1>2. Len(<<>>) = 0
  OBVIOUS
<1> QED
  BY <1>1, <1>2, FollowsAt

LEMMA BufferedAppend ==
  ASSUME NEW L, NEW s \in Seq(L), NEW l \in L
  PROVE  Buffered(Append(s, l)) = Grow(Buffered(s), l)
<1> DEFINE t == Append(s, l)
           n == Len(s)
<1>1. n \in Nat /\ Len(t) = n + 1 /\ t[n + 1] = l /\ \A i \in 1 .. n : s[i] = t[i]
  OBVIOUS
<1>2. PICK f : Follows(s, n, f) /\ Buffered(s) = f[n]
  BY <1>1, BufferedFollows
<1>3. PICK g : Follows(t, n + 1, g) /\ Buffered(t) = g[n + 1]
  <2> HIDE DEF t
  <2> QED
    BY <1>1, BufferedFollows
<1> HIDE DEF t, n
<1>4. f[n] = g[n]
  BY <1>1, <1>2, <1>3, FollowsSame
<1>5. g[n + 1] = Grow(g[n], l)
  <2>1. g[n + 1] = Grow(g[n + 1 - 1], t[n + 1])
    BY <1>1, <1>3, FollowsAt
  <2> QED
    BY <1>1, <2>1
<1> QED
  BY <1>2, <1>3, <1>4, <1>5 DEF t

Pieces  == Nat \X Nat
Counted == (Nat \ {0}) \X Nat

(* The first i elements of t are the first i - 1 and one more.             *)
LEMMA OneMore ==
  ASSUME NEW S, NEW s \in Seq(S), NEW t \in Seq(S), NEW i \in 1 .. Len(t)
  PROVE  /\ s \o SubSeq(t, 1, i) = Append(s \o SubSeq(t, 1, i - 1), t[i])
         /\ SubSeq(t, 1, i) = Append(SubSeq(t, 1, i - 1), t[i])
         /\ s \o SubSeq(t, 1, i - 1) \in Seq(S) /\ SubSeq(t, 1, i - 1) \in Seq(S)
         /\ t[i] \in S
<1> DEFINE a == SubSeq(t, 1, i - 1)
           b == SubSeq(t, 1, i)
           x == t[i]
<1>1. x \in S /\ i \in Nat /\ i <= Len(t) /\ 1 <= i /\ Len(t) \in Nat
  OBVIOUS
<1>2. a \in Seq(S) /\ Len(a) = i - 1 /\ \A k \in 1 .. i - 1 : a[k] = t[k]
  BY <1>1
<1>3. b \in Seq(S) /\ Len(b) = i /\ \A k \in 1 .. i : b[k] = t[k]
  BY <1>1
<1>4. b = Append(a, x)
  <2>1. Len(b) = Len(Append(a, x)) /\ \A k \in 1 .. i : b[k] = Append(a, x)[k]
    BY <1>1, <1>2, <1>3
  <2>2. Append(a, x) \in Seq(S)
    BY <1>1, <1>2
  <2> HIDE DEF a, b, x
  <2> QED
    BY <1>3, <2>1, <2>2
<1> HIDE DEF a, b, x
<1>5. s \o Append(a, x) = Append(s \o a, x)
  BY <1>1, <1>2
<1>6. s \o a \in Seq(S)
  BY <1>2
<1> QED
  BY <1>1, <1>2, <1>4, <1>5, <1>6 DEF a, b, x

(* Pieces of buffered frames are kept, those written directly are not.     *)
LEMMA BufferedConcat ==
  ASSUME NEW s \in Seq(Pieces), NEW t \in Seq(Counted)
  PROVE  Buffered(s \o t) = Buffered(s) \o t
<1> DEFINE n == Len(t)
           G == {i \in 0 .. n : Buffered(s \o SubSeq(t, 1, i)) = Buffered(s) \o SubSeq(t, 1, i)}
<1>1. n \in Nat /\ t \in Seq(Pieces) /\ Buffered(s) \in Seq(Pieces)
  <2>1. Counted \subseteq Pieces
    BY DEF Counted, Pieces
  <2> QED
    BY <2>1, BufferedTyped
<1>2. 0 \in G
  <2> DEFINE a == SubSeq(t, 1, 0)
             w == Buffered(s)
  <2>1. a = <<>> /\ w \in Seq(Pieces)
    BY <1>1
  <2> HIDE DEF a, w
  <2>2. s \o a = s /\ w \o a = w
    BY <2>1
  <2>3. Buffered(s \o a) = w \o a
    BY <2>2 DEF w
  <2> QED
    BY <1>1, <2>3 DEF a, w
<1>3. ASSUME NEW i \in 1 .. n, i - 1 \in G PROVE i \in G
  <2> DEFINE a == SubSeq(t, 1, i - 1)
             b == SubSeq(t, 1, i)
             x == t[i]
             w == Buffered(s)
  <2>1. s \o b = Append(s \o a, x) /\ b = Append(a, x) /\ s \o a \in Seq(Pieces)
        /\ a \in Seq(Pieces) /\ x \in Pieces
    <3>1. /\ s \in Seq(Pieces) /\ t \in Seq(Pieces)
          /\ i \in 1 .. Len(t)
      BY <1>1
    <3> HIDE DEF G
    <3> QED
      BY <3>1, OneMore
  <2>2. x[1] # 0
    BY <1>1 DEF Counted
  <2>3. Buffered(s \o a) = w \o a
    BY <1>3
  <2>4. w \in Seq(Pieces)
    BY <1>1
  <2> HIDE DEF a, b, x, w
  <2>5. Buffered(Append(s \o a, x)) = Append(w \o a, x)
    BY <2>1, <2>2, <2>3, BufferedAppend DEF Grow
  <2>6. w \o Append(a, x) = Append(w \o a, x)
    BY <2>1, <2>4
  <2>7. Buffered(s \o b) = w \o b
    BY <2>1, <2>5, <2>6
  <2> QED
    BY <1>1, <2>7 DEF b, w
<1>4. G = 0 .. n
  <2>1. G \in SUBSET (0 .. n)
    OBVIOUS
  <2> HIDE DEF G, n
  <2> QED
    BY <1>1, <1>2, <1>3, <2>1, FollowsFrom
<1> DEFINE u == SubSeq(t, 1, n)
<1>5. u = t
  BY <1>1
<1>6. Buffered(s \o u) = Buffered(s) \o u
  <2>1. n \in G
    <3> HIDE DEF G
    <3> QED
      BY <1>1, <1>4
  <2> QED
    BY <2>1
<1> HIDE DEF u
<1> QED
  BY <1>5, <1>6

LEMMA BufferedDirect ==
  ASSUME NEW s \in Seq(Pieces), NEW t \in Seq(Pieces), \A j \in 1 .. Len(t) : t[j][1] = 0
  PROVE  Buffered(s \o t) = Buffered(s)
<1> DEFINE n == Len(t)
           G == {i \in 0 .. n : Buffered(s \o SubSeq(t, 1, i)) = Buffered(s)}
<1>1. n \in Nat
  OBVIOUS
<1>2. 0 \in G
  <2> DEFINE a == SubSeq(t, 1, 0)
  <2>1. a = <<>>
    BY <1>1
  <2> HIDE DEF a
  <2>2. s \o a = s
    BY <2>1
  <2>3. Buffered(s \o a) = Buffered(s)
    BY <2>2
  <2> QED
    BY <1>1, <2>3 DEF a
<1>3. ASSUME NEW i \in 1 .. n, i - 1 \in G PROVE i \in G
  <2> DEFINE a == SubSeq(t, 1, i - 1)
             b == SubSeq(t, 1, i)
             x == t[i]
  <2>1. s \o b = Append(s \o a, x) /\ s \o a \in Seq(Pieces) /\ x \in Pieces
        /\ a \in Seq(Pieces)
    <3> HIDE DEF G
    <3> QED
      BY OneMore
  <2>2. x[1] = 0
    BY <1>1
  <2>3. Buffered(s \o a) = Buffered(s)
    BY <1>3
  <2> HIDE DEF a, b, x
  <2>4. Buffered(Append(s \o a, x)) = Buffered(s)
    BY <2>1, <2>2, <2>3, BufferedAppend DEF Grow
  <2>5. Buffered(s \o b) = Buffered(s)
    BY <2>1, <2>4
  <2> QED
    BY <1>1, <2>5 DEF b
<1>4. G = 0 .. n
  <2>1. G \in SUBSET (0 .. n)
    OBVIOUS
  <2> HIDE DEF G, n
  <2> QED
    BY <1>1, <1>2, <1>3, <2>1, FollowsFrom
<1> DEFINE u == SubSeq(t, 1, n)
<1>5. u = t
  BY <1>1
<1>6. Buffered(s \o u) = Buffered(s)
  <2>1. n \in G
    <3> HIDE DEF G
    <3> QED
      BY <1>1, <1>4
  <2> QED
    BY <2>1
<1> HIDE DEF u
<1> QED
  BY <1>5, <1>6

LEMMA PiecesTyped ==
  ASSUME NEW i \in Nat
  PROVE  /\ PiecesOf(i) \in Seq(Pieces) /\ Len(PiecesOf(i)) = 2
         /\ PiecesOf(i)[1] = <<i, 1>> /\ PiecesOf(i)[2] = <<i, 2>>
         /\ i # 0 => PiecesOf(i) \in Seq(Counted)
<1> DEFINE P == PiecesOf(i)
<1>1. P = [p \in 1 .. 2 |-> <<i, p>>]
  BY DEF PiecesOf, Piece
<1>2. P \in [1 .. 2 -> Pieces] /\ (i # 0 => P \in [1 .. 2 -> Counted])
  BY <1>1 DEF Pieces, Counted
<1>3. P[1] = <<i, 1>> /\ P[2] = <<i, 2>>
  BY <1>1
<1> HIDE DEF P
<1>4. \A S : P \in [1 .. 2 -> S] => P \in Seq(S) /\ Len(P) = 2
  <2> SUFFICES ASSUME NEW S, P \in [1 .. 2 -> S] PROVE P \in Seq(S) /\ Len(P) = 2
    OBVIOUS
  <2> DEFINE n == 2
  <2>1. n \in Nat /\ P \in [1 .. n -> S]
    OBVIOUS
  <2> HIDE DEF n
  <2>2. P \in Seq(S) /\ Len(P) = n
    BY <2>1
  <2> QED
    BY <2>2 DEF n
<1> QED
  BY <1>2, <1>3, <1>4 DEF P

LEMMA AllPiecesNext ==
  ASSUME NEW n \in Nat
  PROVE  /\ AllPieces(n) \in Seq(Counted)
         /\ AllPieces(n + 1) = AllPieces(n) \o PiecesOf(n + 1)
<1>1. \A m \in Nat : /\ AllPieces(m) = [k \in 1 .. 2 * m |-> <<1 + ((k - 1) \div 2), 1 + ((k - 1) % 2)>>]
                     /\ AllPieces(m) \in [1 .. 2 * m -> Counted]
                     /\ AllPieces(m) \in Seq(Counted) /\ Len(AllPieces(m)) = 2 * m
  <2>1. TAKE m \in Nat
  <2> DEFINE f == [k \in 1 .. 2 * m |-> <<1 + ((k - 1) \div 2), 1 + ((k - 1) % 2)>>]
  <2>2. AllPieces(m) = f
    BY DEF AllPieces, Piece
  <2>3. \A k \in 1 .. 2 * m : /\ 1 + ((k - 1) \div 2) \in Nat \ {0}
                              /\ 1 + ((k - 1) % 2) \in Nat
    OBVIOUS
  <2>4. f \in [1 .. 2 * m -> Counted]
    BY <2>3 DEF Counted
  <2> HIDE DEF f
  <2>5. 2 * m \in Nat
    OBVIOUS
  <2>6. f \in Seq(Counted) /\ Len(f) = 2 * m
    BY <2>4, <2>5
  <2> QED
    BY <2>2, <2>4, <2>6 DEF f
<1> DEFINE a == AllPieces(n)
           b == AllPieces(n + 1)
           p == PiecesOf(n + 1)
<1>2. /\ a \in Seq(Counted) /\ Len(a) = 2 * n
      /\ b \in Seq(Counted) /\ Len(b) = 2 * n + 2
  BY <1>1
<1>3. p \in Seq(Counted) /\ Len(p) = 2 /\ p[1] = <<n + 1, 1>> /\ p[2] = <<n + 1, 2>>
  BY PiecesTyped
<1> DEFINE f(m) == [k \in 1 .. 2 * m |-> <<1 + ((k - 1) \div 2), 1 + ((k - 1) % 2)>>]
<1>0. a = f(n) /\ b = f(n + 1)
  BY DEF AllPieces, Piece
<1>4. \A k \in 1 .. 2 * n : b[k] = a[k]
  <2>1. TAKE k \in 1 .. 2 * n
  <2>2. k \in 1 .. 2 * (n + 1)
    OBVIOUS
  <2>3. f(n)[k] = f(n + 1)[k]
    BY <2>2
  <2> HIDE DEF f, a, b
  <2> QED
    BY <1>0, <2>3
<1>5. b[2 * n + 1] = <<n + 1, 1>>
  <2>1. 2 * n + 1 \in 1 .. 2 * (n + 1)
    OBVIOUS
  <2>2. f(n + 1)[2 * n + 1] = <<1 + ((2 * n + 1 - 1) \div 2), 1 + ((2 * n + 1 - 1) % 2)>>
    BY <2>1
  <2>3. (2 * n + 1 - 1) \div 2 = n /\ (2 * n + 1 - 1) % 2 = 0
    OBVIOUS
  <2>4. f(n + 1)[2 * n + 1] = <<n + 1, 1>>
    BY <2>2, <2>3
  <2> HIDE DEF f, a, b
  <2> QED
    BY <1>0, <2>4
<1>6. b[2 * n + 2] = <<n + 1, 2>>
  <2>1. 2 * n + 2 \in 1 .. 2 * (n + 1)
    OBVIOUS
  <2>2. f(n + 1)[2 * n + 2] = <<1 + ((2 * n + 2 - 1) \div 2), 1 + ((2 * n + 2 - 1) % 2)>>
    BY <2>1
  <2>3. (2 * n + 2 - 1) \div 2 = n /\ (2 * n + 2 - 1) % 2 = 1
    OBVIOUS
  <2>4. f(n + 1)[2 * n + 2] = <<n + 1, 2>>
    BY <2>2, <2>3
  <2> HIDE DEF f, a, b
  <2> QED
    BY <1>0, <2>4
<1> HIDE DEF a, b, p
<1>7. b = a \o p
  <2> DEFINE c == a \o p
  <2>1. /\ c \in Seq(Counted) /\ Len(c) = 2 * n + 2
        /\ \A k \in 1 .. 2 * n + 2 : c[k] = IF k <= 2 * n THEN a[k] ELSE p[k - 2 * n]
    <3> DEFINE d == 2 * n
    <3>1. d \in Nat /\ Len(a) = d /\ Len(p) = 2
      BY <1>2, <1>3
    <3> HIDE DEF c, d
    <3>2. /\ c \in Seq(Counted) /\ Len(c) = Len(a) + Len(p)
          /\ \A k \in 1 .. Len(a) + Len(p) : c[k] = IF k <= Len(a) THEN a[k] ELSE p[k - Len(a)]
      BY <1>2, <1>3, ConcatProperties DEF c
    <3>3. /\ c \in Seq(Counted) /\ Len(c) = d + 2
          /\ \A k \in 1 .. d + 2 : c[k] = IF k <= d THEN a[k] ELSE p[k - d]
      BY <3>1, <3>2
    <3> QED
      BY <3>3 DEF d
  <2> HIDE DEF c
  <2>2. \A k \in 1 .. 2 * n + 2 : c[k] = b[k]
    <3>1. TAKE k \in 1 .. 2 * n + 2
    <3>2. c[k] = IF k <= 2 * n THEN a[k] ELSE p[k - 2 * n]
      BY <2>1
    <3>3. k <= 2 * n \/ (k = 2 * n + 1 /\ k - 2 * n = 1) \/ (k = 2 * n + 2 /\ k - 2 * n = 2)
      OBVIOUS
    <3>4. k = 2 * n + 1 \/ k = 2 * n + 2 => ~ (k <= 2 * n)
      OBVIOUS
    <3>5. k <= 2 * n => k \in 1 .. 2 * n
      OBVIOUS
    <3> QED
      BY <1>3, <1>4, <1>5, <1>6, <3>2, <3>3, <3>4, <3>5
  <2>3. c = b
    BY <1>2, <2>1, <2>2, SeqEqual
  <2> QED
    BY <2>3 DEF c
<1> QED
  BY <1>2, <1>7 DEF a, b, p

LEMMA NoPieces == AllPieces(0) = <<>>
<1>1. AllPieces(0) \in Seq(Counted) /\ Len(AllPieces(0)) = 0
  <2>1. AllPieces(0) = [k \in 1 .. 0 |-> <<1 + ((k - 1) \div 2), 1 + ((k - 1) % 2)>>]
    BY DEF AllPieces, Piece
  <2> DEFINE f == [k \in 1 .. 0 |-> <<1 + ((k - 1) \div 2), 1 + ((k - 1) % 2)>>]
  <2>2. f \in [1 .. 0 -> Counted]
    OBVIOUS
  <2> HIDE DEF f
  <2>3. f \in Seq(Counted) /\ Len(f) = 0
    BY <2>2
  <2> QED
    BY <2>1, <2>3 DEF f
<1> QED
  BY <1>1

(* What the socket and the buffer hold, and the frames they come from.     *)
Output(o) ==
  /\ o = [wire |-> o.wire, pending |-> o.pending, asked |-> o.asked, error |-> o.error]
  /\ o.wire \in Seq(Pieces) /\ o.pending \in Seq(Counted)
  /\ \E A : o.asked \in Seq(A)

Ordered(o) ==
  o.error \/ Buffered(o.wire) \o o.pending = AllPieces(Len(o.asked))

(* A write moves pieces, whatever the socket takes.                        *)
LEMMA MovePieces ==
  ASSUME NEW w \in Seq(Pieces), NEW ps \in Seq(Counted), NEW n \in 0 .. Len(ps)
  PROVE  /\ w \o SubSeq(ps, 1, n) \in Seq(Pieces)
         /\ SubSeq(ps, n + 1, Len(ps)) \in Seq(Counted)
         /\ Buffered(w \o SubSeq(ps, 1, n)) \o SubSeq(ps, n + 1, Len(ps)) = Buffered(w) \o ps
<1> DEFINE a == SubSeq(ps, 1, n)
           b == SubSeq(ps, n + 1, Len(ps))
           u == Buffered(w)
<1>1. a \in Seq(Counted) /\ b \in Seq(Counted) /\ ps = a \o b
  <2> DEFINE m == Len(ps)
  <2>1. m \in Nat /\ n \in Nat /\ n <= m
    OBVIOUS
  <2>2. a \in Seq(Counted) /\ b \in Seq(Counted)
    BY <2>1
  <2>3. a \o b = ps
    <3>1. 1 \in 1 .. m + 1 /\ n \in 1 - 1 .. m /\ m \in n .. m
      BY <2>1
    <3>2. a \o b = SubSeq(ps, 1, m)
      BY <3>1, ConcatAdjacentSubSeq
    <3>3. SubSeq(ps, 1, m) = ps
      BY SubSeqFull
    <3> QED
      BY <3>2, <3>3
  <2> QED
    BY <2>2, <2>3
<1>2. Counted \subseteq Pieces
  BY DEF Counted, Pieces
<1>3. a \in Seq(Pieces) /\ b \in Seq(Pieces)
  <2> HIDE DEF a, b
  <2> QED
    BY <1>1, <1>2, SeqMonotonic
<1>4. u \in Seq(Pieces)
  BY BufferedTyped
<1>5. Buffered(w \o a) = u \o a
  BY <1>1, BufferedConcat
<1> HIDE DEF a, b, u
<1>6. (u \o a) \o b = u \o (a \o b)
  BY <1>3, <1>4, ConcatAssociative
<1>7. w \o a \in Seq(Pieces)
  BY <1>3, ConcatProperties
<1>8. Buffered(w \o a) \o b = u \o ps
  BY <1>1, <1>5, <1>6
<1> QED
  BY <1>1, <1>7, <1>8 DEF a, b, u

LEMMA WriteKeeps ==
  ASSUME NEW o, Output(o), NEW ps \in Seq(Counted), NEW total,
         o.error \/ (Buffered(o.wire) \o o.pending) \o ps = total,
         NEW x \in WriteOrBuffer(o, ps)
  PROVE  /\ Output(x) /\ x.asked = o.asked
         /\ x.error \/ Buffered(x.wire) \o x.pending = total
<1> DEFINE w == o.wire
           p == o.pending
           u == Buffered(w)
<1>1. /\ w \in Seq(Pieces) /\ p \in Seq(Counted) /\ u \in Seq(Pieces)
      /\ p \in Seq(Pieces) /\ ps \in Seq(Pieces) /\ p \o ps \in Seq(Counted)
  <2>1. Counted \subseteq Pieces
    BY DEF Counted, Pieces
  <2>2. w \in Seq(Pieces) /\ p \in Seq(Counted)
    BY DEF Output
  <2>3. u \in Seq(Pieces)
    BY <2>2, BufferedTyped
  <2>4. p \in Seq(Pieces) /\ ps \in Seq(Pieces)
    BY <2>1, <2>2, SeqMonotonic
  <2>5. p \o ps \in Seq(Counted)
    BY <2>2, ConcatProperties
  <2> QED
    BY <2>2, <2>3, <2>4, <2>5
<1>2. PICK A : o.asked \in Seq(A)
  BY DEF Output
<1>3. o = [wire |-> w, pending |-> p, asked |-> o.asked, error |-> o.error]
  BY DEF Output
<1>4. CASE Pending(o)
  <2> DEFINE r == [o EXCEPT !.pending = p \o ps]
  <2>1. x = r
    BY <1>4 DEF WriteOrBuffer
  <2>2. r = [wire |-> w, pending |-> p \o ps, asked |-> o.asked, error |-> o.error]
    <3> DEFINE q == p \o ps
    <3> HIDE DEF q
    <3>1. [o EXCEPT !.pending = q] = [wire |-> w, pending |-> q, asked |-> o.asked, error |-> o.error]
      BY <1>3
    <3> QED
      BY <3>1 DEF q
  <2> HIDE DEF r, w, p
  <2>3. /\ x = [wire |-> x.wire, pending |-> x.pending, asked |-> x.asked, error |-> x.error]
        /\ x.wire = w /\ x.pending = p \o ps /\ x.asked = o.asked /\ x.error = o.error
    BY <2>1, <2>2
  <2>4. Output(x)
    BY <1>1, <1>2, <2>3 DEF Output
  <2>5. (u \o p) \o ps = u \o (p \o ps)
    <3> HIDE DEF u
    <3> QED
      BY <1>1, ConcatAssociative
  <2> HIDE DEF u
  <2>6. x.error \/ Buffered(x.wire) \o x.pending = total
    BY <2>3, <2>5 DEF u, w, p
  <2> QED
    BY <2>3, <2>4, <2>6
<1>5. ASSUME ~Pending(o), NEW n \in 0 .. Len(ps),
             x = [Written(o, ps, n) EXCEPT !.pending = SubSeq(ps, n + 1, Len(ps))]
      PROVE  /\ Output(x) /\ x.asked = o.asked
             /\ x.error \/ Buffered(x.wire) \o x.pending = total
  <2> DEFINE a == w \o SubSeq(ps, 1, n)
             b == SubSeq(ps, n + 1, Len(ps))
  <2>1. a \in Seq(Pieces) /\ b \in Seq(Counted) /\ Buffered(a) \o b = u \o ps
    BY <1>1, MovePieces
  <2>2. x = [[o EXCEPT !.wire = a] EXCEPT !.pending = b]
    BY <1>5 DEF Written
  <2>3. p = <<>>
    BY <1>5 DEF Pending
  <2> HIDE DEF a, b, w, p
  <2>4. x = [wire |-> a, pending |-> b, asked |-> o.asked, error |-> o.error]
    BY <1>3, <2>2
  <2>5. Output(x) /\ x.asked = o.asked
    BY <1>2, <2>1, <2>4 DEF Output
  <2>6. x.wire = a /\ x.pending = b /\ x.error = o.error
    BY <2>4
  <2>7. u \o p = u
    <3> HIDE DEF u
    <3> QED
      BY <1>1, <2>3, ConcatEmptySeq
  <2>8. x.error \/ Buffered(x.wire) \o x.pending = total
    <3>1. o.error \/ (u \o p) \o ps = total
      BY DEF u, w, p
    <3> HIDE DEF u
    <3> QED
      BY <2>1, <2>6, <2>7, <3>1
  <2> QED
    BY <2>5, <2>8
<1>6. ASSUME x = [o EXCEPT !.error = TRUE]
      PROVE  /\ Output(x) /\ x.asked = o.asked
             /\ x.error \/ Buffered(x.wire) \o x.pending = total
  <2> DEFINE e == TRUE
  <2>0. e
    OBVIOUS
  <2>1. x = [o EXCEPT !.error = e]
    BY <1>6
  <2> HIDE DEF w, p, e
  <2>2. x = [wire |-> w, pending |-> p, asked |-> o.asked, error |-> e]
    BY <1>3, <2>1
  <2>3. Output(x) /\ x.asked = o.asked /\ x.error = e
    BY <1>1, <1>2, <2>2 DEF Output
  <2> QED
    BY <2>0, <2>3
<1>7. CASE ~Pending(o)
  <2>1. \/ \E n \in 0 .. Len(ps) :
             x = [Written(o, ps, n) EXCEPT !.pending = SubSeq(ps, n + 1, Len(ps))]
        \/ x = [o EXCEPT !.error = TRUE]
    BY <1>7 DEF WriteOrBuffer
  <2> QED
    BY <1>5, <1>6, <1>7, <2>1
<1> QED
  BY <1>4, <1>7

(* http2_frame_send keeps the order, and the list of frames grows by the   *)
(* one it was given unless that is too long.                               *)
LEMMA FrameSendKeeps ==
  ASSUME NEW o, Output(o), NEW f, NEW x \in FrameSend(o, f)
  PROVE  /\ Output(x) /\ (Ordered(o) => Ordered(x))
         /\ ~ (f.n > FrameMax) => x.asked = Append(o.asked, f)
<1>1. CASE f.n > FrameMax
  <2>1. x = o
    BY <1>1 DEF FrameSend
  <2> QED
    BY <1>1, <2>1
<1>2. CASE ~ (f.n > FrameMax)
  <2>1. PICK A : o.asked \in Seq(A)
    BY DEF Output
  <2> DEFINE k == Len(o.asked)
             q == Append(o.asked, f)
             r == [o EXCEPT !.asked = q]
             ps == PiecesOf(k + 1)
  <2>2. k \in Nat /\ Len(q) = k + 1 /\ \E B : q \in Seq(B)
    <3>1. o.asked \in Seq(A \cup {f}) /\ f \in A \cup {f}
      BY <2>1, SeqMonotonic
    <3>2. q \in Seq(A \cup {f}) /\ Len(q) = k + 1 /\ k \in Nat
      BY <3>1
    <3> QED
      BY <3>2
  <2>3. x \in WriteOrBuffer(r, ps)
    BY <1>2 DEF FrameSend
  <2>4. o = [wire |-> o.wire, pending |-> o.pending, asked |-> o.asked, error |-> o.error]
        /\ o.wire \in Seq(Pieces) /\ o.pending \in Seq(Counted)
    BY DEF Output
  <2> HIDE DEF q, k, ps
  <2>5. r = [wire |-> o.wire, pending |-> o.pending, asked |-> q, error |-> o.error]
    BY <2>4
  <2> HIDE DEF r
  <2>6. /\ r.wire = o.wire /\ r.pending = o.pending /\ r.asked = q /\ r.error = o.error
        /\ Output(r)
    BY <2>2, <2>4, <2>5 DEF Output
  <2>7. ps \in Seq(Counted) /\ AllPieces(k + 1) = AllPieces(k) \o ps
    <3>1. k + 1 \in Nat /\ k + 1 # 0
      BY <2>2
    <3> QED
      BY <2>2, <3>1, PiecesTyped, AllPiecesNext DEF ps
  <2>8. ASSUME NEW total, o.error \/ (Buffered(o.wire) \o o.pending) \o ps = total
        PROVE  /\ Output(x) /\ x.asked = q
               /\ x.error \/ Buffered(x.wire) \o x.pending = total
    BY <2>3, <2>6, <2>7, <2>8, WriteKeeps
  <2>9. Output(x) /\ x.asked = q
    BY <2>8
  <2>10. ASSUME Ordered(o) PROVE Ordered(x)
    <3>1. o.error \/ (Buffered(o.wire) \o o.pending) \o ps = AllPieces(k + 1)
      BY <2>7, <2>10 DEF Ordered, k
    <3>2. x.error \/ Buffered(x.wire) \o x.pending = AllPieces(k + 1)
      BY <2>8, <3>1
    <3> QED
      BY <2>2, <2>9, <3>2 DEF Ordered
  <2> QED
    BY <1>2, <2>9, <2>10 DEF q
<1> QED
  BY <1>1, <1>2

(* f has what may be left after each of the frames fs, as in SendAll.      *)
After(o, fs, n, f) ==
  f = [i \in 0 .. n |-> IF i = 0 THEN {o} ELSE UNION {FrameSend(x, fs[i]) : x \in f[i - 1]}]

More(S, g) == UNION {FrameSend(x, g) : x \in S}

LEMMA AfterExists ==
  ASSUME NEW o, NEW s
  PROVE  \A n \in Nat : \E f : After(o, s, n, f)
<1> DEFINE Bad == {n \in Nat : ~ \E f : After(o, s, n, f)}
<1>1. SUFFICES ASSUME Bad # {} PROVE FALSE
  OBVIOUS
<1>2. PICK n \in Bad : \A m \in Bad : n <= m
  <2> HIDE DEF Bad
  <2>1. Bad \in SUBSET Nat
    BY DEF Bad
  <2> QED
    BY <1>1, <2>1, LeastNumber
<1>3. n \in Nat /\ ~ \E f : After(o, s, n, f)
  OBVIOUS
<1>4. n # 0
  <2>1. After(o, s, 0, [i \in 0 .. 0 |-> {o}])
    BY DEF After
  <2> QED
    BY <1>3, <2>1
<1>5. PICK f : After(o, s, n - 1, f)
  <2>1. n - 1 \in Nat /\ n - 1 \notin Bad
    <3> HIDE DEF Bad
    <3> QED
      BY <1>2, <1>3, <1>4
  <2> QED
    BY <2>1
<1> DEFINE g == [i \in 0 .. n |-> IF i < n THEN f[i] ELSE More(f[n - 1], s[n])]
<1>6. \A i \in 0 .. n - 1 : f[i] = IF i = 0 THEN {o} ELSE UNION {FrameSend(x, s[i]) : x \in f[i - 1]}
  BY <1>5 DEF After
<1>7. \A i \in 0 .. n : g[i] = IF i = 0 THEN {o} ELSE UNION {FrameSend(x, s[i]) : x \in g[i - 1]}
  <2> TAKE i \in 0 .. n
  <2>1. CASE i < n
    <3>1. i \in 0 .. n - 1 /\ g[i] = f[i] /\ (i # 0 => g[i - 1] = f[i - 1])
      BY <1>3, <2>1
    <3> HIDE DEF g
    <3> QED
      BY <1>6, <3>1
  <2>2. CASE i = n
    <3>1. g[n] = More(f[n - 1], s[n]) /\ g[n - 1] = f[n - 1]
      BY <1>3, <1>4
    <3> HIDE DEF g
    <3> QED
      BY <1>4, <2>2, <3>1 DEF More
  <2> QED
    BY <1>3, <2>1, <2>2
<1>9. After(o, s, n, g)
  <2>1. g = [i \in 0 .. n |-> g[i]]
    OBVIOUS
  <2> HIDE DEF g
  <2> QED
    BY <1>7, <2>1 DEF After
<1> QED
  BY <1>3, <1>9

(* So do the frames of a response, which are sent one after the other.     *)
LEMMA SendAllKeeps ==
  ASSUME NEW o, Output(o), NEW F, NEW fs \in Seq(F), NEW x \in SendAll(o, fs)
  PROVE  /\ Output(x) /\ (Ordered(o) => Ordered(x))
         /\ (\A i \in 1 .. Len(fs) : ~ (fs[i].n > FrameMax)) => x.asked = o.asked \o fs
<1> DEFINE n == Len(fs)
           Short == \A i \in 1 .. n : ~ (fs[i].n > FrameMax)
<1>1. n \in Nat
  OBVIOUS
<1>2. PICK f : After(o, fs, n, f) /\ SendAll(o, fs) = f[n]
  <2>1. \E f : After(o, fs, n, f)
    BY <1>1, AfterExists
  <2> DEFINE f == CHOOSE f : After(o, fs, n, f)
  <2>2. After(o, fs, n, f)
    BY <2>1
  <2>3. SendAll(o, fs) = f[n]
    BY DEF SendAll, After
  <2> QED
    BY <2>2, <2>3
<1>3. f[0] = {o} /\ \A i \in 1 .. n : f[i] = More(f[i - 1], fs[i])
  <2>1. \A i \in 0 .. n : f[i] = IF i = 0 THEN {o}
                                 ELSE UNION {FrameSend(y, fs[i]) : y \in f[i - 1]}
    BY <1>2 DEF After
  <2>2. f[0] = {o}
    <3> DEFINE i == 0
    <3>1. i \in 0 .. n /\ i = 0
      BY <1>1
    <3> HIDE DEF i
    <3>2. f[i] = {o}
      BY <2>1, <3>1
    <3> QED
      BY <3>1, <3>2
  <2>3. ASSUME NEW i \in 1 .. n PROVE f[i] = More(f[i - 1], fs[i])
    <3>1. i \in 0 .. n /\ i # 0
      BY <1>1
    <3>2. f[i] = UNION {FrameSend(y, fs[i]) : y \in f[i - 1]}
      BY <2>1, <3>1
    <3> QED
      BY <3>2 DEF More
  <2> QED
    BY <2>2, <2>3
<1>4. PICK A : o.asked \in Seq(A)
  BY DEF Output
<1> DEFINE B == A \cup F
           Kept(y, i) == /\ Output(y) /\ (Ordered(o) => Ordered(y))
                         /\ Short => y.asked = o.asked \o SubSeq(fs, 1, i)
           G == {i \in 0 .. n : \A y \in f[i] : Kept(y, i)}
<1>5. o.asked \in Seq(B) /\ fs \in Seq(B)
  BY <1>4, SeqMonotonic
<1>6. 0 \in G
  <2> DEFINE a == SubSeq(fs, 1, 0)
  <2>1. a = <<>>
    OBVIOUS
  <2> HIDE DEF a
  <2>2. o.asked \o a = o.asked
    BY <1>5, <2>1, ConcatEmptySeq
  <2>3. Kept(o, 0)
    BY <2>2 DEF a
  <2> HIDE DEF Kept
  <2> QED
    BY <1>1, <1>3, <2>3
<1>7. ASSUME NEW i \in 1 .. n, i - 1 \in G PROVE i \in G
  <2> SUFFICES ASSUME NEW y \in f[i] PROVE Kept(y, i)
    BY <1>1
  <2>1. PICK z \in f[i - 1] : y \in FrameSend(z, fs[i])
    BY <1>3 DEF More
  <2>2. Kept(z, i - 1)
    BY <1>7, <2>1
  <2>3. Output(y) /\ (Ordered(z) => Ordered(y))
        /\ (~ (fs[i].n > FrameMax) => y.asked = Append(z.asked, fs[i]))
    BY <2>1, <2>2, FrameSendKeeps
  <2>4. o.asked \o SubSeq(fs, 1, i) = Append(o.asked \o SubSeq(fs, 1, i - 1), fs[i])
    <3>1. \A q \in Seq(B) : \A j \in 1 .. Len(q) :
            o.asked \o SubSeq(q, 1, j) = Append(o.asked \o SubSeq(q, 1, j - 1), q[j])
      <4>1. o.asked \in Seq(B)
        BY <1>5
      <4> DEFINE a == o.asked
      <4> HIDE DEF a, B
      <4>2. \A S : \A t \in Seq(S), q \in Seq(S) : \A j \in 1 .. Len(q) :
              t \o SubSeq(q, 1, j) = Append(t \o SubSeq(q, 1, j - 1), q[j])
        BY OneMore
      <4> QED
        BY <4>1, <4>2 DEF a
    <3> QED
      BY <1>1, <1>5, <3>1
  <2>5. Short => y.asked = o.asked \o SubSeq(fs, 1, i)
    BY <2>2, <2>3, <2>4
  <2> QED
    BY <2>2, <2>3, <2>5
<1>8. G = 0 .. n
  <2>1. G \in SUBSET (0 .. n)
    OBVIOUS
  <2> HIDE DEF G, n
  <2> QED
    BY <1>1, <1>6, <1>7, <2>1, FollowsFrom
<1>9. Kept(x, n)
  <2>1. n \in G
    <3> HIDE DEF G
    <3> QED
      BY <1>1, <1>8
  <2> HIDE DEF Kept
  <2> QED
    BY <1>2, <2>1
<1> DEFINE u == SubSeq(fs, 1, n)
<1>10. u = fs
  BY SubSeqFull
<1>11. /\ Output(x) /\ (Ordered(o) => Ordered(x))
       /\ Short => x.asked = o.asked \o u
  BY <1>9
<1> HIDE DEF u
<1> QED
  BY <1>10, <1>11

(***************************************************************************)
(* The frames that are sent.                                               *)
(***************************************************************************)

Frames == [k : {"HEADERS", "DATA", "RST", "PING", "WINDOW_UPDATE"}, s : StreamId, n : Nat,
           end : BOOLEAN]

(* A response, or what refuses a request: HEADERS or RST, then DATA, and   *)
(* what ends it comes last.  bigheader: its header may be too long to send. *)
Response(s, fs) ==
  /\ fs # <<>>
  /\ \A i \in 1 .. Len(fs) :
       /\ fs[i].s = s /\ fs[i].k \in {"HEADERS", "RST", "DATA"}
       /\ fs[i].k = "DATA" <=> 1 < i
       /\ fs[i].end \/ fs[i].k = "RST" => i = Len(fs)

Short(fs) == \A i \in 1 .. Len(fs) : ~ (fs[i].n > FrameMax)

LEMMA FrameTyped ==
  ASSUME NEW s \in StreamId, NEW n \in Nat, NEW e \in BOOLEAN,
         NEW k \in {"HEADERS", "DATA", "RST", "PING", "WINDOW_UPDATE"}
  PROVE  /\ Frame(k, s, n, e) \in Frames
         /\ Frame(k, s, n, e).k = k /\ Frame(k, s, n, e).s = s /\ Frame(k, s, n, e).n = n
         /\ Frame(k, s, n, e).end <=> e
BY DEF Frame, Frames

LEMMA OneFrame ==
  ASSUME NEW f \in Frames
  PROVE  /\ <<f>> \in Seq(Frames) /\ Len(<<f>>) = 1 /\ <<f>>[1] = f /\ <<f>> # <<>>
         /\ ~ (f.n > FrameMax) => Short(<<f>>)
BY DEF Short

LEMMA HeaderTyped ==
  ASSUME NEW s \in StreamId
  PROVE  /\ Header(s) \in Frames /\ Header(s).s = s /\ Header(s).k = "HEADERS"
         /\ ~ Header(s).end /\ ~ (Header(s).n > FrameMax)
         /\ Refusal(s) \in Frames /\ Refusal(s).s = s /\ Refusal(s).k = "RST"
         /\ ~ (Refusal(s).n > FrameMax)
<1>1. FrameMax \in Nat /\ FrameMax >= 1 /\ 1 \in Nat /\ ~ (1 > FrameMax)
  BY Sizes
<1> QED
  BY <1>1 DEF Header, Refusal, Frame, Frames

(* The chunks of a body: a frame at most, and only the last may end it.    *)
LEMMA DataTyped ==
  ASSUME NEW s \in StreamId, NEW n \in {0, 1, FrameMax + 1}, NEW e \in BOOLEAN,
         NEW fs, fs = DataFrames(s, n, e)
  PROVE  /\ fs \in Seq(Frames)
         /\ \A i \in 1 .. Len(fs) : /\ fs[i].k = "DATA" /\ fs[i].s = s /\ ~ (fs[i].n > FrameMax)
                                    /\ fs[i].end => i = Len(fs)
<1> DEFINE m == FrameMax
           c == (n + m - 1) \div m
           z == Frame("DATA", s, 0, TRUE)
           g(i) == Frame("DATA", s, IF i < c THEN m ELSE n - (i - 1) * m, e /\ i = c)
<1>1. m \in Nat /\ m >= 1 /\ n \in Nat
  BY Sizes
<1>2. CASE n = 0
  <2>1. fs = IF e THEN <<z>> ELSE <<>>
    BY <1>2 DEF DataFrames
  <2>2. z \in Frames /\ z.k = "DATA" /\ z.s = s /\ z.n = 0 /\ 0 \in Nat
    BY DEF Frame, Frames
  <2> HIDE DEF z
  <2>3. CASE e
    <3>1. fs = <<z>>
      BY <2>1, <2>3
    <3>2. fs \in Seq(Frames) /\ Len(fs) = 1 /\ fs[1] = z
      BY <2>2, <3>1
    <3> QED
      BY <1>1, <2>2, <3>2
  <2>4. CASE ~e
    BY <2>1, <2>4
  <2> QED
    BY <2>3, <2>4
<1>3. CASE n # 0
  <2>1. /\ n = 1 => c = 1
        /\ n = m + 1 => c = 2
    <3>1. ASSUME n = 1 PROVE c = 1
      <4>1. n + m - 1 = m
        BY <1>1, <3>1
      <4>2. m \div m = 1
        BY <1>1
      <4> QED
        BY <4>1, <4>2
    <3>2. ASSUME n = m + 1 PROVE c = 2
      <4>1. n + m - 1 = 2 * m
        BY <1>1, <3>2
      <4>2. (2 * m) \div m = 2
        BY <1>1
      <4> QED
        BY <4>1, <4>2
    <3> QED
      BY <3>1, <3>2
  <2>2. fs = [i \in 1 .. c |-> g(i)]
    BY <1>3 DEF DataFrames
  <2>3. c \in Nat /\ \A i \in 1 .. c : LET x == IF i < c THEN m ELSE n - (i - 1) * m
                                      IN  x \in Nat /\ ~ (x > m)
    <3> HIDE DEF c
    <3> QED
      BY <1>1, <1>3, <2>1
  <2> HIDE DEF c
  <2>4. \A i \in 1 .. c : /\ g(i) \in Frames /\ g(i).k = "DATA" /\ g(i).s = s
                          /\ ~ (g(i).n > m) /\ (g(i).end => i = c)
    <3>1. TAKE i \in 1 .. c
    <3> DEFINE x == IF i < c THEN m ELSE n - (i - 1) * m
               b == e /\ i = c
    <3>2. x \in Nat /\ ~ (x > m) /\ b \in BOOLEAN /\ (b => i = c)
      BY <2>3
    <3>3. g(i) = Frame("DATA", s, x, b)
      OBVIOUS
    <3> HIDE DEF x, b, g
    <3>4. /\ Frame("DATA", s, x, b) \in Frames /\ Frame("DATA", s, x, b).k = "DATA"
          /\ Frame("DATA", s, x, b).s = s /\ Frame("DATA", s, x, b).n = x
          /\ Frame("DATA", s, x, b).end <=> b
      BY <3>2, FrameTyped
    <3> QED
      BY <3>2, <3>3, <3>4
  <2> HIDE DEF g
  <2>5. fs \in [1 .. c -> Frames] /\ \A i \in 1 .. c : fs[i] = g(i)
    BY <2>2, <2>4
  <2>6. fs \in Seq(Frames) /\ Len(fs) = c
    BY <2>3, <2>5
  <2> QED
    BY <2>4, <2>5, <2>6
<1> QED
  BY <1>2, <1>3

(* HEADERS and a body make a response. *)
LEMMA ResponseTyped ==
  ASSUME NEW s \in StreamId, NEW h \in Frames, h.s = s, h.k = "HEADERS", ~h.end,
         NEW fs \in Seq(Frames),
         \A i \in 1 .. Len(fs) : /\ fs[i].k = "DATA" /\ fs[i].s = s /\ ~ (fs[i].n > FrameMax)
                                 /\ fs[i].end => i = Len(fs)
  PROVE  /\ <<h>> \o fs \in Seq(Frames) /\ Response(s, <<h>> \o fs)
         /\ ~ (h.n > FrameMax) => Short(<<h>> \o fs)
<1> DEFINE r == <<h>> \o fs
           d == Len(fs)
<1>1. d \in Nat /\ <<h>> \in Seq(Frames) /\ Len(<<h>>) = 1 /\ <<h>>[1] = h
  OBVIOUS
<1>2. /\ r \in Seq(Frames) /\ Len(r) = 1 + d
      /\ r[1] = h /\ \A i \in 2 .. d + 1 : r[i] = fs[i - 1]
  <2>1. /\ r \in Seq(Frames) /\ Len(r) = 1 + d
        /\ \A i \in 1 .. 1 + d : r[i] = IF i <= 1 THEN <<h>>[i] ELSE fs[i - 1]
    <3> HIDE DEF d
    <3>1. /\ r \in Seq(Frames) /\ Len(r) = Len(<<h>>) + Len(fs)
          /\ \A i \in 1 .. Len(<<h>>) + Len(fs) :
               r[i] = IF i <= Len(<<h>>) THEN <<h>>[i] ELSE fs[i - Len(<<h>>)]
      BY <1>1, ConcatProperties
    <3> HIDE DEF r
    <3> QED
      BY <1>1, <3>1 DEF d
  <2> HIDE DEF r, d
  <2>2. 1 \in 1 .. 1 + d /\ 1 <= 1
    BY <1>1
  <2>3. r[1] = h
    BY <1>1, <2>1, <2>2
  <2>4. \A i \in 2 .. d + 1 : i \in 1 .. 1 + d /\ ~ (i <= 1)
    BY <1>1
  <2> QED
    BY <2>1, <2>3, <2>4
<1>3. \A i \in 1 .. d : /\ fs[i].k = "DATA" /\ fs[i].s = s /\ ~ (fs[i].n > FrameMax)
                        /\ fs[i].end => i = d
  OBVIOUS
<1> HIDE DEF r, d
<1>4. \A i \in 1 .. 1 + d : i = 1 \/ (i \in 2 .. d + 1 /\ i - 1 \in 1 .. d /\ 1 < i)
  BY <1>1
<1>5. r # <<>>
  BY <1>1, <1>2
<1>6. \A i \in 1 .. 1 + d :
        /\ r[i].s = s /\ r[i].k \in {"HEADERS", "RST", "DATA"}
        /\ r[i].k = "DATA" <=> 1 < i
        /\ r[i].end \/ r[i].k = "RST" => i = 1 + d
  <2>1. TAKE i \in 1 .. 1 + d
  <2>2. CASE i = 1
    BY <1>2, <2>2
  <2>3. CASE i \in 2 .. d + 1 /\ i - 1 \in 1 .. d /\ 1 < i
    <3>1. r[i] = fs[i - 1]
      BY <1>2, <2>3
    <3>2. i - 1 = d => i = 1 + d
      BY <1>1
    <3> QED
      BY <1>3, <2>3, <3>1, <3>2
  <2> QED
    BY <1>4, <2>2, <2>3
<1>7. ~ (h.n > FrameMax) => \A i \in 1 .. 1 + d : ~ (r[i].n > FrameMax)
  BY <1>2, <1>3, <1>4
<1>8. Response(s, r) /\ (~ (h.n > FrameMax) => Short(r))
  BY <1>2, <1>5, <1>6, <1>7 DEF Response, Short
<1> QED
  BY <1>2, <1>8 DEF r

(* The frames fs are handed to http2_frame_send, one after the other.      *)
Asks(fs) ==
  /\ Output(out') /\ (Ordered(out) => Ordered(out'))
  /\ Short(fs) => out'.asked = out.asked \o fs

LEMMA AsksNone ==
  ASSUME Output(out), out' = out
  PROVE  Asks(<<>>) /\ <<>> \in Seq(Frames) /\ Short(<<>>)
<1>1. PICK A : out.asked \in Seq(A)
  BY DEF Output
<1>2. out.asked \o <<>> = out.asked
  BY <1>1, ConcatEmptySeq
<1>3. Short(<<>>)
  BY DEF Short
<1> QED
  BY <1>2, <1>3 DEF Asks

LEMMA AsksOne ==
  ASSUME Output(out), NEW f \in Frames, out' \in FrameSend(out, f)
  PROVE  Asks(<<f>>)
<1>1. PICK A : out.asked \in Seq(A)
  BY DEF Output
<1>2. Output(out') /\ (Ordered(out) => Ordered(out'))
      /\ (~ (f.n > FrameMax) => out'.asked = Append(out.asked, f))
  BY FrameSendKeeps
<1>3. Append(out.asked, f) = out.asked \o <<f>>
  <2> DEFINE B == A \cup {f}
             a == out.asked
  <2>1. a \in Seq(B) /\ f \in B
    BY <1>1, SeqMonotonic
  <2> HIDE DEF a, B
  <2>2. Append(a, f) = a \o <<f>>
    BY <2>1, AppendIsConcat
  <2> QED
    BY <2>2 DEF a
<1>4. Short(<<f>>) => ~ (f.n > FrameMax)
  BY DEF Short
<1> QED
  BY <1>2, <1>3, <1>4 DEF Asks

LEMMA AsksAll ==
  ASSUME Output(out), NEW fs \in Seq(Frames), out' \in SendAll(out, fs)
  PROVE  Asks(fs)
BY SendAllKeeps DEF Asks, Short

(* What becomes of stream s, st before and r after, when it is answered    *)
(* with fs.                                                                *)
Calm(st, r) == r.sending = st.sending /\ r.fcgi = st.fcgi

Outcome(s, st, r, what, fs) ==
  /\ r.kind = st.kind
  /\ \/ fs = <<>> /\ Calm(st, r)
     \/ Response(s, fs) /\ Calm(st, r) /\ (what # "open" \/ st.kind = "upgrade")
     \/ fs = <<>> /\ what # "open" /\ r.sending = st.sending /\ r.fcgi = "params"
     \/ fs = <<Header(s)>> /\ what # "open" /\ r.fcgi = st.fcgi

LEMMA PageTyped ==
  ASSUME NEW s \in StreamId
  PROVE  /\ Page(s) \in Seq(Frames) /\ Response(s, Page(s)) /\ Short(Page(s))
         /\ LET p == <<Header(s), Frame("DATA", s, 0, TRUE)>>
            IN  p \in Seq(Frames) /\ Response(s, p) /\ Short(p)
<1> DEFINE d == DataFrames(s, 1, TRUE)
           e == DataFrames(s, 0, TRUE)
           h == Header(s)
           z == Frame("DATA", s, 0, TRUE)
<1>1. h \in Frames /\ h.s = s /\ h.k = "HEADERS" /\ ~h.end /\ ~ (h.n > FrameMax)
  BY HeaderTyped
<1>2. /\ d \in Seq(Frames)
      /\ \A i \in 1 .. Len(d) : /\ d[i].k = "DATA" /\ d[i].s = s /\ ~ (d[i].n > FrameMax)
                                /\ d[i].end => i = Len(d)
  <2> DEFINE n == 1
             b == TRUE
  <2>1. n \in {0, 1, FrameMax + 1} /\ b \in BOOLEAN /\ d = DataFrames(s, n, b)
    OBVIOUS
  <2> HIDE DEF n, b, d
  <2> QED
    BY <2>1, DataTyped
<1>3. e = <<z>>
  BY DEF DataFrames
<1>4. /\ <<z>> \in Seq(Frames)
      /\ \A i \in 1 .. Len(<<z>>) : /\ <<z>>[i].k = "DATA" /\ <<z>>[i].s = s
                                    /\ ~ (<<z>>[i].n > FrameMax)
                                    /\ <<z>>[i].end => i = Len(<<z>>)
  <2> DEFINE n == 0
             b == TRUE
             w == <<z>>
  <2>1. n \in {0, 1, FrameMax + 1} /\ b \in BOOLEAN /\ w = DataFrames(s, n, b)
    BY <1>3
  <2> HIDE DEF n, b, w
  <2>2. /\ w \in Seq(Frames)
        /\ \A i \in 1 .. Len(w) : /\ w[i].k = "DATA" /\ w[i].s = s /\ ~ (w[i].n > FrameMax)
                                  /\ w[i].end => i = Len(w)
    BY <2>1, DataTyped
  <2> QED
    BY <2>2 DEF w
<1>5. Page(s) = <<h>> \o d
  BY DEF Page, PageSize
<1>6. <<h, z>> = <<h>> \o <<z>>
  <2> HIDE DEF h, z
  <2>1. <<h>> \in Seq({h, z}) /\ <<z>> \in Seq({h, z})
    OBVIOUS
  <2> DEFINE c == <<h>> \o <<z>>
             S == {h, z}
             d2 == <<h, z>>
  <2>2. c \in Seq(S) /\ Len(c) = 2 /\ c[1] = h /\ c[2] = z
    BY <2>1
  <2>3. d2 \in Seq(S) /\ Len(d2) = 2 /\ d2[1] = h /\ d2[2] = z
    OBVIOUS
  <2> HIDE DEF c, S, d2
  <2>4. \A i \in 1 .. 2 : i = 1 \/ i = 2
    OBVIOUS
  <2>5. c = d2
    BY <2>2, <2>3, <2>4, SeqEqual
  <2> QED
    BY <2>5 DEF c, d2
<1> HIDE DEF h, d, z
<1>7. Page(s) \in Seq(Frames) /\ Response(s, Page(s)) /\ Short(Page(s))
  BY <1>1, <1>2, <1>5, ResponseTyped
<1>8. <<h, z>> \in Seq(Frames) /\ Response(s, <<h, z>>) /\ Short(<<h, z>>)
  BY <1>1, <1>4, <1>6, ResponseTyped
<1> QED
  BY <1>7, <1>8 DEF h, z

LEMMA RouterAsks ==
  ASSUME Output(out), Typed, NEW s \in Stream, NEW st \in StreamRecord, NEW after \in {2, 4},
         NEW pre \in Seq(Frames), RouterBridge(s, st, after, pre)
  PROVE  \E r \in StreamRecord, fs \in Seq(Frames) :
           /\ streams' = [streams EXCEPT ![s] = r]
           /\ Outcome(s, st, r, "ended", fs)
           /\ Short(fs) /\ Asks(pre \o fs)
<1>0. s \in StreamId
  BY DEF StreamId
<1> DEFINE Goal(r, fs) == /\ streams' = [streams EXCEPT ![s] = r]
                          /\ Outcome(s, st, r, "ended", fs)
                          /\ Short(fs) /\ Asks(pre \o fs)
<1> SUFFICES \E r \in StreamRecord, fs \in Seq(Frames) : Goal(r, fs)
  OBVIOUS
<1>1. ASSUME NEW fs \in Seq(Frames), Response(s, fs), Short(fs), out' \in SendAll(out, pre \o fs),
             streams' = [streams EXCEPT ![s] = [st EXCEPT !.state = 4]]
      PROVE  \E r \in StreamRecord, gs \in Seq(Frames) : Goal(r, gs)
  <2> DEFINE r == [st EXCEPT !.state = 4]
  <2>1. r \in StreamRecord /\ Calm(st, r) /\ r.kind = st.kind
    BY DEF StreamRecord, Calm
  <2>2. Asks(pre \o fs)
    <3>1. pre \o fs \in Seq(Frames)
      BY ConcatProperties
    <3> QED
      BY <1>1, <3>1, AsksAll
  <2> HIDE DEF r
  <2>3. Outcome(s, st, r, "ended", fs)
    BY <1>1, <2>1 DEF Outcome
  <2>4. Goal(r, fs)
    BY <1>1, <2>2, <2>3 DEF r
  <2> HIDE DEF Goal
  <2> QED
    BY <2>1, <2>4
<1>2. CASE /\ out' \in SendAll(out, pre)
           /\ streams' = [streams EXCEPT ![s] = [st EXCEPT !.fcgi = "params", !.state = after]]
  <2> DEFINE r == [st EXCEPT !.fcgi = "params", !.state = after]
  <2>1. r \in StreamRecord /\ r.sending = st.sending /\ r.fcgi = "params" /\ r.kind = st.kind
    BY DEF StreamRecord
  <2>2. Asks(pre)
    BY <1>2, AsksAll
  <2>3. pre \o <<>> = pre /\ <<>> \in Seq(Frames) /\ Short(<<>>)
    BY ConcatEmptySeq DEF Short
  <2> HIDE DEF r
  <2>4. Outcome(s, st, r, "ended", <<>>)
    BY <2>1 DEF Outcome
  <2>5. Goal(r, <<>>)
    BY <1>2, <2>2, <2>3, <2>4 DEF r
  <2> HIDE DEF Goal
  <2> QED
    BY <2>1, <2>3, <2>5
<1>3. CASE RouteFcgi(s, st, after, pre)
  BY <1>0, <1>1, <1>2, <1>3, PageTyped DEF RouteFcgi
<1>4. CASE RoutePage(s, st, pre)
  <2>1. \/ out' \in SendAll(out, pre \o <<Header(s), Frame("DATA", s, 0, TRUE)>>)
        \/ out' \in SendAll(out, pre \o Page(s))
    BY <1>4 DEF RoutePage
  <2>2. streams' = [streams EXCEPT ![s] = [st EXCEPT !.state = 4]]
    BY <1>4 DEF RoutePage
  <2> DEFINE p == <<Header(s), Frame("DATA", s, 0, TRUE)>>
  <2>3. p \in Seq(Frames) /\ Response(s, p) /\ Short(p)
    BY <1>0, PageTyped
  <2>4. out' \in SendAll(out, pre \o p) \/ out' \in SendAll(out, pre \o Page(s))
    BY <2>1
  <2> HIDE DEF p, Goal
  <2> QED
    BY <1>0, <1>1, <2>2, <2>3, <2>4, PageTyped
<1>5. CASE RouteFile(s, st, after, pre)
  <2> DEFINE f == SmallestFree
             r == [st EXCEPT !.file = f, !.offset = 0, !.sending = TRUE, !.state = after]
             h == Header(s)
  <2>1. f \in Nat
    BY FreeFile DEF Typed
  <2>2. streams' = [streams EXCEPT ![s] = r] /\ out' \in SendAll(out, pre \o <<h>>)
    BY <1>5 DEF RouteFile
  <2> HIDE DEF f
  <2>3. r \in StreamRecord /\ r.fcgi = st.fcgi /\ r.kind = st.kind
    <3>1. f \in Nat /\ 0 \in 0 .. FileSize
      BY <2>1, Sizes
    <3>2. r \in StreamRecord
      BY <3>1 DEF StreamRecord
    <3>3. r.fcgi = st.fcgi /\ r.kind = st.kind
      BY DEF StreamRecord
    <3> QED
      BY <3>2, <3>3
  <2>4. <<h>> \in Seq(Frames) /\ Short(<<h>>)
    BY <1>0, HeaderTyped, OneFrame
  <2> HIDE DEF r
  <2>5. Asks(pre \o <<h>>)
    <3> DEFINE q == pre \o <<h>>
    <3>1. q \in Seq(Frames)
      BY <2>4, ConcatProperties
    <3> HIDE DEF q
    <3>2. out' \in SendAll(out, q)
      BY <2>2 DEF q
    <3>3. Asks(q)
      BY <3>1, <3>2, AsksAll
    <3> QED
      BY <3>3 DEF q
  <2>6. Outcome(s, st, r, "ended", <<h>>)
    BY <2>3 DEF Outcome
  <2>7. Goal(r, <<h>>)
    BY <2>2, <2>4, <2>5, <2>6
  <2> HIDE DEF Goal, h
  <2> QED
    BY <2>3, <2>4, <2>7
<1> QED
  BY <1>3, <1>4, <1>5 DEF RouterBridge

LEMMA LoneTyped ==
  ASSUME NEW s \in StreamId, NEW f \in {Header(s), Refusal(s)}
  PROVE  <<f>> \in Seq(Frames) /\ Response(s, <<f>>) /\ Short(<<f>>)
<1>1. f \in Frames /\ f.s = s /\ f.k \in {"HEADERS", "RST"} /\ ~ (f.n > FrameMax)
  BY HeaderTyped
<1>2. <<f>> \in Seq(Frames) /\ Short(<<f>>) /\ Len(<<f>>) = 1 /\ <<f>>[1] = f /\ <<f>> # <<>>
  BY <1>1, OneFrame
<1>3. \A i \in 1 .. 1 : i = 1 /\ ~ (1 < i)
  OBVIOUS
<1>4. Response(s, <<f>>)
  BY <1>1, <1>2, <1>3 DEF Response
<1> QED
  BY <1>2, <1>4

LEMMA HeadersAsk ==
  ASSUME TypeInv, Output(out), HandleHeaders
  PROVE  \E what \in {"open", "ended", "refused"}, t \in StreamRecord, r \in StreamRecord,
            fs \in Seq(Frames) :
           /\ Told(head.s, what) /\ streams' = [streams EXCEPT ![head.s] = r]
           /\ Calm(GetOrCreate(head.s), t) /\ Outcome(head.s, t, r, what, fs)
           /\ Short(fs) /\ Asks(fs)
<1> DEFINE s == head.s
           st == GetOrCreate(s)
           Goal(what, t, r, fs) ==
             /\ Told(s, what) /\ streams' = [streams EXCEPT ![s] = r]
             /\ Calm(st, t) /\ Outcome(s, t, r, what, fs)
             /\ Short(fs) /\ Asks(fs)
<1> SUFFICES \E what \in {"open", "ended", "refused"}, t \in StreamRecord, r \in StreamRecord,
                fs \in Seq(Frames) : Goal(what, t, r, fs)
  OBVIOUS
<1>1. head.k = "HEADERS" /\ pc = "dispatch"
  BY DEF HandleHeaders, At
<1>2. s \in Stream /\ s \in StreamId
  BY <1>1 DEF TypeInv, Heading, StreamId
<1>3. st \in StreamRecord /\ world.kinds \subseteq Kinds /\ Typed
  BY <1>2, Stored, WorldTyped DEF TypeInv, Typed
<1>4. Progress(head.end) \in {"open", "ended"}
  BY DEF Progress
<1>5. \A k \in Kinds : /\ [st EXCEPT !.kind = k] \in StreamRecord
                       /\ Calm(st, [st EXCEPT !.kind = k])
                       /\ [st EXCEPT !.kind = k].kind = k
  <2>1. TAKE k \in Kinds
  <2> HIDE DEF st
  <2>2. /\ [st EXCEPT !.kind = k] \in StreamRecord
        /\ [st EXCEPT !.kind = k].kind = k
        /\ [st EXCEPT !.kind = k].sending = st.sending /\ [st EXCEPT !.kind = k].fcgi = st.fcgi
    BY <1>3 DEF StreamRecord
  <2> QED
    BY <2>2 DEF Calm
<1>6. ASSUME NEW k \in Kinds, NEW what \in {"open", "ended", "refused"},
             streams' = [streams EXCEPT ![s] = [st EXCEPT !.kind = k]], Told(s, what),
             NEW fs \in Seq(Frames), Short(fs), Asks(fs),
             fs = <<>> \/ (Response(s, fs) /\ (what # "open" \/ k = "upgrade"))
      PROVE  \E w \in {"open", "ended", "refused"}, t \in StreamRecord, r \in StreamRecord,
                gs \in Seq(Frames) : Goal(w, t, r, gs)
  <2> DEFINE t == [st EXCEPT !.kind = k]
  <2>1. t \in StreamRecord /\ Calm(st, t) /\ t.kind = k
    BY <1>5
  <2>2. streams' = [streams EXCEPT ![s] = t]
    BY <1>6
  <2> HIDE DEF t
  <2>3. Calm(t, t)
    BY DEF Calm
  <2>4. Outcome(s, t, t, what, fs)
    BY <1>6, <2>1, <2>3 DEF Outcome
  <2>5. Goal(what, t, t, fs)
    BY <1>6, <2>1, <2>2, <2>4
  <2> HIDE DEF Goal
  <2> QED
    BY <2>1, <2>5
<1>7. ASSUME out' = out PROVE Asks(<<>>) /\ <<>> \in Seq(Frames) /\ Short(<<>>)
  BY <1>7, AsksNone
<1>8. CASE /\ "badheader" \in world.faults
           /\ streams' = [streams EXCEPT ![s] = [st EXCEPT !.kind = "missing"]]
           /\ Told(s, Progress(head.end))
           /\ UNCHANGED <<out, files, backends>>
  <2>1. "missing" \in Kinds
    BY DEF Kinds
  <2> HIDE DEF Goal
  <2> QED
    BY <1>4, <1>6, <1>7, <1>8, <2>1
<1>9. ASSUME NEW k \in Kinds,
             streams' = [streams EXCEPT ![s] = [st EXCEPT !.kind = k]],
             out' \in FrameSend(out, Refusal(s)), Told(s, "refused")
      PROVE  \E w \in {"open", "ended", "refused"}, t \in StreamRecord, r \in StreamRecord,
                gs \in Seq(Frames) : Goal(w, t, r, gs)
  <2> DEFINE f == Refusal(s)
  <2>1. <<f>> \in Seq(Frames) /\ Response(s, <<f>>) /\ Short(<<f>>) /\ f \in Frames
    BY <1>2, LoneTyped, HeaderTyped
  <2>2. Asks(<<f>>)
    BY <1>9, <2>1, AsksOne
  <2> HIDE DEF Goal, f
  <2> QED
    BY <1>6, <1>9, <2>1, <2>2
<1>10. ASSUME NEW k \in Kinds, k = "upgrade",
              RouteUpgrade(s, [st EXCEPT !.kind = k]), Told(s, Progress(head.end))
       PROVE  \E w \in {"open", "ended", "refused"}, t \in StreamRecord, r \in StreamRecord,
                 gs \in Seq(Frames) : Goal(w, t, r, gs)
  <2> DEFINE f == Header(s)
  <2>1. <<f>> \in Seq(Frames) /\ Response(s, <<f>>) /\ Short(<<f>>) /\ f \in Frames
    BY <1>2, LoneTyped, HeaderTyped
  <2>2. out' \in FrameSend(out, f) /\ streams' = [streams EXCEPT ![s] = [st EXCEPT !.kind = k]]
    BY <1>10 DEF RouteUpgrade
  <2>3. Asks(<<f>>)
    BY <2>1, <2>2, AsksOne
  <2> HIDE DEF Goal, f
  <2> QED
    BY <1>4, <1>6, <1>10, <2>1, <2>2, <2>3
<1>11. ASSUME NEW k \in Kinds,
              RouterBridge(s, [st EXCEPT !.kind = k, !.state = 2], 2, <<>>), Told(s, "ended")
       PROVE  \E w \in {"open", "ended", "refused"}, t \in StreamRecord, r \in StreamRecord,
                 gs \in Seq(Frames) : Goal(w, t, r, gs)
  <2> DEFINE t == [st EXCEPT !.kind = k, !.state = 2]
             none == <<>>
  <2>1. t \in StreamRecord /\ t.sending = st.sending /\ t.fcgi = st.fcgi
    <3> HIDE DEF st
    <3> QED
      BY <1>3 DEF StreamRecord
  <2>2. RouterBridge(s, t, 2, none) /\ none \in Seq(Frames)
    BY <1>11
  <2>3. none = <<>>
    OBVIOUS
  <2> HIDE DEF t, none
  <2>4. PICK r \in StreamRecord, fs \in Seq(Frames) :
          /\ streams' = [streams EXCEPT ![s] = r]
          /\ Outcome(s, t, r, "ended", fs)
          /\ Short(fs) /\ Asks(none \o fs)
    <3> HIDE DEF s
    <3> QED
      BY <1>2, <1>3, <2>1, <2>2, RouterAsks
  <2>5. none \o fs = fs
    BY <2>3, ConcatEmptySeq
  <2>6. Goal("ended", t, r, fs)
    BY <1>11, <2>1, <2>4, <2>5 DEF Calm
  <2> HIDE DEF Goal
  <2> QED
    BY <2>1, <2>6
<1>12. ASSUME NEW k \in Kinds, streams' = [streams EXCEPT ![s] = [st EXCEPT !.kind = k]],
              Told(s, "open"), out' = out
       PROVE  \E w \in {"open", "ended", "refused"}, t \in StreamRecord, r \in StreamRecord,
                 gs \in Seq(Frames) : Goal(w, t, r, gs)
  <2> HIDE DEF Goal
  <2> QED
    BY <1>6, <1>7, <1>12
<1>13. CASE \E k \in world.kinds :
              \/ /\ streams' = [streams EXCEPT ![s] = [st EXCEPT !.kind = k]]
                 /\ out' \in FrameSend(out, Refusal(s))
                 /\ Told(s, "refused")
                 /\ UNCHANGED <<files, backends>>
              \/ /\ k = "upgrade"
                 /\ RouteUpgrade(s, [st EXCEPT !.kind = k])
                 /\ Told(s, Progress(head.end))
              \/ /\ k # "upgrade" /\ head.end
                 /\ RouterBridge(s, [st EXCEPT !.kind = k, !.state = 2], 2, <<>>)
                 /\ Told(s, "ended")
              \/ /\ k # "upgrade" /\ ~head.end
                 /\ streams' = [streams EXCEPT ![s] = [st EXCEPT !.kind = k]]
                 /\ Told(s, "open")
                 /\ UNCHANGED <<out, files, backends>>
  <2> HIDE DEF Goal
  <2> QED
    BY <1>3, <1>9, <1>10, <1>11, <1>12, <1>13
<1> QED
  BY <1>8, <1>13 DEF HandleHeaders

(* The credit given back for a frame of a body. *)
LEMMA UpdatesTyped ==
  ASSUME NEW s \in StreamId
  PROVE  /\ Updates(s) \in Seq(Frames) /\ Short(Updates(s))
         /\ \A i \in 1 .. Len(Updates(s)) : Updates(s)[i].k = "WINDOW_UPDATE"
<1> DEFINE f == Frame("WINDOW_UPDATE", s, 1, FALSE)
           g == Frame("WINDOW_UPDATE", 0, 1, FALSE)
           u == <<f, g>>
<1>1. f \in Frames /\ g \in Frames /\ f.k = "WINDOW_UPDATE" /\ g.k = "WINDOW_UPDATE"
      /\ f.n = 1 /\ g.n = 1
  BY DEF Frame, Frames, StreamId
<1>2. ~ (1 > FrameMax)
  BY Sizes
<1>3. Updates(s) = u
  BY DEF Updates
<1> HIDE DEF f, g
<1>4. u \in Seq(Frames) /\ Len(u) = 2 /\ u[1] = f /\ u[2] = g
  BY <1>1
<1>5. \A i \in 1 .. 2 : i = 1 \/ i = 2
  OBVIOUS
<1> HIDE DEF u
<1>6. \A i \in 1 .. Len(u) : u[i].k = "WINDOW_UPDATE" /\ u[i].n = 1
  BY <1>1, <1>4, <1>5
<1> QED
  BY <1>2, <1>3, <1>4, <1>6 DEF Short

LEMMA DataAsk ==
  ASSUME TypeInv, Output(out), HandleData
  PROVE  \E pre \in Seq(Frames), fs \in Seq(Frames) :
           /\ Asks(pre \o fs) /\ Short(pre) /\ Short(fs)
           /\ \A i \in 1 .. Len(pre) : pre[i].k = "WINDOW_UPDATE"
           /\ \/ streams' = streams /\ fs = <<>>
              \/ /\ streams[head.s].kind # "upgrade"
                 /\ \E t \in StreamRecord, r \in StreamRecord :
                      /\ streams' = [streams EXCEPT ![head.s] = r]
                      /\ Calm(streams[head.s], t) /\ t.kind = streams[head.s].kind
                      /\ Outcome(head.s, t, r, Progress(head.end), fs)
<1> DEFINE s == head.s
           st == streams[s]
           Changed(fs) == /\ st.kind # "upgrade"
                          /\ \E t \in StreamRecord, r \in StreamRecord :
                               /\ streams' = [streams EXCEPT ![s] = r]
                               /\ Calm(st, t) /\ t.kind = st.kind
                               /\ Outcome(s, t, r, Progress(head.end), fs)
           Goal(pre, fs) ==
             /\ Asks(pre \o fs) /\ Short(pre) /\ Short(fs)
             /\ \A i \in 1 .. Len(pre) : pre[i].k = "WINDOW_UPDATE"
             /\ (streams' = streams /\ fs = <<>>) \/ Changed(fs)
<1> SUFFICES \E pre \in Seq(Frames), fs \in Seq(Frames) : Goal(pre, fs)
  OBVIOUS
<1>1. head.k = "DATA" /\ pc = "dispatch"
  BY DEF HandleData, At
<1>2. /\ s \in Stream /\ s \in StreamId /\ head.end \in BOOLEAN
      /\ DataFor(cl[s], world.faults)
  BY <1>1 DEF TypeInv, Heading, Headings, StreamId
<1>3. st \in StreamRecord /\ Typed
  <2>1. Exists(s)
    <3>1. cl[s] # "none"
      BY <1>2 DEF DataFor
    <3> HIDE DEF s
    <3> QED
      BY <1>1, <1>2, <3>1 DEF TypeInv, Known
  <2> QED
    BY <1>2, <2>1, Stored DEF TypeInv
<1> DEFINE u == Updates(s)
           t == AppendBody(st)
           none == <<>>
<1>4. u \in Seq(Frames) /\ Short(u) /\ \A i \in 1 .. Len(u) : u[i].k = "WINDOW_UPDATE"
  BY <1>2, UpdatesTyped
<1>5. t \in StreamRecord /\ Calm(st, t) /\ t.kind = st.kind
  <2> HIDE DEF st
  <2>1. t \in StreamRecord /\ t.kind = st.kind
    BY <1>3, Records
  <2>2. t.sending = st.sending /\ t.fcgi = st.fcgi
    BY <1>3 DEF AppendBody, StreamRecord
  <2> QED
    BY <2>1, <2>2 DEF Calm
<1>6. /\ none \in Seq(Frames) /\ Short(none) /\ none = <<>>
      /\ \A i \in 1 .. Len(none) : none[i].k = "WINDOW_UPDATE"
  BY DEF Short
<1>7. u \o none = u /\ none \o none = none
  <2> HIDE DEF u
  <2> QED
    BY <1>4, ConcatEmptySeq
<1>8. out' \in SendAll(out, u) => Asks(u)
  <2> HIDE DEF u
  <2> QED
    BY <1>4, AsksAll
<1>9. out' = out => Asks(none)
  BY AsksNone
<1> HIDE DEF u, none
<1>10. CASE head.n = 0 /\ UNCHANGED <<streams, out, files, backends>>
  <2>1. Goal(none, none)
    BY <1>6, <1>7, <1>9, <1>10
  <2> HIDE DEF Goal
  <2> QED
    BY <1>6, <2>1
<1>11. CASE out' \in SendAll(out, Updates(s)) \cup {out} /\ UNCHANGED <<streams, files, backends>>
  <2>1. CASE out' = out
    <3>1. Goal(none, none)
      BY <1>6, <1>7, <1>9, <1>11, <2>1
    <3> HIDE DEF Goal
    <3> QED
      BY <1>6, <3>1
  <2>2. CASE out' \in SendAll(out, u)
    <3>1. Goal(u, none)
      BY <1>4, <1>6, <1>7, <1>8, <1>11, <2>2
    <3> HIDE DEF Goal
    <3> QED
      BY <1>4, <1>6, <3>1
  <2> QED
    BY <1>11, <2>1, <2>2 DEF u
<1>12. CASE /\ st.kind # "upgrade"
            /\ out' \in SendAll(out, Updates(s))
            /\ streams' = [streams EXCEPT ![s] = AppendBody(@)]
  <2>1. streams' = [streams EXCEPT ![s] = t] /\ Asks(u)
    BY <1>8, <1>12 DEF u
  <2>2. Calm(t, t)
    BY DEF Calm
  <2> HIDE DEF t
  <2>3. Outcome(s, t, t, Progress(head.end), none)
    BY <1>6, <2>2 DEF Outcome
  <2>4. Goal(u, none)
    BY <1>4, <1>5, <1>6, <1>7, <1>12, <2>1, <2>3
  <2> HIDE DEF Goal
  <2> QED
    BY <1>4, <1>6, <2>4
<1>13. CASE st.kind # "upgrade" /\ head.end /\ StreamEnds(s, AppendBody(st))
  <2>1. RouterBridge(s, t, 4, u) /\ Progress(head.end) = "ended"
    BY <1>13 DEF StreamEnds, Progress, u
  <2> HIDE DEF t
  <2>2. PICK r \in StreamRecord, fs \in Seq(Frames) :
          /\ streams' = [streams EXCEPT ![s] = r]
          /\ Outcome(s, t, r, "ended", fs)
          /\ Short(fs) /\ Asks(u \o fs)
    <3> HIDE DEF s
    <3> QED
      BY <1>2, <1>3, <1>4, <1>5, <2>1, RouterAsks
  <2>3. Changed(fs)
    BY <1>5, <1>13, <2>1, <2>2
  <2>4. Goal(u, fs)
    BY <1>4, <2>2, <2>3
  <2> HIDE DEF Goal
  <2> QED
    BY <1>4, <2>4
<1> QED
  BY <1>10, <1>11, <1>12, <1>13 DEF HandleData

(* A turn of stream s, which becomes r. *)
TurnOutcome(s, st, r, fs) ==
  /\ r.kind = st.kind
  /\ \/ fs = <<>> /\ Calm(st, r)
     \/ fs = <<>> /\ ~r.sending /\ r.fcgi = st.fcgi
     \/ fs = <<>> /\ st.fcgi # "off" /\ r.sending = st.sending
     \/ Response(s, fs) /\ st.fcgi # "off" /\ r.sending = st.sending /\ r.fcgi = "off"
     \/ /\ st.sending /\ r.fcgi = "off"
        /\ \E n \in Nat, last \in BOOLEAN :
             fs = <<Frame("DATA", s, n, last)>> /\ (last => ~r.sending)

LEMMA AnswerAsks ==
  ASSUME TypeInv, Output(out), NEW s \in Stream, Exists(s), FcgiAnswers(s)
  PROVE  \E r \in StreamRecord, fs \in Seq(Frames) :
           /\ streams' = [streams EXCEPT ![s] = r]
           /\ TurnOutcome(s, streams[s], r, fs) /\ Asks(fs)
           /\ Without({"bigheader"}) => Short(fs)
<1> DEFINE st == streams[s]
           r == [[st EXCEPT !.state = 4] EXCEPT !.fcgi = "off"]
<1>1. st \in StreamRecord /\ s \in StreamId
  BY Stored DEF TypeInv, StreamId
<1>2. r \in StreamRecord /\ r.kind = st.kind /\ r.sending = st.sending /\ r.fcgi = "off"
  <2> HIDE DEF st
  <2> QED
    BY <1>1 DEF StreamRecord
<1>3. streams' = [streams EXCEPT ![s] = r] /\ st.fcgi # "off"
  BY DEF FcgiAnswers, FcgiEnds, FcgiTurn
<1> HIDE DEF r, st
<1>4. PICK h \in ComplexHeader(s), b \in {0, FrameMax + 1} :
        out' \in SendAll(out, <<h>> \o DataFrames(s, b, TRUE))
  BY DEF FcgiAnswers
<1>5. /\ h \in Frames /\ h.s = s /\ h.k = "HEADERS" /\ ~h.end
      /\ Without({"bigheader"}) => ~ (h.n > FrameMax)
  <2>1. CASE h = Header(s)
    BY <1>1, <2>1, HeaderTyped
  <2>2. CASE h = Frame("HEADERS", s, FrameMax + 1, FALSE) /\ "bigheader" \in world.faults
    <3> DEFINE n == FrameMax + 1
    <3>1. n \in Nat
      BY Sizes
    <3> HIDE DEF n
    <3>2. h = Frame("HEADERS", s, n, FALSE)
      BY <2>2 DEF n
    <3> QED
      BY <1>1, <2>2, <3>1, <3>2 DEF Frame, Frames, Without
  <2> QED
    BY <2>1, <2>2 DEF ComplexHeader
<1> DEFINE d == DataFrames(s, b, TRUE)
           fs == <<h>> \o d
<1>6. /\ d \in Seq(Frames)
      /\ \A i \in 1 .. Len(d) : /\ d[i].k = "DATA" /\ d[i].s = s /\ ~ (d[i].n > FrameMax)
                                /\ d[i].end => i = Len(d)
  <2> DEFINE e == TRUE
  <2>1. e \in BOOLEAN /\ d = DataFrames(s, b, e) /\ b \in {0, 1, FrameMax + 1}
    OBVIOUS
  <2> HIDE DEF e, d
  <2> QED
    BY <1>1, <2>1, DataTyped
<1> HIDE DEF d
<1>7. /\ fs \in Seq(Frames) /\ Response(s, fs)
      /\ ~ (h.n > FrameMax) => Short(fs)
  BY <1>1, <1>5, <1>6, ResponseTyped
<1>8. out' \in SendAll(out, fs)
  BY <1>4 DEF d
<1> HIDE DEF fs
<1>9. Asks(fs)
  BY <1>7, <1>8, AsksAll
<1>10. TurnOutcome(s, st, r, fs)
  BY <1>2, <1>3, <1>7 DEF TurnOutcome
<1> QED
  BY <1>2, <1>3, <1>5, <1>7, <1>9, <1>10 DEF st

LEMMA ChunkAsks ==
  ASSUME TypeInv, Output(out), NEW s \in Stream, Exists(s), FileChunk(s)
  PROVE  \E r \in StreamRecord, fs \in Seq(Frames) :
           /\ streams' = [streams EXCEPT ![s] = r]
           /\ TurnOutcome(s, streams[s], r, fs) /\ Asks(fs) /\ Short(fs)
<1> DEFINE st == streams[s]
           n == Allowed(s)
           last == st.offset + n >= FileSize
           f == Frame("DATA", s, n, last)
           r == IF last THEN [FinishFile(st) EXCEPT !.offset = st.offset + n]
                ELSE [st EXCEPT !.offset = st.offset + n]
           fs == <<f>>
<1>1. st \in StreamRecord /\ s \in StreamId
  BY Stored DEF TypeInv, StreamId
<1>2. /\ out_window[0] > 0 /\ out_window[s] > 0
      /\ out' \in FrameSend(out, f)
      /\ streams' = [streams EXCEPT ![s] = IF last THEN [FinishFile(st) EXCEPT !.offset = @ + n]
                                           ELSE [st EXCEPT !.offset = @ + n]]
      /\ st.sending /\ st.fcgi = "off"
  BY DEF FileChunk, FileTurn, HasFile
<1>3. n \in Nat /\ n <= FrameMax /\ st.offset + n \in 0 .. FileSize /\ last \in BOOLEAN
  BY <1>2, AllowedBounds DEF TypeInv
<1>4. FinishFile(st) \in StreamRecord /\ FinishFile(st).offset = st.offset
      /\ ~FinishFile(st).sending /\ FinishFile(st).fcgi = st.fcgi /\ FinishFile(st).kind = st.kind
  <2> HIDE DEF st
  <2> QED
    BY <1>1 DEF FinishFile, StreamRecord, Closed
<1>5. streams' = [streams EXCEPT ![s] = r]
  BY <1>2, <1>4
<1> DEFINE m == st.offset + n
<1>6. r \in StreamRecord /\ r.kind = st.kind /\ r.fcgi = "off" /\ (last => ~r.sending)
  <2>1. m \in 0 .. FileSize
    BY <1>3
  <2>2. r = IF last THEN [FinishFile(st) EXCEPT !.offset = m] ELSE [st EXCEPT !.offset = m]
    OBVIOUS
  <2> DEFINE z == FinishFile(st)
  <2> HIDE DEF m, st, last, z, r
  <2>3. [z EXCEPT !.offset = m] \in StreamRecord /\ [z EXCEPT !.offset = m].sending = z.sending
        /\ [z EXCEPT !.offset = m].kind = z.kind /\ [z EXCEPT !.offset = m].fcgi = z.fcgi
    BY <1>4, <2>1 DEF StreamRecord, z
  <2>4. [st EXCEPT !.offset = m] \in StreamRecord
        /\ [st EXCEPT !.offset = m].kind = st.kind /\ [st EXCEPT !.offset = m].fcgi = st.fcgi
    BY <1>1, <2>1 DEF StreamRecord
  <2> QED
    BY <1>2, <1>4, <2>2, <2>3, <2>4 DEF z
<1> HIDE DEF m, n, last, r, st
<1>7. f \in Frames /\ f.n = n
  BY <1>1, <1>3, FrameTyped
<1>8. ~ (f.n > FrameMax)
  <2>1. ~ (n > FrameMax)
    BY <1>3, Sizes
  <2> QED
    BY <1>7, <2>1
<1>9. Asks(fs)
  <2> HIDE DEF f
  <2> QED
    BY <1>2, <1>7, AsksOne
<1>10. fs \in Seq(Frames) /\ Short(fs)
  <2> HIDE DEF f
  <2> QED
    BY <1>7, <1>8, OneFrame
<1>11. TurnOutcome(s, st, r, fs)
  BY <1>2, <1>3, <1>6 DEF TurnOutcome
<1> HIDE DEF fs
<1> QED
  BY <1>5, <1>6, <1>9, <1>10, <1>11 DEF st

LEMMA TurnAsks ==
  ASSUME TypeInv, Output(out), NEW s \in Stream, Exists(s), StreamTurn(s)
  PROVE  \E r \in StreamRecord, fs \in Seq(Frames) :
           /\ streams' = [streams EXCEPT ![s] = r]
           /\ TurnOutcome(s, streams[s], r, fs) /\ Asks(fs)
           /\ Without({"bigheader"}) => Short(fs)
<1> DEFINE st == streams[s]
           none == <<>>
<1>1. st \in StreamRecord /\ streams \in [Stream -> StreamRecord \cup {NoStream}]
  BY Stored DEF TypeInv, Typed, TypeOK
<1>2. none \in Seq(Frames) /\ none = <<>> /\ Short(none) /\ (out' = out => Asks(none))
  BY AsksNone DEF Short
<1> HIDE DEF st, none
<1>3. ASSUME NEW r \in StreamRecord, streams' = [streams EXCEPT ![s] = r], out' = out,
             TurnOutcome(s, st, r, none)
      PROVE  \E x \in StreamRecord, fs \in Seq(Frames) :
               /\ streams' = [streams EXCEPT ![s] = x]
               /\ TurnOutcome(s, streams[s], x, fs) /\ Asks(fs)
               /\ Without({"bigheader"}) => Short(fs)
  BY <1>2, <1>3 DEF st
<1>4. CASE FileWaits(s) \/ FcgiWaits(s)
  <2>1. streams' = [streams EXCEPT ![s] = st] /\ out' = out
    BY <1>1, <1>4 DEF FileWaits, FcgiWaits, st
  <2>2. TurnOutcome(s, st, st, none)
    BY <1>2 DEF TurnOutcome, Calm
  <2> QED
    BY <1>1, <1>3, <2>1, <2>2
<1>5. CASE FileFails(s)
  <2> DEFINE r == FinishFile(st)
  <2>1. streams' = [streams EXCEPT ![s] = r] /\ out' = out
    BY <1>5 DEF FileFails, st
  <2>2. r \in StreamRecord /\ r.kind = st.kind /\ ~r.sending /\ r.fcgi = st.fcgi
    BY <1>1 DEF FinishFile, StreamRecord, Closed
  <2> HIDE DEF r
  <2>3. TurnOutcome(s, st, r, none)
    BY <1>2, <2>2 DEF TurnOutcome
  <2> QED
    BY <1>3, <2>1, <2>2, <2>3
<1>6. CASE FcgiSends(s) \/ FcgiFails(s)
  <2>1. PICK g \in {"off", "stdin", "recv"} : streams' = [streams EXCEPT ![s] = [st EXCEPT !.fcgi = g]]
    <3>1. CASE FcgiSends(s)
      <4> DEFINE g == IF st.fcgi = "params" /\ st.body THEN "stdin" ELSE "recv"
      <4>1. streams' = [streams EXCEPT ![s] = [st EXCEPT !.fcgi = g]]
        BY <3>1 DEF FcgiSends, st
      <4>2. g \in {"off", "stdin", "recv"}
        OBVIOUS
      <4> HIDE DEF g
      <4> QED
        BY <4>1, <4>2
    <3>2. CASE FcgiFails(s)
      BY <3>2 DEF FcgiFails, FcgiEnds, st
    <3> QED
      BY <1>6, <3>1, <3>2
  <2> DEFINE r == [st EXCEPT !.fcgi = g]
  <2>2. r \in StreamRecord /\ r.kind = st.kind /\ r.sending = st.sending
    BY <1>1 DEF StreamRecord
  <2>3. out' = out /\ st.fcgi # "off" /\ streams' = [streams EXCEPT ![s] = r]
    BY <1>6, <2>1 DEF FcgiSends, FcgiFails, FcgiTurn, st
  <2> HIDE DEF r
  <2>4. TurnOutcome(s, st, r, none)
    BY <1>2, <2>2, <2>3 DEF TurnOutcome
  <2> QED
    BY <1>3, <2>2, <2>3, <2>4
<1>7. CASE FcgiAnswers(s)
  BY <1>7, AnswerAsks
<1>8. CASE FileChunk(s)
  BY <1>8, ChunkAsks
<1> QED
  BY <1>4, <1>5, <1>6, <1>7, <1>8 DEF StreamTurn

(***************************************************************************)
(* The order of the bytes.                                                 *)
(***************************************************************************)

(* What was written and what is pending are the pieces of the frames asked *)
(* for, in that order, until a write fails or the session ends.            *)
OutInv == Output(out) /\ (pc = "closed" \/ Ordered(out))

LEMMA OutInit == Init => OutInv
<1> SUFFICES ASSUME Init PROVE OutInv
  OBVIOUS
<1> DEFINE w == PiecesOf(0)
           none == <<>>
<1>1. out = [wire |-> w, pending |-> none, asked |-> none, error |-> FALSE]
  BY DEF Init
<1>2. w \in Seq(Pieces) /\ Len(w) = 2 /\ w[1][1] = 0 /\ w[2][1] = 0
  <2> DEFINE i == 0
  <2>1. i \in Nat /\ i = 0
    OBVIOUS
  <2> HIDE DEF i
  <2>2. PiecesOf(i) \in Seq(Pieces) /\ Len(PiecesOf(i)) = 2
        /\ PiecesOf(i)[1] = <<i, 1>> /\ PiecesOf(i)[2] = <<i, 2>>
    BY <2>1, PiecesTyped
  <2> QED
    BY <2>1, <2>2
<1>3. none \in Seq(Counted) /\ none \in Seq(Pieces) /\ none = <<>>
  OBVIOUS
<1> HIDE DEF w, none
<1>4. out.wire = w /\ out.pending = none /\ out.asked = none
  BY <1>1
<1>5. Output(out)
  BY <1>1, <1>2, <1>3, <1>4 DEF Output
<1>6. Buffered(w) = none
  <2>1. \A j \in 1 .. Len(w) : w[j][1] = 0
    <3>1. \A j \in 1 .. 2 : j = 1 \/ j = 2
      OBVIOUS
    <3> QED
      BY <1>2, <3>1
  <2>2. none \o w = w
    BY <1>2, <1>3, ConcatEmptySeq
  <2>3. Buffered(none \o w) = Buffered(none)
    BY <1>2, <1>3, <2>1, BufferedDirect
  <2> QED
    BY <1>3, <2>2, <2>3, BufferedNone
<1>7. none \o none = AllPieces(Len(none))
  <2>1. none \o none = none
    BY <1>3, ConcatEmptySeq
  <2>2. Len(none) = 0
    BY <1>3
  <2> QED
    BY <1>3, <2>1, <2>2, NoPieces
<1>8. Ordered(out)
  BY <1>4, <1>6, <1>7 DEF Ordered
<1> QED
  BY <1>5, <1>8 DEF OutInv

LEMMA OutClose ==
  ASSUME OutInv, Close
  PROVE  OutInv'
<1>1. pc' = "closed" /\ out' = [out EXCEPT !.pending = <<>>]
  BY DEF Close
<1> DEFINE none == <<>>
<1>2. none \in Seq(Counted)
  OBVIOUS
<1>3. out' = [out EXCEPT !.pending = none]
  BY <1>1
<1> HIDE DEF none
<1>4. out' = [wire |-> out.wire, pending |-> none, asked |-> out.asked, error |-> out.error]
  BY <1>3 DEF OutInv, Output
<1>5. Output(out')
  BY <1>2, <1>4 DEF OutInv, Output
<1> QED
  BY <1>1, <1>5 DEF OutInv, Output

LEMMA OutFlush ==
  ASSUME OutInv, NEW n \in 0 .. Len(out.pending), Flush(n)
  PROVE  Output(out') /\ (Ordered(out) => Ordered(out')) /\ out'.asked = out.asked
<1> DEFINE w == out.wire
           p == out.pending
           a == w \o SubSeq(p, 1, n)
           b == SubSeq(p, n + 1, Len(p))
<1>1. out = [wire |-> w, pending |-> p, asked |-> out.asked, error |-> out.error]
      /\ w \in Seq(Pieces) /\ p \in Seq(Counted) /\ n \in 0 .. Len(p)
  BY DEF OutInv, Output
<1>2. out' = [[out EXCEPT !.wire = @ \o SubSeq(p, 1, n)]
                EXCEPT !.pending = SubSeq(@, n + 1, Len(@))]
  BY DEF Flush, Written
<1>3. out' = [wire |-> a, pending |-> b, asked |-> out.asked, error |-> out.error]
  <2>1. [out EXCEPT !.wire = @ \o SubSeq(p, 1, n)]
          = [wire |-> a, pending |-> p, asked |-> out.asked, error |-> out.error]
    <3> HIDE DEF p
    <3>1. [out EXCEPT !.wire = @ \o SubSeq(p, 1, n)] = [out EXCEPT !.wire = a]
      OBVIOUS
    <3> DEFINE c == out.asked
               e == out.error
    <3>2. out = [wire |-> w, pending |-> p, asked |-> c, error |-> e]
      BY <1>1
    <3> HIDE DEF w, a, c, e
    <3>3. [out EXCEPT !.wire = a] = [wire |-> a, pending |-> p, asked |-> c, error |-> e]
      BY <3>2
    <3> QED
      BY <3>1, <3>3 DEF c, e
  <2> HIDE DEF w, p, a
  <2>2. out' = [[wire |-> a, pending |-> p, asked |-> out.asked, error |-> out.error]
                  EXCEPT !.pending = SubSeq(@, n + 1, Len(@))]
    BY <1>2, <2>1
  <2>3. out' = [[wire |-> a, pending |-> p, asked |-> out.asked, error |-> out.error]
                  EXCEPT !.pending = b]
    BY <2>2
  <2> QED
    BY <2>3
<1>4. a \in Seq(Pieces) /\ b \in Seq(Counted) /\ Buffered(a) \o b = Buffered(w) \o p
  <2> HIDE DEF w, p
  <2> QED
    BY <1>1, MovePieces
<1> HIDE DEF a, b, p, w
<1>5. out'.wire = a /\ out'.pending = b /\ out'.asked = out.asked /\ out'.error = out.error
  BY <1>3
<1>6. Output(out')
  BY <1>3, <1>4, <1>5 DEF OutInv, Output
<1> QED
  BY <1>4, <1>5, <1>6 DEF Ordered, w, p

LEMMA OutDirect ==
  ASSUME Output(out), out' \in DirectSend(out)
  PROVE  /\ Output(out') /\ (Ordered(out) => Ordered(out'))
         /\ out'.asked = out.asked
<1> DEFINE d == PiecesOf(0)
           w == out.wire
<1>1. d \in Seq(Pieces) /\ Len(d) = 2 /\ d[1][1] = 0 /\ d[2][1] = 0
  <2> DEFINE i == 0
  <2>1. i \in Nat /\ i = 0
    OBVIOUS
  <2> HIDE DEF i
  <2>2. PiecesOf(i) \in Seq(Pieces) /\ Len(PiecesOf(i)) = 2
        /\ PiecesOf(i)[1] = <<i, 1>> /\ PiecesOf(i)[2] = <<i, 2>>
    BY <2>1, PiecesTyped
  <2> QED
    BY <2>1, <2>2
<1>2. PICK n \in 0 .. 2 : out' = [out EXCEPT !.wire = @ \o SubSeq(d, 1, n)]
  BY DEF DirectSend, Written, Piece
<1> DEFINE t == SubSeq(d, 1, n)
           a == w \o t
<1> HIDE DEF d
<1>3. t \in Seq(Pieces) /\ \A j \in 1 .. Len(t) : t[j][1] = 0
  <2>1. t \in Seq(Pieces) /\ Len(t) = n /\ \A j \in 1 .. n : t[j] = d[j]
    <3>1. n \in Nat /\ n <= Len(d) /\ d \in Seq(Pieces)
      BY <1>1
    <3>2. \A q \in Seq(Pieces) : \A k \in Nat : k <= Len(q) =>
            /\ SubSeq(q, 1, k) \in Seq(Pieces) /\ Len(SubSeq(q, 1, k)) = k
            /\ \A j \in 1 .. k : SubSeq(q, 1, k)[j] = q[j]
      OBVIOUS
    <3> QED
      BY <3>1, <3>2
  <2>2. \A j \in 1 .. n : j = 1 \/ j = 2
    OBVIOUS
  <2> HIDE DEF t
  <2> QED
    BY <1>1, <2>1, <2>2
<1>4. w \in Seq(Pieces)
      /\ out = [wire |-> w, pending |-> out.pending, asked |-> out.asked, error |-> out.error]
  BY DEF Output
<1>5. out' = [out EXCEPT !.wire = a]
  BY <1>2
<1> HIDE DEF t
<1>6. a \in Seq(Pieces) /\ Buffered(a) = Buffered(w)
  <2>1. a \in Seq(Pieces)
    <3> HIDE DEF w
    <3> QED
      BY <1>3, <1>4, ConcatProperties
  <2> HIDE DEF w
  <2> QED
    BY <1>3, <1>4, <2>1, BufferedDirect
<1> HIDE DEF a, w
<1>7. out' = [wire |-> a, pending |-> out.pending, asked |-> out.asked, error |-> out.error]
  BY <1>4, <1>5
<1>8. out'.wire = a /\ out'.pending = out.pending /\ out'.asked = out.asked
      /\ out'.error = out.error
  BY <1>7
<1>9. Output(out')
  BY <1>6, <1>7, <1>8 DEF Output
<1> QED
  BY <1>6, <1>8, <1>9 DEF Ordered, w

LEMMA OutStep == TypeInv /\ OutInv /\ [Next]_vars => OutInv'
<1> SUFFICES ASSUME TypeInv, OutInv, [Next]_vars PROVE OutInv'
  OBVIOUS
<1>0. Output(out)
  BY DEF OutInv
<1>1. ASSUME out' = out, pc # "closed" \/ pc' = "closed" PROVE OutInv'
  BY <1>1 DEF OutInv, Ordered, Output
<1>2. ASSUME Output(out'), Ordered(out) => Ordered(out'), pc # "closed" PROVE OutInv'
  BY <1>2 DEF OutInv, Ordered, Output
<1>3. CASE UNCHANGED vars
  <2>1. out' = out /\ pc' = pc
    BY <1>3 DEF vars
  <2> QED
    BY <1>1, <2>1
<1>4. CASE FlushFails \/ EndOfFile \/ PayloadTooLong
  BY <1>4, OutClose DEF FlushFails, EndOfFile, PayloadTooLong
<1>5. CASE Resume \/ NothingToFlush \/ WouldBlock \/ Collect \/ StreamsDone
  <2>1. out' = out
    BY <1>5 DEF Resume, NothingToFlush, WouldBlock, Collect, StreamsDone
  <2>2. pc # "closed"
    BY <1>5, LoopAside
  <2> QED
    BY <1>1, <2>1, <2>2
<1>6. ASSUME NEW n \in 0 .. Len(out.pending), Flush(n) PROVE OutInv'
  BY <1>2, <1>6, OutFlush DEF Flush
<1>7. ASSUME NEW n \in 1 .. Piece, ReadPreface(n) \/ ReadHeader(n) PROVE OutInv'
  <2>1. out' = out /\ pc # "closed"
    BY <1>7 DEF ReadPreface, ReadHeader
  <2> QED
    BY <1>1, <2>1
<1>8. ASSUME NEW n \in 0 .. Piece, ReadPayload(n) PROVE OutInv'
  <2>1. out' = out /\ pc # "closed"
    BY <1>8 DEF ReadPayload
  <2> QED
    BY <1>1, <2>1
<1>9. ASSUME NEW s \in Stream, StreamTurn(s) PROVE OutInv'
  <2>1. pc = "streams" /\ Exists(s)
    BY <1>9, TurnEffect
  <2>2. Output(out') /\ (Ordered(out) => Ordered(out'))
    BY <1>0, <1>9, <2>1, TurnAsks DEF Asks
  <2> QED
    BY <1>2, <2>1, <2>2
<1>10. CASE HandleHeaders
  <2>1. Output(out') /\ (Ordered(out) => Ordered(out'))
    BY <1>0, <1>10, HeadersAsk DEF Asks
  <2> QED
    BY <1>2, <1>10, <2>1 DEF HandleHeaders, At
<1>11. CASE HandleData
  <2>1. Output(out') /\ (Ordered(out) => Ordered(out'))
    BY <1>0, <1>11, DataAsk DEF Asks
  <2> QED
    BY <1>2, <1>11, <2>1 DEF HandleData, At
<1>12. CASE HandleSettings
  <2>1. Output(out') /\ (Ordered(out) => Ordered(out'))
    BY <1>0, <1>12, OutDirect DEF HandleSettings
  <2> QED
    BY <1>2, <1>12, <2>1 DEF HandleSettings, At
<1>13. CASE HandlePing
  <2> DEFINE f == Frame("PING", 0, 1, FALSE)
  <2>1. f \in Frames
    BY DEF Frame, Frames, StreamId
  <2>2. out' \in FrameSend(out, f) /\ pc # "closed"
    BY <1>13 DEF HandlePing, At
  <2> HIDE DEF f
  <2>3. Asks(<<f>>)
    BY <1>0, <2>1, <2>2, AsksOne
  <2> QED
    BY <1>2, <2>2, <2>3 DEF Asks
<1>14. CASE HandleReset \/ HandleWindowUpdate
  <2>1. out' = out /\ pc # "closed"
    BY <1>14 DEF HandleReset, HandleWindowUpdate, At
  <2> QED
    BY <1>1, <2>1
<1>15. CASE HandleGoaway
  BY <1>15, OutClose DEF HandleGoaway
<1> QED
  BY <1>3, <1>4, <1>5, <1>6, <1>7, <1>8, <1>9, <1>10, <1>11, <1>12, <1>13, <1>14, <1>15
     DEF Next, Step, Write, Read, Dispatch

(* WireOrder: whatever part of a frame the socket takes, and however often *)
(* the rest is flushed, the client gets the pieces of the frames in the    *)
(* order http2_frame_send was called: http2_frame_send appends behind a    *)
(* backlog and a flush takes from its front.                               *)
THEOREM OrderCorrect == Spec => []WireOrder
<1>1. OutInv => WireOrder
  BY DEF OutInv, Ordered, WireOrder
<1> QED
  BY <1>1, OutInit, OutStep, TypeInvariant, PTL DEF Spec

(***************************************************************************)
(* The shape of the answers.                                               *)
(***************************************************************************)

(* The frames of a on stream x that answer it, and how they look.          *)
Mine(a, x) == {i \in DOMAIN a : a[i].s = x /\ a[i].k # "WINDOW_UPDATE"}

Shaped(a, x) ==
  \A i \in Mine(a, x) :
    /\ (a[i].k = "DATA") <=> (\E j \in Mine(a, x) : j < i)
    /\ a[i].end \/ a[i].k = "RST" => (\A j \in Mine(a, x) : j <= i)

Begun(a, x) ==
  Mine(a, x) # {} /\ \A i \in Mine(a, x) : ~a[i].end /\ a[i].k # "RST"

LEMMA Joined ==
  ASSUME NEW a \in Seq(Frames), NEW b \in Seq(Frames)
  PROVE  /\ a \o b \in Seq(Frames)
         /\ \A i \in 1 .. Len(a) : i \in DOMAIN (a \o b) /\ (a \o b)[i] = a[i]
         /\ \A j \in 1 .. Len(b) : Len(a) + j \in DOMAIN (a \o b) /\ (a \o b)[Len(a) + j] = b[j]
         /\ \A i \in DOMAIN (a \o b) :
              i \in 1 .. Len(a) \/ \E j \in 1 .. Len(b) : i = Len(a) + j
<1> DEFINE c == a \o b
           m == Len(a)
           n == Len(b)
<1>1. m \in Nat /\ n \in Nat
  OBVIOUS
<1>2. /\ c \in Seq(Frames) /\ Len(c) = m + n
      /\ \A i \in 1 .. m + n : c[i] = IF i <= m THEN a[i] ELSE b[i - m]
  BY ConcatProperties
<1> HIDE DEF c, m, n
<1>3. DOMAIN c = 1 .. m + n
  BY <1>2
<1>4. \A i \in 1 .. m : i \in 1 .. m + n /\ i <= m
  BY <1>1
<1>5. \A j \in 1 .. n : m + j \in 1 .. m + n /\ ~ (m + j <= m) /\ (m + j) - m = j
  BY <1>1
<1>6. \A i \in 1 .. m + n : i \in 1 .. m \/ (i - m \in 1 .. n /\ i = m + (i - m))
  BY <1>1
<1> QED
  BY <1>2, <1>3, <1>4, <1>5, <1>6 DEF c, m, n

(* Frames of other streams, and credit given back, change nothing.         *)
LEMMA MineSame ==
  ASSUME NEW a \in Seq(Frames), NEW b \in Seq(Frames), NEW x,
         \A j \in 1 .. Len(b) : b[j].s # x \/ b[j].k = "WINDOW_UPDATE"
  PROVE  /\ Mine(a \o b, x) = Mine(a, x)
         /\ Shaped(a, x) => Shaped(a \o b, x)
         /\ Begun(a, x) => Begun(a \o b, x)
<1> DEFINE c == a \o b
<1>1. DOMAIN a = 1 .. Len(a)
  OBVIOUS
<1>2. /\ \A i \in 1 .. Len(a) : i \in DOMAIN c /\ c[i] = a[i]
      /\ \A j \in 1 .. Len(b) : Len(a) + j \in DOMAIN c /\ c[Len(a) + j] = b[j]
      /\ \A i \in DOMAIN c : i \in 1 .. Len(a) \/ \E j \in 1 .. Len(b) : i = Len(a) + j
  BY Joined
<1> HIDE DEF c
<1>3. Mine(c, x) = Mine(a, x)
  BY <1>1, <1>2 DEF Mine
<1>4. \A i \in Mine(a, x) : c[i] = a[i]
  BY <1>1, <1>2 DEF Mine
<1> QED
  BY <1>3, <1>4 DEF Shaped, Begun, c

(* The first frames of stream x.                                           *)
LEMMA MineFirst ==
  ASSUME NEW a \in Seq(Frames), NEW b \in Seq(Frames), NEW x,
         Mine(a, x) = {}, Response(x, b)
  PROVE  /\ Shaped(a \o b, x)
         /\ Len(b) = 1 /\ ~b[1].end /\ b[1].k # "RST" => Begun(a \o b, x)
<1> DEFINE c == a \o b
           m == Len(a)
           n == Len(b)
<1>1. DOMAIN a = 1 .. m /\ m \in Nat /\ n \in Nat /\ n # 0
  BY DEF Response
<1>2. /\ \A i \in 1 .. m : i \in DOMAIN c /\ c[i] = a[i]
      /\ \A j \in 1 .. n : m + j \in DOMAIN c /\ c[m + j] = b[j]
      /\ \A i \in DOMAIN c : i \in 1 .. m \/ \E j \in 1 .. n : i = m + j
  BY Joined
<1>3. \A j \in 1 .. n : /\ b[j].s = x /\ b[j].k \in {"HEADERS", "RST", "DATA"}
                        /\ b[j].k = "DATA" <=> 1 < j
                        /\ b[j].end \/ b[j].k = "RST" => j = n
  BY DEF Response
<1> HIDE DEF c, m, n
<1>4. \A i : i \in Mine(c, x) <=> \E j \in 1 .. n : i = m + j
  <2>1. ASSUME NEW i \in Mine(c, x) PROVE \E j \in 1 .. n : i = m + j
    <3>1. i \in DOMAIN c /\ c[i].s = x /\ c[i].k # "WINDOW_UPDATE"
      BY DEF Mine
    <3>2. i \notin 1 .. m
      BY <1>1, <1>2, <3>1 DEF Mine
    <3> QED
      BY <1>2, <3>1, <3>2
  <2>2. ASSUME NEW j \in 1 .. n PROVE m + j \in Mine(c, x)
    BY <1>2, <1>3 DEF Mine
  <2> QED
    BY <2>1, <2>2
<1>5. ASSUME NEW i \in Mine(c, x)
      PROVE  /\ (c[i].k = "DATA") <=> (\E j \in Mine(c, x) : j < i)
             /\ c[i].end \/ c[i].k = "RST" => (\A j \in Mine(c, x) : j <= i)
  <2>1. PICK p \in 1 .. n : i = m + p
    BY <1>4
  <2>2. c[i] = b[p] /\ p \in Nat /\ p <= n
    BY <1>1, <1>2, <2>1
  <2>3. 1 < p <=> \E j \in Mine(c, x) : j < i
    <3>1. ASSUME 1 < p PROVE \E j \in Mine(c, x) : j < i
      <4>1. 1 \in 1 .. n /\ m + 1 < m + p
        BY <1>1, <2>2, <3>1
      <4>2. m + 1 \in Mine(c, x)
        BY <1>4, <4>1
      <4> QED
        BY <2>1, <4>1, <4>2
    <3>2. ASSUME NEW j \in Mine(c, x), j < i PROVE 1 < p
      <4>1. PICK q \in 1 .. n : j = m + q
        BY <1>4
      <4> QED
        BY <1>1, <2>1, <2>2, <3>2, <4>1
    <3> QED
      BY <3>1, <3>2
  <2>4. ASSUME p = n, NEW j \in Mine(c, x) PROVE j <= i
    <3>1. PICK q \in 1 .. n : j = m + q
      BY <1>4
    <3> QED
      BY <1>1, <2>1, <2>4, <3>1
  <2> QED
    BY <1>3, <2>2, <2>3, <2>4
<1>6. ASSUME n = 1, ~b[1].end, b[1].k # "RST" PROVE Begun(c, x)
  <2>1. \A i : i \in Mine(c, x) <=> i = m + 1
    BY <1>4, <1>6
  <2>2. c[m + 1] = b[1]
    BY <1>2, <1>6
  <2> QED
    BY <1>6, <2>1, <2>2 DEF Begun
<1> QED
  BY <1>5, <1>6 DEF Shaped, c, n

(* One more DATA frame.                                                    *)
LEMMA MineNext ==
  ASSUME NEW a \in Seq(Frames), NEW f \in Frames, NEW x,
         Shaped(a, x), Begun(a, x), f.k = "DATA", f.s = x
  PROVE  Shaped(a \o <<f>>, x) /\ (~f.end => Begun(a \o <<f>>, x))
<1> DEFINE b == <<f>>
           c == a \o b
           m == Len(a)
<1>1. b \in Seq(Frames) /\ Len(b) = 1 /\ b[1] = f /\ DOMAIN a = 1 .. m /\ m \in Nat
  BY OneFrame
<1> HIDE DEF b
<1>2. /\ \A i \in 1 .. m : i \in DOMAIN c /\ c[i] = a[i]
      /\ \A j \in 1 .. Len(b) : m + j \in DOMAIN c /\ c[m + j] = b[j]
      /\ \A i \in DOMAIN c : i \in 1 .. m \/ \E j \in 1 .. Len(b) : i = m + j
  BY <1>1, Joined
<1> HIDE DEF c, m
<1>3. c[m + 1] = f /\ m + 1 \in DOMAIN c /\ \A i \in DOMAIN c : i \in 1 .. m \/ i = m + 1
  BY <1>1, <1>2
<1>4. \A i : i \in Mine(c, x) <=> i \in Mine(a, x) \/ i = m + 1
  <2>1. ASSUME NEW i \in Mine(c, x) PROVE i \in Mine(a, x) \/ i = m + 1
    BY <1>1, <1>2, <1>3 DEF Mine
  <2>2. ASSUME NEW i \in Mine(a, x) PROVE i \in Mine(c, x)
    BY <1>1, <1>2 DEF Mine
  <2>3. m + 1 \in Mine(c, x)
    BY <1>3 DEF Mine
  <2> QED
    BY <2>1, <2>2, <2>3
<1>5. \A i \in Mine(a, x) : /\ c[i] = a[i] /\ i \in Int /\ i < m + 1 /\ ~ (m + 1 < i)
                            /\ ~a[i].end /\ a[i].k # "RST"
  <2>1. \A i \in 1 .. m : i \in Int /\ i < m + 1 /\ ~ (m + 1 < i)
    BY <1>1
  <2> QED
    BY <1>1, <1>2, <2>1 DEF Mine, Begun
<1>6. ASSUME NEW i \in Mine(c, x)
      PROVE  /\ (c[i].k = "DATA") <=> (\E j \in Mine(c, x) : j < i)
             /\ c[i].end \/ c[i].k = "RST" => (\A j \in Mine(c, x) : j <= i)
  <2>1. CASE i \in Mine(a, x)
    <3>1. (\E j \in Mine(c, x) : j < i) <=> \E j \in Mine(a, x) : j < i
      BY <1>4, <1>5, <2>1
    <3> QED
      BY <1>5, <2>1, <3>1 DEF Shaped
  <2>2. CASE i = m + 1
    <3>1. \E j \in Mine(c, x) : j < i
      BY <1>4, <1>5, <2>2 DEF Begun
    <3>2. \A j \in Mine(c, x) : j <= i
      BY <1>1, <1>4, <1>5, <2>2
    <3> QED
      BY <1>3, <2>2, <3>1, <3>2
  <2> QED
    BY <1>4, <2>1, <2>2
<1>7. ASSUME ~f.end PROVE Begun(c, x)
  BY <1>3, <1>4, <1>5, <1>7 DEF Begun
<1> QED
  BY <1>6, <1>7 DEF Shaped, c, b

(* What stream x, st, was answered, when what is where its client stands.  *)
Fit(a, st, what, x) ==
  /\ what = "open" /\ st.kind # "upgrade" => Mine(a, x) = {} /\ ~st.sending /\ st.fcgi = "off"
  /\ st.fcgi # "off" => Mine(a, x) = {} /\ ~st.sending
  /\ st.sending => Begun(a, x)

(* An answer starts once, after the request, and goes on only from a file: *)
(* a stream is answered by its header, then by its file, or by a backend.  *)
ShapeInv ==
  Without({"again", "late", "more", "bigheader"}) =>
    /\ out.asked \in Seq(Frames)
    /\ \A x \in Stream : Shaped(out.asked, x)
    /\ pc # "closed" =>
         \A x \in Stream : IF Exists(x) THEN Fit(out.asked, streams[x], cl[x], x)
                           ELSE Mine(out.asked, x) = {}

LEMMA OutcomeShape ==
  ASSUME NEW a \in Seq(Frames), NEW s \in StreamId, NEW st, NEW t, NEW r, NEW what,
         NEW fs \in Seq(Frames), Mine(a, s) = {}, ~st.sending, st.fcgi = "off", Calm(st, t),
         Outcome(s, t, r, what, fs)
  PROVE  /\ Shaped(a \o fs, s) /\ Fit(a \o fs, r, what, s)
         /\ \A j \in 1 .. Len(fs) : fs[j].s = s
<1>1. ASSUME fs = <<>> PROVE a \o fs = a /\ Shaped(a, s) /\ \A j \in 1 .. Len(fs) : fs[j].s = s
  <2>1. a \o fs = a
    BY <1>1, ConcatEmptySeq
  <2> QED
    BY <1>1, <2>1 DEF Shaped
<1>2. ASSUME Response(s, fs)
      PROVE  /\ Shaped(a \o fs, s)
             /\ Len(fs) = 1 /\ ~fs[1].end /\ fs[1].k # "RST" => Begun(a \o fs, s)
             /\ \A j \in 1 .. Len(fs) : fs[j].s = s
  BY <1>2, MineFirst DEF Response
<1>3. CASE fs = <<>> /\ Calm(t, r)
  BY <1>1, <1>3 DEF Fit, Calm
<1>4. CASE Response(s, fs) /\ Calm(t, r) /\ (what # "open" \/ t.kind = "upgrade") /\ r.kind = t.kind
  <2> DEFINE c == a \o fs
  <2> HIDE DEF c
  <2>1. Fit(c, r, what, s)
    BY <1>4 DEF Fit, Calm
  <2> QED
    BY <1>2, <1>4, <2>1 DEF c
<1>5. CASE fs = <<>> /\ what # "open" /\ r.sending = t.sending /\ r.fcgi = "params"
  BY <1>1, <1>5 DEF Fit, Calm
<1>6. CASE fs = <<Header(s)>> /\ what # "open" /\ r.fcgi = t.fcgi
  <2> DEFINE c == a \o fs
             h == Header(s)
  <2>1. h \in Frames /\ ~h.end /\ h.k = "HEADERS"
    BY HeaderTyped
  <2>2. Response(s, <<h>>) /\ fs = <<h>>
    BY <1>6, LoneTyped
  <2> HIDE DEF h, c
  <2>3. Response(s, fs) /\ Len(fs) = 1 /\ fs[1] = h
    BY <2>1, <2>2, OneFrame
  <2>4. Begun(c, s)
    BY <1>2, <2>1, <2>3 DEF c
  <2>5. Fit(c, r, what, s)
    BY <1>6, <2>4 DEF Fit, Calm
  <2> QED
    BY <1>2, <2>3, <2>5 DEF c
<1> QED
  BY <1>3, <1>4, <1>5, <1>6 DEF Outcome

LEMMA TurnShape ==
  ASSUME NEW a \in Seq(Frames), NEW s \in StreamId, NEW fs \in Seq(Frames),
         NEW st, NEW r, NEW what,
         Shaped(a, s), Fit(a, st, what, s), TurnOutcome(s, st, r, fs)
  PROVE  /\ Shaped(a \o fs, s) /\ Fit(a \o fs, r, what, s)
         /\ \A j \in 1 .. Len(fs) : fs[j].s = s
<1>0. r.kind = st.kind
  BY DEF TurnOutcome
<1>1. ASSUME fs = <<>> PROVE a \o fs = a /\ Shaped(a, s) /\ \A j \in 1 .. Len(fs) : fs[j].s = s
  <2>1. a \o fs = a
    BY <1>1, ConcatEmptySeq
  <2> QED
    BY <1>1, <2>1
<1>2. CASE fs = <<>> /\ Calm(st, r)
  BY <1>0, <1>1, <1>2 DEF Fit, Calm
<1>3. CASE fs = <<>> /\ ~r.sending /\ r.fcgi = st.fcgi
  BY <1>0, <1>1, <1>3 DEF Fit
<1>4. CASE fs = <<>> /\ st.fcgi # "off" /\ r.sending = st.sending
  BY <1>0, <1>1, <1>4 DEF Fit
<1>5. CASE Response(s, fs) /\ st.fcgi # "off" /\ r.sending = st.sending /\ r.fcgi = "off"
  <2> DEFINE c == a \o fs
  <2>1. Mine(a, s) = {} /\ ~st.sending /\ ~ (what = "open" /\ st.kind # "upgrade")
    BY <1>5 DEF Fit
  <2>2. Shaped(c, s) /\ \A j \in 1 .. Len(fs) : fs[j].s = s
    BY <1>5, <2>1, MineFirst DEF Response
  <2> HIDE DEF c
  <2>3. Fit(c, r, what, s)
    BY <1>0, <1>5, <2>1 DEF Fit
  <2> QED
    BY <2>2, <2>3 DEF c
<1>6. CASE /\ st.sending /\ r.fcgi = "off"
           /\ \E n \in Nat, last \in BOOLEAN :
                fs = <<Frame("DATA", s, n, last)>> /\ (last => ~r.sending)
  <2>1. PICK n \in Nat, last \in BOOLEAN :
          fs = <<Frame("DATA", s, n, last)>> /\ (last => ~r.sending)
    BY <1>6
  <2> DEFINE f == Frame("DATA", s, n, last)
             c == a \o fs
  <2>2. f \in Frames /\ f.k = "DATA" /\ f.s = s /\ (f.end <=> last)
    BY FrameTyped
  <2>3. fs = <<f>>
    BY <2>1
  <2>4. Begun(a, s) /\ ~ (what = "open" /\ st.kind # "upgrade")
    BY <1>6 DEF Fit
  <2> HIDE DEF f, c
  <2>5. Shaped(c, s) /\ (~f.end => Begun(c, s))
    BY <2>2, <2>3, <2>4, MineNext DEF c
  <2>6. Fit(c, r, what, s)
    BY <1>0, <1>6, <2>1, <2>2, <2>4, <2>5 DEF Fit
  <2>7. \A j \in 1 .. Len(fs) : fs[j].s = s
    BY <2>2, <2>3
  <2> QED
    BY <2>5, <2>6, <2>7 DEF c
<1> QED
  BY <1>2, <1>3, <1>4, <1>5, <1>6 DEF TurnOutcome

(* A step that writes to stream s and asks for frames b of it.             *)
LEMMA ShapeChange ==
  ASSUME TypeInv, ShapeInv, pc # "closed", NEW s \in Stream, NEW r \in StreamRecord,
         NEW b \in Seq(Frames), world' = world,
         streams' = [streams EXCEPT ![s] = r],
         \A x \in Stream \ {s} : cl'[x] = cl[x],
         \A j \in 1 .. Len(b) : b[j].s = s \/ b[j].k = "WINDOW_UPDATE",
         Without({"again", "late", "more", "bigheader"}) =>
           /\ out'.asked = out.asked \o b
           /\ Shaped(out.asked \o b, s) /\ Fit(out.asked \o b, r, cl'[s], s)
  PROVE  ShapeInv'
<1> SUFFICES ASSUME Without({"again", "late", "more", "bigheader"})
             PROVE  /\ out'.asked \in Seq(Frames)
                    /\ \A x \in Stream : Shaped(out'.asked, x)
                    /\ \A x \in Stream : IF Exists(x)' THEN Fit(out'.asked, streams'[x], cl'[x], x)
                                         ELSE Mine(out'.asked, x) = {}
  BY DEF ShapeInv, Without
<1> DEFINE a == out.asked
           c == out'.asked
<1>1. /\ a \in Seq(Frames) /\ \A x \in Stream : Shaped(a, x)
      /\ \A x \in Stream : IF Exists(x) THEN Fit(a, streams[x], cl[x], x) ELSE Mine(a, x) = {}
  BY DEF ShapeInv
<1>2. c = a \o b /\ Shaped(c, s) /\ Fit(c, r, cl'[s], s)
  BY <1>1
<1>3. /\ streams \in [Stream -> StreamRecord \cup {NoStream}] /\ r # NoStream
      /\ streams'[s] = r /\ \A x \in Stream \ {s} : streams'[x] = streams[x]
  BY Stored DEF TypeInv, Typed, TypeOK
<1> HIDE DEF a, c
<1>4. c \in Seq(Frames)
  BY <1>1, <1>2, Joined
<1>5. ASSUME NEW x \in Stream \ {s}
      PROVE  /\ Shaped(c, x)
             /\ IF Exists(x)' THEN Fit(c, streams'[x], cl'[x], x) ELSE Mine(c, x) = {}
  <2>1. Mine(c, x) = Mine(a, x) /\ Shaped(c, x) /\ (Begun(a, x) => Begun(c, x))
    BY <1>1, <1>2, <1>5, MineSame
  <2>2. Exists(x)' <=> Exists(x)
    BY <1>3, <1>5 DEF Exists
  <2>3. streams'[x] = streams[x] /\ cl'[x] = cl[x]
    BY <1>3, <1>5
  <2>4. Fit(a, streams[x], cl[x], x) => Fit(c, streams[x], cl[x], x)
    BY <2>1 DEF Fit
  <2> QED
    BY <1>1, <2>1, <2>2, <2>3, <2>4
<1>6. \A x \in Stream : x = s => Exists(x)'
  BY <1>3 DEF Exists
<1> QED
  BY <1>2, <1>3, <1>4, <1>5, <1>6 DEF c

(* A step that asks for no answer.                                         *)
LEMMA ShapeAside ==
  ASSUME ShapeInv, pc # "closed" \/ pc' = "closed", world' = world, streams' = streams,
         NEW b \in Seq(Frames), out'.asked = out.asked \o b,
         \A j \in 1 .. Len(b) : b[j].s \notin Stream \/ b[j].k = "WINDOW_UPDATE",
         \A x \in Stream : Exists(x) => cl'[x] = cl[x] \/ cl'[x] # "open"
                                        \/ cl[x] = "open"
  PROVE  ShapeInv'
<1> SUFFICES ASSUME Without({"again", "late", "more", "bigheader"})
             PROVE  /\ out'.asked \in Seq(Frames)
                    /\ \A x \in Stream : Shaped(out'.asked, x)
                    /\ pc' # "closed" =>
                         \A x \in Stream : IF Exists(x)' THEN Fit(out'.asked, streams'[x], cl'[x], x)
                                           ELSE Mine(out'.asked, x) = {}
  BY DEF ShapeInv, Without
<1> DEFINE a == out.asked
           c == out'.asked
<1>1. /\ a \in Seq(Frames) /\ \A x \in Stream : Shaped(a, x)
      /\ pc # "closed" =>
           \A x \in Stream : IF Exists(x) THEN Fit(a, streams[x], cl[x], x) ELSE Mine(a, x) = {}
  BY DEF ShapeInv
<1>2. c = a \o b
  OBVIOUS
<1> HIDE DEF a, c
<1>3. c \in Seq(Frames)
  BY <1>1, <1>2, Joined
<1>4. ASSUME NEW x \in Stream
      PROVE  /\ Shaped(c, x)
             /\ pc' # "closed" => IF Exists(x)' THEN Fit(c, streams'[x], cl'[x], x)
                                  ELSE Mine(c, x) = {}
  <2>1. Mine(c, x) = Mine(a, x) /\ Shaped(c, x) /\ (Begun(a, x) => Begun(c, x))
    <3>1. \A j \in 1 .. Len(b) : b[j].s # x \/ b[j].k = "WINDOW_UPDATE"
      OBVIOUS
    <3>2. a \in Seq(Frames) /\ Shaped(a, x)
      BY <1>1
    <3> QED
      BY <1>2, <3>1, <3>2, MineSame
  <2>2. Exists(x)' <=> Exists(x)
    BY DEF Exists
  <2>3. Exists(x) /\ Fit(a, streams[x], cl[x], x) => Fit(c, streams[x], cl'[x], x)
    BY <2>1 DEF Fit
  <2> QED
    BY <1>1, <2>1, <2>2, <2>3
<1> QED
  BY <1>3, <1>4 DEF c

LEMMA ShapeSame ==
  ASSUME OutInv, ShapeInv, pc # "closed" \/ pc' = "closed", world' = world, streams' = streams,
         out'.asked = out.asked, cl' = cl
  PROVE  ShapeInv'
<1> DEFINE b == <<>>
<1>1. PICK A : out.asked \in Seq(A)
  BY DEF OutInv, Output
<1>2. out'.asked = out.asked \o b
  BY <1>1, ConcatEmptySeq
<1>3. b \in Seq(Frames) /\ \A j \in 1 .. Len(b) : b[j].s \notin Stream \/ b[j].k = "WINDOW_UPDATE"
  OBVIOUS
<1> HIDE DEF b
<1> QED
  BY <1>2, <1>3, ShapeAside

LEMMA ShapeClose ==
  ASSUME OutInv, ShapeInv, Close
  PROVE  ShapeInv'
<1>1. pc' = "closed" /\ out' = [out EXCEPT !.pending = <<>>] /\ world' = world
  BY DEF Close, client
<1>2. out'.asked = out.asked
  <2> DEFINE w == out.wire
             p == out.pending
             q == out.asked
             e == out.error
             none == <<>>
  <2>1. out = [wire |-> w, pending |-> p, asked |-> q, error |-> e]
    BY DEF OutInv, Output
  <2>2. out' = [out EXCEPT !.pending = none]
    BY <1>1
  <2> HIDE DEF w, p, q, e, none
  <2>3. out' = [wire |-> w, pending |-> none, asked |-> q, error |-> e]
    BY <2>1, <2>2
  <2>4. out'.asked = q
    BY <2>3
  <2> QED
    BY <2>4 DEF q
<1> QED
  BY <1>1, <1>2 DEF ShapeInv, Without

LEMMA ShapeTurn ==
  ASSUME TypeInv, OutInv, ShapeInv, NEW s \in Stream, StreamTurn(s)
  PROVE  ShapeInv'
<1>1. pc = "streams" /\ Exists(s) /\ UNCHANGED <<pc, client>>
  BY TurnEffect
<1>2. PICK r \in StreamRecord, fs \in Seq(Frames) :
        /\ streams' = [streams EXCEPT ![s] = r]
        /\ TurnOutcome(s, streams[s], r, fs) /\ Asks(fs)
        /\ Without({"bigheader"}) => Short(fs)
  BY <1>1, TurnAsks DEF OutInv
<1>3. world' = world /\ cl' = cl /\ s \in StreamId
  BY <1>1 DEF client, StreamId
<1>4. CASE Without({"again", "late", "more", "bigheader"})
  <2> DEFINE a == out.asked
             st == streams[s]
             what == cl[s]
  <2>1. a \in Seq(Frames) /\ Shaped(a, s) /\ Fit(a, st, what, s)
    BY <1>1, <1>4 DEF ShapeInv
  <2>2. out'.asked = a \o fs
    BY <1>2, <1>4 DEF Asks, Without
  <2>3. TurnOutcome(s, st, r, fs)
    BY <1>2
  <2> HIDE DEF a, st, what
  <2>4. /\ Shaped(a \o fs, s) /\ Fit(a \o fs, r, what, s)
        /\ \A j \in 1 .. Len(fs) : fs[j].s = s
    <3>1. s \in StreamId
      BY <1>3
    <3> HIDE <1>4
    <3> QED
      BY <2>1, <2>3, <3>1, TurnShape
  <2> QED
    BY <1>1, <1>2, <1>3, <2>2, <2>4, ShapeChange DEF a, what
<1>5. CASE ~Without({"again", "late", "more", "bigheader"})
  BY <1>3, <1>5 DEF ShapeInv, Without
<1> QED
  BY <1>4, <1>5

LEMMA ShapeHeaders ==
  ASSUME TypeInv, OutInv, ShapeInv, HandleHeaders
  PROVE  ShapeInv'
<1> DEFINE s == head.s
<1>1. pc = "dispatch" /\ FrameDone /\ s \in Stream /\ (cl[s] = "none" \/ "again" \in world.faults)
  BY HeadersEffect
<1>2. PICK what \in {"open", "ended", "refused"}, t \in StreamRecord, r \in StreamRecord,
           fs \in Seq(Frames) :
        /\ Told(s, what) /\ streams' = [streams EXCEPT ![s] = r]
        /\ Calm(GetOrCreate(s), t) /\ Outcome(s, t, r, what, fs)
        /\ Short(fs) /\ Asks(fs)
  BY HeadersAsk DEF OutInv
<1>3. /\ world' = world /\ s \in StreamId /\ cl'[s] = what
      /\ \A x \in Stream \ {s} : cl'[x] = cl[x]
  <2>1. cl \in [Stream -> {"none", "open", "ended", "refused", "reset"}]
    BY DEF TypeInv, Typed, TypeOK
  <2> HIDE DEF s
  <2> QED
    BY <1>1, <1>2, <2>1 DEF FrameDone, Told, StreamId
<1>4. CASE Without({"again", "late", "more", "bigheader"})
  <2> DEFINE a == out.asked
             st == GetOrCreate(s)
  <2>1. ~Exists(s) /\ st = NewStream
    BY <1>1, <1>4 DEF TypeInv, Known, Without, GetOrCreate
  <2>2. a \in Seq(Frames) /\ Mine(a, s) = {}
    BY <1>1, <1>4, <2>1 DEF ShapeInv
  <2>3. ~st.sending /\ st.fcgi = "off"
    BY <2>1 DEF NewStream
  <2>4. Calm(st, t) /\ out'.asked = a \o fs
    BY <1>2 DEF Asks
  <2> HIDE DEF a, st, s
  <2>5. /\ Shaped(a \o fs, s) /\ Fit(a \o fs, r, what, s)
        /\ \A j \in 1 .. Len(fs) : fs[j].s = s
    BY <1>2, <1>3, <2>2, <2>3, <2>4, OutcomeShape
  <2>6. pc # "closed"
    BY <1>1
  <2> QED
    BY <1>1, <1>2, <1>3, <2>4, <2>5, <2>6, ShapeChange DEF a
<1>5. CASE ~Without({"again", "late", "more", "bigheader"})
  BY <1>3, <1>5 DEF ShapeInv, Without
<1> QED
  BY <1>4, <1>5

LEMMA ShapeData ==
  ASSUME TypeInv, OutInv, ShapeInv, HandleData
  PROVE  ShapeInv'
<1> DEFINE s == head.s
           what == Progress(head.end)
           st == streams[s]
<1>1. pc = "dispatch" /\ FrameDone /\ s \in Stream /\ Exists(s) /\ head.k = "DATA"
  BY DataEffect DEF HandleData, At
<1>2. Told(s, what) /\ what \in {"open", "ended"}
  BY DEF HandleData, Progress
<1>3. PICK pre \in Seq(Frames), fs \in Seq(Frames) :
        /\ Asks(pre \o fs) /\ Short(pre) /\ Short(fs)
        /\ \A i \in 1 .. Len(pre) : pre[i].k = "WINDOW_UPDATE"
        /\ \/ streams' = streams /\ fs = <<>>
           \/ /\ st.kind # "upgrade"
              /\ \E t \in StreamRecord, r \in StreamRecord :
                   /\ streams' = [streams EXCEPT ![s] = r]
                   /\ Calm(st, t) /\ t.kind = st.kind
                   /\ Outcome(s, t, r, what, fs)
  BY DataAsk DEF OutInv
<1>4. /\ world' = world /\ s \in StreamId /\ cl'[s] = what
      /\ \A x \in Stream \ {s} : cl'[x] = cl[x]
  <2>1. cl \in [Stream -> {"none", "open", "ended", "refused", "reset"}]
    BY DEF TypeInv, Typed, TypeOK
  <2> HIDE DEF s, what
  <2> QED
    BY <1>1, <1>2, <2>1 DEF FrameDone, Told, StreamId
<1> DEFINE b == pre \o fs
<1>5. /\ b \in Seq(Frames)
      /\ \A j \in 1 .. Len(b) : \/ \E i \in 1 .. Len(pre) : b[j] = pre[i]
                                \/ \E i \in 1 .. Len(fs) : b[j] = fs[i]
  <2>1. /\ b \in Seq(Frames)
        /\ \A i \in 1 .. Len(pre) : b[i] = pre[i]
        /\ \A j \in 1 .. Len(fs) : b[Len(pre) + j] = fs[j]
        /\ \A i \in DOMAIN b : i \in 1 .. Len(pre) \/ \E j \in 1 .. Len(fs) : i = Len(pre) + j
    BY Joined
  <2> HIDE DEF b
  <2>2. ASSUME NEW j \in 1 .. Len(b)
        PROVE  \/ \E i \in 1 .. Len(pre) : b[j] = pre[i]
               \/ \E i \in 1 .. Len(fs) : b[j] = fs[i]
    <3>1. j \in DOMAIN b
      BY <2>1
    <3>2. CASE j \in 1 .. Len(pre)
      <4>1. b[j] = pre[j]
        BY <2>1, <3>2
      <4> QED
        BY <3>2, <4>1
    <3>3. ASSUME NEW i \in 1 .. Len(fs), j = Len(pre) + i
          PROVE  b[j] = fs[i]
      BY <2>1, <3>3
    <3> QED
      BY <2>1, <3>1, <3>2, <3>3
  <2> QED
    BY <2>1, <2>2
<1>6. Short(b)
  <2> HIDE DEF b
  <2> QED
    BY <1>3, <1>5 DEF Short
<1>7. CASE Without({"again", "late", "more", "bigheader"})
  <2> DEFINE a == out.asked
  <2>1. cl[s] = "open"
    <3>1. DataFor(cl[s], world.faults)
      BY <1>1 DEF TypeInv, Heading
    <3> HIDE DEF s
    <3> QED
      BY <1>7, <3>1 DEF DataFor, Without
  <2>2. a \in Seq(Frames) /\ Fit(a, st, cl[s], s)
    BY <1>1, <1>7 DEF ShapeInv
  <2>3. out'.asked = a \o b
    BY <1>3, <1>6 DEF Asks
  <2>4. pc # "closed"
    BY <1>1
  <2>5. CASE streams' = streams /\ fs = <<>>
    <3>1. \A j \in 1 .. Len(b) : b[j].k = "WINDOW_UPDATE"
      <4> HIDE DEF b
      <4>1. Len(fs) = 0
        BY <2>5
      <4> QED
        BY <1>3, <1>5, <4>1
    <3>2. \A x \in Stream : cl'[x] = cl[x] \/ cl[x] = "open"
      <4> HIDE DEF s
      <4> QED
        BY <1>4, <2>1
    <3> HIDE DEF b
    <3> QED
      BY <1>4, <1>5, <2>3, <2>4, <2>5, <3>1, <3>2, ShapeAside DEF a
  <2>6. ASSUME st.kind # "upgrade", NEW t \in StreamRecord, NEW r \in StreamRecord,
               streams' = [streams EXCEPT ![s] = r],
               Calm(st, t), t.kind = st.kind, Outcome(s, t, r, what, fs)
        PROVE  ShapeInv'
    <3> DEFINE p == a \o pre
    <3>1. Mine(a, s) = {} /\ ~st.sending /\ st.fcgi = "off"
      BY <2>1, <2>2, <2>6 DEF Fit
    <3>2. p \in Seq(Frames) /\ a \o b = p \o fs
      <4>1. a \in Seq(Frames)
        BY <2>2
      <4> HIDE DEF a
      <4>2. p \in Seq(Frames)
        BY <4>1, Joined
      <4>3. a \o b = p \o fs
        BY <4>1, ConcatAssociative
      <4> QED
        BY <4>2, <4>3
    <3>3. Mine(p, s) = {}
      <4> HIDE DEF a, s
      <4> QED
        BY <1>3, <2>2, <3>1, MineSame
    <3> HIDE DEF a, b, p, s, st, what
    <3>4. /\ Shaped(p \o fs, s) /\ Fit(p \o fs, r, what, s)
          /\ \A j \in 1 .. Len(fs) : fs[j].s = s
      BY <1>4, <2>6, <3>1, <3>2, <3>3, OutcomeShape
    <3>5. \A j \in 1 .. Len(b) : b[j].s = s \/ b[j].k = "WINDOW_UPDATE"
      BY <1>3, <1>5, <3>4
    <3>6. /\ out'.asked = out.asked \o b
          /\ Shaped(out.asked \o b, s) /\ Fit(out.asked \o b, r, cl'[s], s)
      BY <1>4, <2>3, <3>2, <3>4 DEF a
    <3> QED
      BY <1>1, <1>4, <1>5, <2>4, <2>6, <3>5, <3>6, ShapeChange
  <2> QED
    BY <1>3, <2>5, <2>6
<1>8. CASE ~Without({"again", "late", "more", "bigheader"})
  BY <1>4, <1>8 DEF ShapeInv, Without
<1> QED
  BY <1>7, <1>8

LEMMA ShapeReset ==
  ASSUME TypeInv, OutInv, ShapeInv, HandleReset
  PROVE  ShapeInv'
<1> DEFINE s == head.s
           st == streams[s]
           r == FinishFile(st)
           b == <<>>
<1>1. /\ pc = "dispatch" /\ FrameDone /\ s \in Stream /\ Exists(s) /\ Told(s, "reset")
      /\ streams' = [streams EXCEPT ![s] = r] /\ out' = out
  BY ResetEffect DEF HandleReset
<1>2. /\ world' = world /\ s \in StreamId /\ cl'[s] = "reset"
      /\ \A x \in Stream \ {s} : cl'[x] = cl[x]
  <2>1. cl \in [Stream -> {"none", "open", "ended", "refused", "reset"}]
    BY DEF TypeInv, Typed, TypeOK
  <2> HIDE DEF s, r
  <2> QED
    BY <1>1, <2>1 DEF FrameDone, Told, StreamId
<1>3. r \in StreamRecord /\ ~r.sending /\ r.fcgi = st.fcgi
  <2>1. st \in StreamRecord
    BY <1>1, Stored DEF TypeInv
  <2> HIDE DEF st
  <2> QED
    BY <2>1 DEF FinishFile, StreamRecord, Closed
<1>4. b \in Seq(Frames) /\ \A j \in 1 .. Len(b) : b[j].s = s \/ b[j].k = "WINDOW_UPDATE"
  OBVIOUS
<1>5. ASSUME Without({"again", "late", "more", "bigheader"})
      PROVE  /\ out'.asked = out.asked \o b
             /\ Shaped(out.asked \o b, s) /\ Fit(out.asked \o b, r, cl'[s], s)
  <2> DEFINE a == out.asked
  <2>1. a \in Seq(Frames) /\ Shaped(a, s) /\ Fit(a, st, cl[s], s)
    BY <1>1, <1>5 DEF ShapeInv
  <2>2. a \o b = a
    BY <2>1, ConcatEmptySeq
  <2> HIDE DEF a, b, r, st, s
  <2>3. Fit(a, r, cl'[s], s)
    BY <1>2, <1>3, <2>1 DEF Fit
  <2> QED
    BY <1>1, <2>1, <2>2, <2>3 DEF a
<1>6. pc # "closed"
  BY <1>1
<1> HIDE DEF b, r, s
<1> QED
  BY <1>1, <1>2, <1>3, <1>4, <1>5, <1>6, ShapeChange

LEMMA ShapeStep == TypeInv /\ OutInv /\ ShapeInv /\ [Next]_vars => ShapeInv'
<1> SUFFICES ASSUME TypeInv, OutInv, ShapeInv, [Next]_vars PROVE ShapeInv'
  OBVIOUS
<1>1. CASE UNCHANGED vars
  <2>1. UNCHANGED <<pc, world, streams, out, cl>>
    BY <1>1 DEF vars, client
  <2> QED
    BY <2>1, ShapeSame
<1>2. CASE FlushFails \/ EndOfFile \/ PayloadTooLong
  BY <1>2, ShapeClose DEF FlushFails, EndOfFile, PayloadTooLong
<1>3. CASE \/ Resume \/ NothingToFlush \/ WouldBlock \/ Collect \/ StreamsDone
           \/ \E n \in 0 .. Len(out.pending) : Flush(n)
           \/ \E n \in 1 .. Piece : ReadPreface(n) \/ ReadHeader(n)
           \/ \E n \in 0 .. Piece : ReadPayload(n)
  <2>1. Aside /\ pc # "closed"
    BY <1>3, LoopAside
  <2>2. out'.asked = out.asked
    <3>1. ASSUME NEW n \in 0 .. Len(out.pending), Flush(n) PROVE out'.asked = out.asked
      BY <3>1, OutFlush
    <3> QED
      BY <1>3, <3>1 DEF Resume, NothingToFlush, WouldBlock, Collect, StreamsDone, ReadPreface,
                        ReadHeader, ReadPayload
  <2> QED
    BY <2>1, <2>2, ShapeSame DEF Aside
<1>4. ASSUME NEW s \in Stream, StreamTurn(s) PROVE ShapeInv'
  BY <1>4, ShapeTurn
<1>5. CASE HandleSettings
  <2>1. UNCHANGED <<cl, streams, world>> /\ pc # "closed" /\ out' \in DirectSend(out)
    BY <1>5 DEF HandleSettings, At, FrameDone
  <2>2. out'.asked = out.asked
    BY <2>1, OutDirect DEF OutInv
  <2> QED
    BY <2>1, <2>2, ShapeSame
<1>6. CASE HandleWindowUpdate
  <2>1. UNCHANGED <<cl, streams, world, out>> /\ pc # "closed"
    BY <1>6 DEF HandleWindowUpdate, At, FrameDone
  <2> QED
    BY <2>1, ShapeSame
<1>7. CASE HandlePing
  <2> DEFINE f == Frame("PING", 0, 1, FALSE)
             b == <<f>>
  <2>1. UNCHANGED <<cl, streams, world>> /\ pc # "closed" /\ out' \in FrameSend(out, f)
    BY <1>7 DEF HandlePing, At, FrameDone
  <2>2. f \in Frames /\ f.s \notin Stream /\ ~ (f.n > FrameMax)
    BY Sizes DEF Frame, Frames, StreamId
  <2> HIDE DEF f
  <2>3. b \in Seq(Frames) /\ Len(b) = 1 /\ b[1] = f /\ Short(b)
    BY <2>2, OneFrame
  <2>4. Asks(b)
    BY <2>1, <2>2, AsksOne DEF OutInv
  <2> HIDE DEF b
  <2>5. out'.asked = out.asked \o b
    BY <2>3, <2>4 DEF Asks
  <2>6. \A j \in 1 .. Len(b) : b[j].s \notin Stream
    BY <2>2, <2>3
  <2> QED
    BY <2>1, <2>3, <2>5, <2>6, ShapeAside
<1> QED
  BY <1>1, <1>2, <1>3, <1>4, <1>5, <1>6, <1>7, ShapeHeaders, ShapeData, ShapeReset, ShapeClose
     DEF Next, Step, Write, Read, Dispatch, HandleGoaway

(* ResponseShape: http2_router_bridge runs once for a stream, when its     *)
(* request ended, and only a file goes on being sent afterwards, so that a *)
(* stream is answered with one HEADERS, first, and one END_STREAM, last;   *)
(* unless the client sends HEADERS or DATA where it may not, or a header   *)
(* is too long for a frame.                                                *)
THEOREM ShapeCorrect == Spec => []ResponseShape
<1>1. Init => ShapeInv
  <2> SUFFICES ASSUME Init PROVE ShapeInv
    OBVIOUS
  <2> DEFINE none == <<>>
  <2>1. out.asked = none /\ \A x \in Stream : ~Exists(x)
    BY DEF Init, Exists
  <2>2. none \in Seq(Frames) /\ Len(none) = 0
    OBVIOUS
  <2> HIDE DEF none
  <2>3. \A x \in Stream : Mine(none, x) = {}
    BY <2>2 DEF Mine
  <2> QED
    BY <2>1, <2>2, <2>3 DEF ShapeInv, Shaped
<1>2. ShapeInv => ResponseShape
  BY DEF ShapeInv, Shaped, Mine, ResponseShape
<1> QED
  BY <1>1, <1>2, ShapeStep, OutInit, OutStep, TypeInvariant, PTL DEF Spec

================================================================================
