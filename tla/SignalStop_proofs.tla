--------------------------- MODULE SignalStop_proofs ---------------------------
(***************************************************************************)
(* Wherever a signal lands, global_queue.lock belongs to the one thread    *)
(* that is inside a region: proofs about SignalStop, for every number of   *)
(* workers and of signals and for both values of Anywhere. And that the    *)
(* logger beside it loses and reorders no line: proofs about Background.   *)
(***************************************************************************)
EXTENDS Background, WellFoundedInduction, TLAPS

Point == CodePoint \cup HandlerPoint

(* A stack has one frame of code, and handlers above it.                   *)
Stack == {s \in Seq(Point) : /\ Len(s) >= 1 /\ s[1] \in CodePoint
                             /\ \A i \in 2 .. Len(s) : s[i] \in HandlerPoint}

(* The frames of a stack that are inside a region. *)
Inside(s) == {i \in DOMAIN s : s[i] \in HoldsLock}

(* The owner is inside one region, and nobody else is inside any.          *)
LockedBy(fr, own) ==
  \A t \in Thread : /\ own # t => Inside(fr[t]) = {}
                    /\ own = t => \E i : Inside(fr[t]) = {i}

(* The inductive invariant: Exclusion alone does not say that a thread is  *)
(* inside one region only, so that leaving it frees the lock.              *)
Safe(fr, own) ==
  /\ fr \in [Thread -> Stack]
  /\ own \in Thread \cup {Free}
  /\ LockedBy(fr, own)

IInv == Safe(frames, owner)

(* A frame on top is code if it is the only one and a handler otherwise.   *)
LEMMA TopFrame ==
  ASSUME NEW s \in Stack
  PROVE  /\ Len(s) \in DOMAIN s
         /\ s[Len(s)] \in CodePoint => Len(s) = 1
         /\ s[Len(s)] \in HandlerPoint => Len(s) # 1
  <1>1. s \in Seq(Point) /\ Len(s) >= 1 /\ Len(s) \in Nat /\ DOMAIN s = 1 .. Len(s)
    BY DEF Stack
  <1>2. CodePoint \cap HandlerPoint = {}
    BY DEF CodePoint, HandlerPoint
  <1> QED
    BY <1>1, <1>2 DEF Stack

(* Replacing the frame on top by one of its own kind. *)
LEMMA TopReplaced ==
  ASSUME NEW s \in Stack, NEW p,
         \/ s[Len(s)] \in CodePoint /\ p \in CodePoint
         \/ s[Len(s)] \in HandlerPoint /\ p \in HandlerPoint
  PROVE  LET r == [s EXCEPT ![Len(s)] = p]
         IN  /\ r \in Stack
             /\ p \in HoldsLock => Inside(r) = Inside(s) \cup {Len(s)}
             /\ p \notin HoldsLock => Inside(r) = Inside(s) \ {Len(s)}
  <1> DEFINE r == [s EXCEPT ![Len(s)] = p]
  <1>1. s \in Seq(Point) /\ Len(s) \in Nat /\ Len(s) >= 1 /\ DOMAIN s = 1 .. Len(s)
    BY DEF Stack
  <1>2. p \in Point
    BY DEF Point
  <1>3. r \in Seq(Point) /\ Len(r) = Len(s) /\ DOMAIN r = DOMAIN s
    BY <1>1, <1>2
  <1>4. \A i \in DOMAIN s : r[i] = IF i = Len(s) THEN p ELSE s[i]
    BY <1>1
  <1> HIDE DEF r
  <1>5. s[1] \in CodePoint /\ \A i \in 2 .. Len(s) : s[i] \in HandlerPoint
    BY DEF Stack
  <1>6. /\ p \in CodePoint => Len(s) = 1
        /\ p \in HandlerPoint => Len(s) # 1
    BY TopFrame DEF CodePoint, HandlerPoint
  <1>7. r[1] \in CodePoint /\ \A i \in 2 .. Len(r) : r[i] \in HandlerPoint
    BY <1>1, <1>3, <1>4, <1>5, <1>6
  <1>8. r \in Stack
    BY <1>1, <1>3, <1>7 DEF Stack
  <1>9. Len(s) \in DOMAIN s
    BY TopFrame
  <1>10. /\ p \in HoldsLock => Inside(r) = Inside(s) \cup {Len(s)}
         /\ p \notin HoldsLock => Inside(r) = Inside(s) \ {Len(s)}
    BY <1>3, <1>4, <1>9 DEF Inside
  <1> QED
    BY <1>8, <1>10, Zenon DEF r

(* A handler put on top of a stack, and taken off it. *)
LEMMA Pushed ==
  ASSUME NEW s \in Stack
  PROVE  /\ Append(s, "handler") \in Stack
         /\ Inside(Append(s, "handler")) = Inside(s)
  <1> DEFINE r == Append(s, "handler")
  <1>1. s \in Seq(Point) /\ Len(s) \in Nat /\ Len(s) >= 1 /\ DOMAIN s = 1 .. Len(s)
    BY DEF Stack
  <1>2. "handler" \in Point /\ "handler" \in HandlerPoint /\ "handler" \notin HoldsLock
    BY DEF Point, HandlerPoint, HoldsLock
  <1>3. /\ r \in Seq(Point) /\ Len(r) = Len(s) + 1 /\ DOMAIN r = 1 .. Len(s) + 1
        /\ r[Len(s) + 1] = "handler" /\ \A i \in 1 .. Len(s) : r[i] = s[i]
    BY <1>1, <1>2
  <1> HIDE DEF r
  <1>4. r[1] \in CodePoint /\ \A i \in 2 .. Len(r) : r[i] \in HandlerPoint
    BY <1>1, <1>2, <1>3 DEF Stack
  <1>5. r \in Stack
    BY <1>1, <1>3, <1>4 DEF Stack
  <1>6. Inside(r) = Inside(s)
    BY <1>1, <1>2, <1>3 DEF Inside
  <1> QED
    BY <1>5, <1>6 DEF r

LEMMA Popped ==
  ASSUME NEW s \in Stack, s[Len(s)] \in HandlerPoint
  PROVE  LET r == SubSeq(s, 1, Len(s) - 1)
         IN  r \in Stack /\ Inside(r) = Inside(s) \ {Len(s)}
  <1> DEFINE r == SubSeq(s, 1, Len(s) - 1)
  <1>1. s \in Seq(Point) /\ Len(s) \in Nat /\ Len(s) >= 2 /\ DOMAIN s = 1 .. Len(s)
    BY TopFrame DEF Stack
  <1>2. /\ r \in Seq(Point) /\ Len(r) = Len(s) - 1 /\ DOMAIN r = 1 .. Len(s) - 1
        /\ \A i \in 1 .. Len(s) - 1 : r[i] = s[i]
    BY <1>1
  <1> HIDE DEF r
  <1>3. r \in Stack
    BY <1>1, <1>2 DEF Stack
  <1>4. Inside(r) = Inside(s) \ {Len(s)}
    BY <1>1, <1>2 DEF Inside
  <1> QED
    BY <1>3, <1>4 DEF r

(* A broadcast moves nobody into a region or out of one. *)
LEMMA Woken ==
  ASSUME NEW fr \in [Thread -> Stack]
  PROVE  /\ WakeAll(fr) \in [Thread -> Stack]
         /\ \A t \in Thread : Inside(WakeAll(fr)[t]) = Inside(fr[t])
  <1>1. SUFFICES ASSUME NEW t \in Thread
                 PROVE  /\ WakeAll(fr)[t] \in Stack
                        /\ Inside(WakeAll(fr)[t]) = Inside(fr[t])
    BY DEF WakeAll
  <1> DEFINE s == fr[t]
             r == [s EXCEPT ![1] = "relock"]
  <1>2. s \in Stack /\ s \in Seq(Point) /\ Len(s) \in Nat /\ Len(s) >= 1 /\ DOMAIN s = 1 .. Len(s)
    BY DEF Stack
  <1>3. CASE s[1] = "asleep"
    <2>1. WakeAll(fr)[t] = r
      BY <1>3 DEF WakeAll
    <2>2. /\ r \in Seq(Point) /\ Len(r) = Len(s) /\ DOMAIN r = 1 .. Len(s)
          /\ r[1] = "relock" /\ \A i \in 2 .. Len(s) : r[i] = s[i]
      BY <1>2 DEF Point, CodePoint
    <2> HIDE DEF r
    <2>3. r \in Stack
      BY <1>2, <2>2 DEF Stack, CodePoint
    <2>4. s[1] \notin HoldsLock /\ r[1] \notin HoldsLock
      BY <1>3, <2>2 DEF HoldsLock
    <2>5. Inside(r) = Inside(s)
      BY <1>2, <2>2, <2>4 DEF Inside
    <2> QED
      BY <2>1, <2>3, <2>5
  <1>4. CASE s[1] # "asleep"
    BY <1>2, <1>4 DEF WakeAll
  <1> QED
    BY <1>3, <1>4

-----------------------------------------------------------------------------
(* What a step does to the stack of one thread, the others being as they   *)
(* were: the thread stays where it is with respect to the lock, takes it,  *)
(* or gives it back.                                                       *)
LEMMA Stays ==
  ASSUME NEW fr, LockedBy(frames, owner),
         \A t \in Thread : Inside(fr[t]) = Inside(frames[t])
  PROVE  LockedBy(fr, owner)
  BY DEF LockedBy

LEMMA Takes ==
  ASSUME NEW fr, NEW u \in Thread, NEW i, LockedBy(frames, owner), owner = Free,
         Inside(fr[u]) = Inside(frames[u]) \cup {i},
         \A t \in Thread \ {u} : Inside(fr[t]) = Inside(frames[t])
  PROVE  LockedBy(fr, u)
  BY ThreadsAssumption DEF LockedBy, Thread

LEMMA Releases ==
  ASSUME NEW fr, NEW u \in Thread, NEW i \in Inside(frames[u]), LockedBy(frames, owner),
         Inside(fr[u]) = Inside(frames[u]) \ {i},
         \A t \in Thread \ {u} : Inside(fr[t]) = Inside(frames[t])
  PROVE  LockedBy(fr, Free)
  BY ThreadsAssumption DEF LockedBy, Thread

(* A frame on top of its stack moves on. *)
LEMMA Moved ==
  ASSUME NEW u \in Thread, NEW p, frames \in [Thread -> Stack],
         \/ Top(u) \in CodePoint /\ p \in CodePoint
         \/ Top(u) \in HandlerPoint /\ p \in HandlerPoint
  PROVE  LET i == Len(frames[u])
         IN  /\ SetTop(u, p) \in [Thread -> Stack]
             /\ Top(u) \in HoldsLock => i \in Inside(frames[u])
             /\ Top(u) \notin HoldsLock => Inside(frames[u]) \ {i} = Inside(frames[u])
             /\ p \in HoldsLock => Inside(SetTop(u, p)[u]) = Inside(frames[u]) \cup {i}
             /\ p \notin HoldsLock => Inside(SetTop(u, p)[u]) = Inside(frames[u]) \ {i}
             /\ \A t \in Thread \ {u} : Inside(SetTop(u, p)[t]) = Inside(frames[t])
  <1> DEFINE s == frames[u]
             r == [s EXCEPT ![Len(s)] = p]
  <1>1. s \in Stack /\ Top(u) = s[Len(s)]
    BY DEF Top
  <1>2. /\ r \in Stack
        /\ p \in HoldsLock => Inside(r) = Inside(s) \cup {Len(s)}
        /\ p \notin HoldsLock => Inside(r) = Inside(s) \ {Len(s)}
    BY <1>1, TopReplaced
  <1>3. SetTop(u, p) = [frames EXCEPT ![u] = r]
    BY DEF SetTop
  <1> HIDE DEF r
  <1>4. /\ SetTop(u, p) \in [Thread -> Stack]
        /\ SetTop(u, p)[u] = r
        /\ \A t \in Thread \ {u} : SetTop(u, p)[t] = frames[t]
    BY <1>2, <1>3
  <1>5. /\ Top(u) \in HoldsLock => Len(s) \in Inside(s)
        /\ Top(u) \notin HoldsLock => Inside(s) \ {Len(s)} = Inside(s)
    BY <1>1, TopFrame DEF Inside
  <1> QED
    BY <1>2, <1>4, <1>5

(* The three kinds of steps that move the frame on top. *)
LEMMA MoveOn ==
  ASSUME IInv, NEW u \in Thread, NEW p,
         Top(u) \notin HoldsLock, p \notin HoldsLock,
         \/ Top(u) \in CodePoint /\ p \in CodePoint
         \/ Top(u) \in HandlerPoint /\ p \in HandlerPoint
  PROVE  Safe(SetTop(u, p), owner)
  <1> USE DEF IInv, Safe
  <1>1. SetTop(u, p) \in [Thread -> Stack]
    BY Moved
  <1>2. \A t \in Thread : Inside(SetTop(u, p)[t]) = Inside(frames[t])
    BY Moved
  <1> QED
    BY <1>1, <1>2, Stays

LEMMA MoveIn ==
  ASSUME IInv, NEW u \in Thread, NEW p, owner = Free, p \in HoldsLock,
         \/ Top(u) \in CodePoint /\ p \in CodePoint
         \/ Top(u) \in HandlerPoint /\ p \in HandlerPoint
  PROVE  Safe(SetTop(u, p), u)
  <1> USE DEF IInv, Safe
  <1>1. SetTop(u, p) \in [Thread -> Stack]
    BY Moved
  <1>2. /\ Inside(SetTop(u, p)[u]) = Inside(frames[u]) \cup {Len(frames[u])}
        /\ \A t \in Thread \ {u} : Inside(SetTop(u, p)[t]) = Inside(frames[t])
    BY Moved
  <1> QED
    BY <1>1, <1>2, Takes

LEMMA MoveOut ==
  ASSUME IInv, NEW u \in Thread, NEW p,
         Top(u) \in HoldsLock, p \notin HoldsLock,
         \/ Top(u) \in CodePoint /\ p \in CodePoint
         \/ Top(u) \in HandlerPoint /\ p \in HandlerPoint
  PROVE  Safe(SetTop(u, p), Free)
  <1> USE DEF IInv, Safe
  <1>1. SetTop(u, p) \in [Thread -> Stack]
    BY Moved
  <1>2. /\ Len(frames[u]) \in Inside(frames[u])
        /\ Inside(SetTop(u, p)[u]) = Inside(frames[u]) \ {Len(frames[u])}
        /\ \A t \in Thread \ {u} : Inside(SetTop(u, p)[t]) = Inside(frames[t])
    BY Moved
  <1> QED
    BY <1>1, <1>2, Releases

(* A thread that waits is woken by one that leaves the lock. *)
LEMMA WakesAll ==
  ASSUME NEW fr, NEW own, Safe(fr, own)
  PROVE  Safe(WakeAll(fr), own)
  BY Woken DEF Safe, LockedBy

LEMMA WakesMain ==
  ASSUME NEW fr, NEW own, Safe(fr, own), fr[Main][1] = "exitwait"
  PROVE  Safe([fr EXCEPT ![Main][1] = "relock"], own)
  <1> DEFINE s == fr[Main]
             r == [s EXCEPT ![1] = "relock"]
             new == [fr EXCEPT ![Main] = r]
  <1>1. Main \in Thread /\ s \in Stack
    BY DEF Thread, Safe
  <1>2. s \in Seq(Point) /\ Len(s) \in Nat /\ Len(s) >= 1 /\ DOMAIN s = 1 .. Len(s)
    BY <1>1 DEF Stack
  <1>3. /\ r \in Seq(Point) /\ Len(r) = Len(s) /\ DOMAIN r = 1 .. Len(s)
        /\ r[1] = "relock" /\ \A i \in 2 .. Len(s) : r[i] = s[i]
    BY <1>2 DEF Point, CodePoint
  <1> HIDE DEF r
  <1>4. r \in Stack
    BY <1>1, <1>2, <1>3 DEF Stack, CodePoint
  <1>5. s[1] \notin HoldsLock /\ r[1] \notin HoldsLock
    BY <1>3 DEF HoldsLock
  <1>6. Inside(r) = Inside(s)
    BY <1>2, <1>3, <1>5 DEF Inside
  <1>7. /\ new \in [Thread -> Stack]
        /\ \A t \in Thread : Inside(new[t]) = Inside(fr[t])
    BY <1>1, <1>4, <1>6 DEF Safe
  <1>8. Safe(new, own)
    BY <1>7 DEF Safe, LockedBy
  <1> QED
    BY <1>8 DEF r

-----------------------------------------------------------------------------
LEMMA InitSafe == Init => IInv
  <1>1. SUFFICES ASSUME Init PROVE Safe(frames, owner)
    BY DEF IInv
  <1>2. <<"run">> \in Stack /\ Inside(<<"run">>) = {}
    BY DEF Stack, Point, CodePoint, HandlerPoint, Inside, HoldsLock
  <1>3. frames \in [Thread -> Stack]
    BY <1>1, <1>2 DEF Init
  <1>4. \A t \in Thread : owner # t /\ Inside(frames[t]) = {}
    BY <1>1, <1>2, ThreadsAssumption DEF Init, Thread
  <1> QED
    BY <1>1, <1>3, <1>4 DEF Init, Safe, LockedBy

LEMMA NextSafe == IInv /\ [Next]_vars => IInv'
  <1> SUFFICES ASSUME IInv, [Next]_vars PROVE Safe(frames', owner')
    BY DEF IInv, Safe, LockedBy, Inside
  <1> USE DEF CodePoint, HandlerPoint, HoldsLock
  <1>1. ASSUME NEW t \in Thread, Lock(t) PROVE Safe(frames', owner')
    BY <1>1, MoveIn DEF Lock, Acquire, Goto
  <1>2. ASSUME NEW t \in Thread, Unlock(t) PROVE Safe(frames', owner')
    <2>1. /\ t \in Thread /\ Top(t) = "locked" /\ owner' = Free
          /\ frames' = SetTop(t, IF t = Main THEN "run" ELSE "serve")
      BY <1>2 DEF Unlock, Release, Goto
    <2> QED
      BY <2>1, MoveOut
  <1>3. ASSUME NEW t \in Thread, Wait(t) PROVE Safe(frames', owner')
    BY <1>3, MoveOut DEF Wait, Release, Goto
  <1>4. ASSUME NEW w \in Worker, Wake(w) PROVE Safe(frames', owner')
    BY <1>4, MoveOn DEF Wake, Goto, Thread
  <1>5. ASSUME NEW t \in Thread, Relock(t) PROVE Safe(frames', owner')
    BY <1>5, MoveIn DEF Relock, Acquire, Goto
  <1>6. ASSUME NEW t \in Thread, Leave(t) PROVE Safe(frames', owner')
    <2> DEFINE gone == SetTop(t, "gone")
    <2>1. Safe(gone, Free)
      BY <1>6, MoveOut DEF Leave
    <2> HIDE DEF gone
    <2>2. /\ owner' = Free
          /\ frames' = IF gone[Main][1] = "exitwait"
                         THEN [gone EXCEPT ![Main][1] = "relock"] ELSE gone
      BY <1>6 DEF Leave, Release, gone
    <2> QED
      BY <2>1, <2>2, WakesMain
  <1>7. CASE LoopEnds
    BY <1>7, MoveOn DEF LoopEnds, Goto, Thread
  <1>8. CASE StopLock
    <2>1. Safe(SetTop(Main, "stopping"), Main)
      BY <1>8, MoveIn DEF StopLock, Acquire, Thread
    <2> QED
      BY <1>8, <2>1, WakesAll DEF StopLock, Acquire
  <1>9. CASE StopWait
    BY <1>9, MoveOut DEF StopWait, Release, Goto, Thread
  <1>10. ASSUME NEW t \in Thread, Deliver(t) PROVE Safe(frames', owner')
    <2> DEFINE s == frames[t]
               r == Append(s, "handler")
    <2>1. r \in Stack /\ Inside(r) = Inside(s)
      BY Pushed DEF IInv, Safe
    <2> HIDE DEF r
    <2>2. frames' = [frames EXCEPT ![t] = r] /\ owner' = owner
      BY <1>10 DEF Deliver, r
    <2> QED
      BY <2>1, <2>2 DEF IInv, Safe, LockedBy
  <1>11. ASSUME NEW t \in Thread, ClearRunning(t) PROVE Safe(frames', owner')
    BY <1>11, MoveOn DEF ClearRunning, Goto
  <1>12. ASSUME NEW t \in Thread, HandlerLock(t) PROVE Safe(frames', owner')
    BY <1>12, MoveIn DEF HandlerLock, Acquire, Goto
  <1>13. ASSUME NEW t \in Thread, HandlerReturn(t) PROVE Safe(frames', owner')
    <2> DEFINE s == frames[t]
               r == SubSeq(s, 1, Len(s) - 1)
               new == [frames EXCEPT ![t] = r]
    <2>1. s \in Stack /\ s[Len(s)] = "handling"
      BY <1>13 DEF IInv, Safe, HandlerReturn, Top
    <2>2. r \in Stack /\ Inside(r) = Inside(s) \ {Len(s)} /\ Len(s) \in Inside(s)
      BY <2>1, Popped, TopFrame DEF Inside
    <2>3. frames' = WakeAll(new) /\ owner' = Free
      BY <1>13 DEF HandlerReturn, Release
    <2> HIDE DEF r
    <2>4. /\ new \in [Thread -> Stack] /\ new[t] = r
          /\ \A u \in Thread \ {t} : new[u] = frames[u]
      BY <2>2 DEF IInv, Safe
    <2> HIDE DEF new
    <2>5. LockedBy(new, Free)
      BY <2>2, <2>4, Releases DEF IInv, Safe
    <2>6. Safe(new, Free)
      BY <2>4, <2>5 DEF Safe
    <2> QED
      BY <2>3, <2>6, WakesAll
  <1>14. ASSUME NEW w \in Worker, DispatchEnds(w) PROVE Safe(frames', owner')
    BY <1>14, MoveOn DEF DispatchEnds, Goto, Thread
  <1>15. CASE UNCHANGED vars
    BY <1>15 DEF vars, IInv
  <1> QED
    BY <1>1, <1>2, <1>3, <1>4, <1>5, <1>6, <1>7, <1>8, <1>9, <1>10, <1>11, <1>12,
       <1>13, <1>14, <1>15
    DEF Next, ThreadStep

(* Exclusion is what the invariant says of a thread's own frames. *)
LEMMA SafeExclusion == IInv => Exclusion
  BY DEF IInv, Safe, LockedBy, Inside, Exclusion

(* The lock belongs to exactly the thread that has a frame inside a region *)
(* of global_queue.lock, the frames below a handler included: true even    *)
(* where a signal lands inside a region, as then the handler never gets    *)
(* the lock.                                                               *)
THEOREM ExclusionCorrect == Spec => []Exclusion
  <1>1. Spec => []IInv
    BY InitSafe, NextSafe, PTL DEF Spec
  <1> QED
    BY <1>1, SafeExclusion, PTL
-----------------------------------------------------------------------------
(***************************************************************************)
(* The lines of the logger, from their writers to the file: proofs about   *)
(* Background, for every length of the queue and every number of workers   *)
(* and signals.                                                            *)
(***************************************************************************)

(* A set of numbers has a least one; what a recursive function computes is *)
(* proved by looking at the least number where it would fail.              *)
LEMMA LeastNumber ==
  ASSUME NEW S \in SUBSET Nat, S # {}
  PROVE  \E n \in S : \A m \in S : n <= m
<1> DEFINE R == {ss \in Nat \X Nat : ss[1] < ss[2]}
<1>1. IsWellFoundedOn(R, Nat)
  BY NatLessThanWellFounded DEF OpToRel
<1>2. \E x \in S : \A y \in S : ~ (<<y, x>> \in R)
  <2> HIDE DEF R
  <2> QED
    BY <1>1, WFMin
<1>3. PICK x \in S : \A y \in S : ~ (<<y, x>> \in R)
  BY <1>2
<1>4. \A y \in S : x <= y
  <2>1. TAKE y \in S
  <2>2. x \in Nat /\ y \in Nat
    OBVIOUS
  <2>3. ~ (y < x)
    BY <1>3, <2>2
  <2> QED
    BY <2>2, <2>3
<1> QED
  BY <1>4

(* f has the watched lines of s up to each place, as in Watched.           *)
Grow(w, l) == IF l = "other" THEN w ELSE Append(w, l)
Follows(s, n, f) ==
  f = [i \in 0 .. n |-> IF i = 0 THEN <<>> ELSE
                          IF s[i] = "other" THEN f[i - 1] ELSE Append(f[i - 1], s[i])]

LEMMA FollowsExists ==
  ASSUME NEW s
  PROVE  \A n \in Nat : \E f : Follows(s, n, f)
<1> DEFINE Bad == {n \in Nat : ~ \E f : Follows(s, n, f)}
<1>1. SUFFICES ASSUME Bad # {} PROVE FALSE
  OBVIOUS
<1>2. PICK n \in Bad : \A m \in Bad : n <= m
  <2> HIDE DEF Bad
  <2>1. Bad \in SUBSET Nat
    BY DEF Bad
  <2> QED
    BY <1>1, <2>1, LeastNumber
<1>3. n \in Nat /\ ~ \E f : Follows(s, n, f)
  OBVIOUS
<1>4. n # 0
  <2>1. Follows(s, 0, [i \in 0 .. 0 |-> <<>>])
    BY DEF Follows
  <2> QED
    BY <1>3, <2>1
<1>5. PICK f : Follows(s, n - 1, f)
  <2>1. n - 1 \in Nat /\ n - 1 \notin Bad
    <3> HIDE DEF Bad
    <3> QED
      BY <1>2, <1>3, <1>4
  <2> QED
    BY <2>1
<1> DEFINE g == [i \in 0 .. n |-> IF i < n THEN f[i] ELSE Grow(f[n - 1], s[n])]
<1>6. \A i \in 0 .. n - 1 : f[i] = IF i = 0 THEN <<>> ELSE
                          IF s[i] = "other" THEN f[i - 1] ELSE Append(f[i - 1], s[i])
  BY <1>5 DEF Follows
<1>7. \A i \in 0 .. n : g[i] = IF i = 0 THEN <<>> ELSE
                          IF s[i] = "other" THEN g[i - 1] ELSE Append(g[i - 1], s[i])
  <2> TAKE i \in 0 .. n
  <2>1. CASE i < n
    <3>1. i \in 0 .. n - 1 /\ g[i] = f[i] /\ (i # 0 => g[i - 1] = f[i - 1])
      BY <1>3, <2>1
    <3> HIDE DEF g
    <3> QED
      BY <1>6, <3>1
  <2>2. CASE i = n
    BY <1>3, <1>4, <2>2 DEF Grow
  <2> QED
    BY <1>3, <2>1, <2>2
<1>9. Follows(s, n, g)
  <2>1. g = [i \in 0 .. n |-> g[i]]
    OBVIOUS
  <2> HIDE DEF g
  <2> QED
    BY <1>7, <2>1 DEF Follows
<1> QED
  BY <1>3, <1>9

LEMMA WatchedFollows ==
  ASSUME NEW s, Len(s) \in Nat
  PROVE  \E f : Follows(s, Len(s), f) /\ Watched(s) = f[Len(s)]
<1>1. \E f : Follows(s, Len(s), f)
  BY FollowsExists
<1> DEFINE f == CHOOSE f : Follows(s, Len(s), f)
<1>2. Follows(s, Len(s), f)
  BY <1>1
<1>3. Watched(s) = f[Len(s)]
  BY DEF Watched, Follows
<1> QED
  BY <1>2, <1>3

LEMMA FollowsAt ==
  ASSUME NEW s, NEW n \in Nat, NEW f, Follows(s, n, f)
  PROVE  f[0] = <<>> /\ \A i \in 1 .. n : f[i] = Grow(f[i - 1], s[i])
<1>1. \A i \in 0 .. n : f[i] = IF i = 0 THEN <<>> ELSE
                          IF s[i] = "other" THEN f[i - 1] ELSE Append(f[i - 1], s[i])
  BY DEF Follows
<1> QED
  BY <1>1 DEF Grow

(* What holds at 0 and goes on from each number to the next holds up to n. *)
LEMMA FollowsFrom ==
  ASSUME NEW n \in Nat, NEW G \in SUBSET (0 .. n), 0 \in G,
         \A i \in 1 .. n : i - 1 \in G => i \in G
  PROVE  G = 0 .. n
<1> DEFINE Bad == {i \in 0 .. n : i \notin G}
<1>1. SUFFICES ASSUME Bad # {} PROVE FALSE
  OBVIOUS
<1>2. PICK m \in Bad : \A k \in Bad : m <= k
  <2> HIDE DEF Bad
  <2>1. Bad \in SUBSET Nat
    BY DEF Bad
  <2> QED
    BY <1>1, <2>1, LeastNumber
<1>3. m \in 1 .. n /\ m \notin G
  OBVIOUS
<1>4. m - 1 \in 0 .. n /\ m - 1 \notin Bad
  <2> HIDE DEF Bad
  <2> QED
    BY <1>2, <1>3
<1> QED
  BY <1>3, <1>4

LEMMA FollowsSame ==
  ASSUME NEW s, NEW t, NEW n \in Nat, NEW m \in Nat, n <= m,
         NEW f, NEW g, Follows(s, n, f), Follows(t, m, g),
         \A i \in 1 .. n : s[i] = t[i]
  PROVE  \A i \in 0 .. n : f[i] = g[i]
<1> DEFINE G == {i \in 0 .. n : f[i] = g[i]}
<1>1. 0 \in G
  BY FollowsAt
<1>2. ASSUME NEW i \in 1 .. n, i - 1 \in G PROVE i \in G
  <2>1. f[i] = Grow(f[i - 1], s[i]) /\ g[i] = Grow(g[i - 1], t[i])
    BY FollowsAt
  <2> QED
    BY <1>2, <2>1
<1>3. G = 0 .. n
  <2>1. G \in SUBSET (0 .. n)
    OBVIOUS
  <2> HIDE DEF G
  <2> QED
    BY <1>1, <1>2, <2>1, FollowsFrom
<1> QED
  BY <1>3

(* What Watched makes of no line, of one line more at the end, and of the  *)
(* first line and the rest.                                                *)
LEMMA WatchedTyped ==
  ASSUME NEW L, NEW s \in Seq(L)
  PROVE  Watched(s) \in Seq(L)
<1>1. PICK f : Follows(s, Len(s), f) /\ Watched(s) = f[Len(s)]
  BY WatchedFollows
<1> DEFINE n == Len(s)
           G == {i \in 0 .. n : f[i] \in Seq(L)}
<1>2. n \in Nat
  OBVIOUS
<1>3. 0 \in G
  <2>1. f[0] = <<>> /\ <<>> \in Seq(L)
    BY <1>1, <1>2, FollowsAt
  <2>2. 0 \in 0 .. n
    BY <1>2
  <2> QED
    BY <2>1, <2>2
<1>4. ASSUME NEW i \in 1 .. n, i - 1 \in G PROVE i \in G
  <2>1. f[i] = Grow(f[i - 1], s[i])
    BY <1>1, <1>2, FollowsAt
  <2>2. s[i] \in L
    OBVIOUS
  <2>3. f[i - 1] \in Seq(L)
    BY <1>4
  <2>4. f[i] \in Seq(L)
    BY <2>1, <2>2, <2>3 DEF Grow
  <2> QED
    BY <1>2, <2>4
<1>5. G = 0 .. n
  <2>1. G \in SUBSET (0 .. n)
    OBVIOUS
  <2> HIDE DEF G, n
  <2> QED
    BY <1>2, <1>3, <1>4, <2>1, FollowsFrom
<1> QED
  BY <1>1, <1>2, <1>5

LEMMA WatchedNone == Watched(<<>>) = <<>>
<1>1. PICK f : Follows(<<>>, Len(<<>>), f) /\ Watched(<<>>) = f[Len(<<>>)]
  BY WatchedFollows
<1>2. Len(<<>>) = 0
  OBVIOUS
<1> QED
  BY <1>1, <1>2, FollowsAt

LEMMA WatchedAppend ==
  ASSUME NEW L, NEW s \in Seq(L), NEW l \in L
  PROVE  Watched(Append(s, l)) = Grow(Watched(s), l)
<1> DEFINE t == Append(s, l)
           n == Len(s)
<1>1. n \in Nat /\ Len(t) = n + 1 /\ t[n + 1] = l /\ \A i \in 1 .. n : s[i] = t[i]
  OBVIOUS
<1>2. PICK f : Follows(s, n, f) /\ Watched(s) = f[n]
  BY <1>1, WatchedFollows
<1>3. PICK g : Follows(t, n + 1, g) /\ Watched(t) = g[n + 1]
  <2> HIDE DEF t
  <2> QED
    BY <1>1, WatchedFollows
<1> HIDE DEF t, n
<1>4. f[n] = g[n]
  BY <1>1, <1>2, <1>3, FollowsSame
<1>5. g[n + 1] = Grow(g[n], l)
  <2>1. g[n + 1] = Grow(g[n + 1 - 1], t[n + 1])
    BY <1>1, <1>3, FollowsAt
  <2> QED
    BY <1>1, <2>1
<1> QED
  BY <1>2, <1>3, <1>4, <1>5 DEF t

LEMMA WatchedOne ==
  ASSUME NEW L, NEW l \in L
  PROVE  Watched(<<l>>) = Grow(<<>>, l)
<1>1. <<>> \in Seq(L) /\ Append(<<>>, l) = <<l>>
  OBVIOUS
<1>2. Watched(Append(<<>>, l)) = Grow(Watched(<<>>), l)
  BY <1>1, WatchedAppend
<1> QED
  BY <1>1, <1>2, WatchedNone

LEMMA WatchedHead ==
  ASSUME NEW L, NEW s \in Seq(L), s # <<>>
  PROVE  Watched(s) = Watched(<<Head(s)>>) \o Watched(Tail(s))
<1> DEFINE t == Tail(s)
           n == Len(t)
           h == Grow(<<>>, Head(s))
<1>1. /\ n \in Nat /\ Len(s) = n + 1 /\ s[1] = Head(s) /\ \A i \in 1 .. n : t[i] = s[i + 1]
      /\ Head(s) \in L /\ t \in Seq(L)
  OBVIOUS
<1>2. Watched(<<Head(s)>>) = h /\ h \in Seq(L)
  BY <1>1, WatchedOne DEF Grow
<1>3. PICK f : Follows(s, n + 1, f) /\ Watched(s) = f[n + 1]
  <2> HIDE DEF t
  <2> QED
    BY <1>1, WatchedFollows
<1>4. PICK g : Follows(t, n, g) /\ Watched(t) = g[n]
  <2> HIDE DEF t
  <2> QED
    BY <1>1, WatchedFollows
<1> HIDE DEF t, n, h
<1> DEFINE G == {i \in 0 .. n : g[i] \in Seq(L) /\ f[i + 1] = h \o g[i]}
<1>5. 0 \in G
  <2>1. g[0] = <<>> /\ f[0] = <<>>
    BY <1>1, <1>3, <1>4, FollowsAt
  <2>2. f[1] = Grow(f[0], s[1])
    <3>1. 1 \in 1 .. n + 1 /\ n + 1 \in Nat /\ 1 - 1 = 0
      BY <1>1
    <3>2. f[1] = Grow(f[1 - 1], s[1])
      BY <1>3, <3>1, FollowsAt
    <3> QED
      BY <3>1, <3>2
  <2>3. f[1] = h
    BY <1>1, <2>1, <2>2 DEF h
  <2>4. <<>> \in Seq(L) /\ h = h \o <<>>
    BY <1>2
  <2>5. 0 \in 0 .. n /\ 0 + 1 = 1
    BY <1>1
  <2> QED
    BY <2>1, <2>3, <2>4, <2>5
<1>6. ASSUME NEW i \in 1 .. n, i - 1 \in G PROVE i \in G
  <2>1. g[i] = Grow(g[i - 1], t[i])
    BY <1>1, <1>4, FollowsAt
  <2>2. f[i + 1] = Grow(f[i + 1 - 1], s[i + 1])
    BY <1>1, <1>3, FollowsAt
  <2>3. i + 1 - 1 = i /\ i - 1 + 1 = i /\ s[i + 1] = t[i] /\ t[i] \in L
    BY <1>1
  <2>4. g[i - 1] \in Seq(L) /\ f[i] = h \o g[i - 1]
    BY <1>6, <2>3
  <2>5. Grow(h \o g[i - 1], t[i]) = h \o Grow(g[i - 1], t[i]) /\ Grow(g[i - 1], t[i]) \in Seq(L)
    <3> DEFINE w == g[i - 1]
               l == t[i]
    <3>1. w \in Seq(L) /\ l \in L
      BY <2>3, <2>4
    <3> HIDE DEF w, l
    <3>2. Append(h \o w, l) = h \o Append(w, l)
      BY <1>2, <3>1
    <3>3. Append(w, l) \in Seq(L)
      BY <3>1
    <3>4. Grow(h \o w, l) = h \o Grow(w, l) /\ Grow(w, l) \in Seq(L)
      <4>1. CASE l = "other"
        BY <3>1, <4>1 DEF Grow
      <4>2. CASE l # "other"
        BY <3>2, <3>3, <4>2 DEF Grow
      <4> QED
        BY <4>1, <4>2
    <3> QED
      BY <3>4 DEF w, l
  <2>6. f[i + 1] = Grow(f[i], t[i])
    BY <2>2, <2>3
  <2>7. g[i] \in Seq(L) /\ f[i + 1] = h \o g[i]
    BY <2>1, <2>4, <2>5, <2>6
  <2>8. i \in 0 .. n
    BY <1>1
  <2> QED
    BY <2>7, <2>8
<1>7. G = 0 .. n
  <2>1. G \in SUBSET (0 .. n)
    OBVIOUS
  <2> HIDE DEF G
  <2> QED
    BY <1>1, <1>5, <1>6, <2>1, FollowsFrom
<1>8. n \in G
  <2>1. n \in 0 .. n
    BY <1>1
  <2> QED
    BY <1>7, <2>1
<1> QED
  BY <1>2, <1>3, <1>4, <1>8 DEF t

-----------------------------------------------------------------------------
LineSet == {"first", "bye", "other"}
BgThread == {"logger", "monitor", "janitor"}
BgPoint == {"awake", "asleep", "writing", "report", "wait", "clean", "gone"}
BgState == [BgThread -> BgPoint]
FinPoint == {"pool", "janitor", "joinjanitor", "tables", "bye", "stoplogger",
             "joinlogger", "joinmonitor", "exit"}

BgTypes ==
  /\ log \in Seq(LineSet) /\ held \in Seq(LineSet)
  /\ file \in Seq(LineSet) /\ accepted \in Seq(LineSet)
  /\ bg \in BgState /\ fin \in FinPoint /\ log_keep_running \in BOOLEAN

(* Main's last line is in the file if the queue took it. *)
ByeWritten == Contains(accepted, "bye") => Contains(file, "bye")

(* The logger holds a line only while it writes it, and leaves when it was *)
(* told to with nothing in the queue; main's last line came before that.   *)
LoggerInv ==
  /\ bg["logger"] # "writing" => held = <<>>
  /\ bg["logger"] = "writing" => \E l \in LineSet : held = <<l>>
  /\ log_keep_running <=> fin \notin {"joinlogger", "joinmonitor", "exit"}
  /\ bg["logger"] = "gone" => ~log_keep_running /\ ByeWritten
  /\ fin \in {"joinmonitor", "exit"} => bg["logger"] = "gone"

Arranged == accepted = file \o Watched(held) \o Watched(log)

LinesInv == BgTypes /\ LoggerInv /\ Arranged

LEMMA SignalEffect ==
  ASSUME NEW b \in BgState, NEW c \in CondSignal(b)
  PROVE  /\ c \in BgState
         /\ \A x \in BgThread : c[x] = b[x] \/ (b[x] = "asleep" /\ c[x] = "awake")
<1> DEFINE asleep == {x \in {"logger", "monitor"} : b[x] = "asleep"}
<1>1. CASE asleep = {}
  <2>1. c = b
    BY <1>1 DEF CondSignal
  <2> QED
    BY <2>1
<1>2. CASE asleep # {}
  <2>1. PICK x \in asleep : c = [b EXCEPT ![x] = "awake"]
    BY <1>2 DEF CondSignal
  <2>2. x \in BgThread /\ b[x] = "asleep" /\ "awake" \in BgPoint
    BY DEF BgThread, BgPoint
  <2>3. /\ c \in BgState /\ c[x] = "awake"
        /\ \A y \in BgThread : y # x => c[y] = b[y]
    BY <2>1, <2>2 DEF BgState
  <2> QED
    BY <2>2, <2>3
<1> QED
  BY <1>1, <1>2

(* What writing a line changes: the queue and the order grow together.     *)
LEMMA EnqueueEffect ==
  ASSUME BgTypes, Arranged, NEW l \in LineSet, NEW b \in BgState, Enqueue(l, b),
         UNCHANGED <<held, file>>
  PROVE  /\ log' \in Seq(LineSet) /\ accepted' \in Seq(LineSet) /\ bg' \in BgState
         /\ Arranged'
         /\ \A x \in BgThread : bg'[x] = b[x] \/ (b[x] = "asleep" /\ bg'[x] = "awake")
         /\ l # "bye" /\ ByeWritten => ByeWritten'
<1>1. CASE Len(log) < MaxLog
  <2>1. /\ log' = Append(log, l) /\ accepted' = accepted \o Watched(<<l>>)
        /\ bg' \in CondSignal(b)
    BY <1>1 DEF Enqueue, LineSignals
  <2>2. /\ bg' \in BgState
        /\ \A x \in BgThread : bg'[x] = b[x] \/ (b[x] = "asleep" /\ bg'[x] = "awake")
    BY <2>1, SignalEffect
  <2> DEFINE g == Watched(held)
             q == Watched(log)
             w == Watched(<<l>>)
  <2>3. /\ log \in Seq(LineSet) /\ file \in Seq(LineSet) /\ accepted \in Seq(LineSet)
        /\ g \in Seq(LineSet) /\ q \in Seq(LineSet)
    BY WatchedTyped DEF BgTypes
  <2>4. w = IF l = "other" THEN <<>> ELSE <<l>>
    BY WatchedOne DEF Grow
  <2>5. Watched(Append(log, l)) = IF l = "other" THEN q ELSE Append(q, l)
    BY <2>3, WatchedAppend DEF Grow
  <2> HIDE DEF g, q, w
  <2>6. Watched(log') = q \o w /\ w \in Seq(LineSet)
    BY <2>1, <2>3, <2>4, <2>5
  <2>7. accepted = file \o g \o q
    BY DEF Arranged, g, q
  <2>8. accepted' = file \o g \o (q \o w)
    <3>1. accepted' = accepted \o w
      BY <2>1 DEF w
    <3> QED
      <4>1. (file \o g \o q) \o w = file \o g \o (q \o w)
        <5>1. file \in Seq(LineSet) /\ g \in Seq(LineSet) /\ q \in Seq(LineSet)
          BY <2>3
        <5>2. w \in Seq(LineSet)
          BY <2>6
        <5> QED
          BY <5>1, <5>2
      <4> QED
        BY <2>7, <3>1, <4>1
  <2>9. Arranged'
    <3>1. Watched(held)' = g /\ Watched(log)' = q \o w /\ file' = file
      BY <2>6 DEF g
    <3> QED
      BY <2>8, <3>1 DEF Arranged
  <2>10. log' \in Seq(LineSet) /\ accepted' \in Seq(LineSet)
    <3>1. accepted' = accepted \o w
      BY <2>1 DEF w
    <3> QED
      <4>1. accepted \o w \in Seq(LineSet)
        BY <2>3, <2>6
      <4>2. Append(log, l) \in Seq(LineSet)
        BY <2>3
      <4> QED
        BY <2>1, <3>1, <4>1, <4>2
  <2>11. ASSUME l # "bye", ByeWritten PROVE ByeWritten'
    <3>1. SUFFICES ASSUME Contains(accepted, "bye")' PROVE Contains(accepted, "bye")
      BY <2>11 DEF ByeWritten, Contains
    <3>2. PICK i \in 1 .. Len(accepted') : accepted'[i] = "bye"
      BY <3>1 DEF Contains
    <3>3. i \in 1 .. Len(accepted) /\ accepted[i] = "bye"
      <4>1. \A k \in 1 .. Len(w) : w[k] # "bye"
        BY <2>4, <2>11
      <4>2. accepted' = accepted \o w
        BY <2>1 DEF w
      <4> QED
        BY <2>3, <2>6, <3>2, <4>1, <4>2
    <3> QED
      BY <3>3 DEF Contains
  <2> QED
    BY <2>2, <2>9, <2>10, <2>11
<1>2. CASE ~ (Len(log) < MaxLog)
  <2>1. bg' = b /\ UNCHANGED <<log, accepted>>
    BY <1>2 DEF Enqueue
  <2>2. Arranged' /\ (ByeWritten => ByeWritten')
    BY <2>1 DEF Arranged, ByeWritten
  <2>3. log' \in Seq(LineSet) /\ accepted' \in Seq(LineSet)
    BY <2>1 DEF BgTypes
  <2> QED
    BY <2>1, <2>2, <2>3
<1> QED
  BY <1>1, <1>2

LEMMA LineTyped == Line \subseteq {"first", "other"}
BY DEF Line

(* A step that writes a line other than main's last one.                   *)
LEMMA WriteLogStep ==
  ASSUME LinesInv, NEW b \in BgState, WriteLog(b), UNCHANGED log_keep_running,
         b["logger"] = bg["logger"], fin' \in FinPoint,
         fin \in {"joinlogger", "joinmonitor", "exit"} => fin' = fin,
         fin' \in {"joinlogger", "joinmonitor", "exit"} => fin' = fin
  PROVE  LinesInv'
<1>1. PICK l \in {"first", "other"} : Enqueue(l, b)
  BY LineTyped DEF WriteLog
<1>2. UNCHANGED <<held, file>>
  BY DEF WriteLog
<1>3. l \in LineSet /\ l # "bye" /\ BgTypes /\ Arranged /\ LoggerInv
  BY DEF LineSet, LinesInv
<1>4. /\ log' \in Seq(LineSet) /\ accepted' \in Seq(LineSet) /\ bg' \in BgState /\ Arranged'
      /\ \A x \in BgThread : bg'[x] = b[x] \/ (b[x] = "asleep" /\ bg'[x] = "awake")
      /\ ByeWritten => ByeWritten'
  BY <1>1, <1>2, <1>3, EnqueueEffect
<1>5. bg'["logger"] = bg["logger"] \/ (bg["logger"] = "asleep" /\ bg'["logger"] = "awake")
  BY <1>4 DEF BgThread
<1>6. BgTypes'
  BY <1>2, <1>3, <1>4 DEF BgTypes
<1>7. LoggerInv'
  BY <1>2, <1>3, <1>4, <1>5 DEF LoggerInv
<1> QED
  BY <1>4, <1>6, <1>7 DEF LinesInv

LEMMA LinesStart == BgInit => LinesInv
<1> SUFFICES ASSUME BgInit PROVE LinesInv
  OBVIOUS
<1>1. log = <<>> /\ held = <<>> /\ file = <<>> /\ accepted = <<>> /\ <<>> \in Seq(LineSet)
  BY DEF BgInit
<1>2. bg \in BgState /\ bg["logger"] = "awake"
  BY DEF BgInit, BgState, BgThread, BgPoint
<1>3. fin = "pool" /\ log_keep_running = TRUE
  BY DEF BgInit
<1>4. Arranged
  <2>1. <<>> = <<>> \o <<>> \o <<>>
    OBVIOUS
  <2> QED
    BY <1>1, <2>1, WatchedNone DEF Arranged
<1> QED
  BY <1>1, <1>2, <1>3, <1>4 DEF LinesInv, BgTypes, LoggerInv, FinPoint

(* A step that writes no line and moves a thread of the background.        *)
LEMMA QuietStep ==
  ASSUME LinesInv, UNCHANGED lines, bg' \in BgState,
         \/ bg'["logger"] = bg["logger"]
         \/ bg["logger"] = "asleep" /\ bg'["logger"] = "awake",
         \/ UNCHANGED <<fin, log_keep_running>>
         \/ /\ fin' \in FinPoint
            /\ {fin, fin'} \cap {"joinlogger", "joinmonitor", "exit"} = {}
            /\ UNCHANGED log_keep_running
         \/ fin = "stoplogger" /\ fin' = "joinlogger" /\ log_keep_running' = FALSE
         \/ /\ fin = "joinlogger" /\ fin' = "joinmonitor" /\ bg["logger"] = "gone"
            /\ UNCHANGED log_keep_running
         \/ fin = "joinmonitor" /\ fin' = "exit" /\ UNCHANGED log_keep_running
  PROVE  LinesInv'
<1>1. UNCHANGED <<log, held, file, accepted>>
  BY DEF lines
<1>2. Arranged' /\ (ByeWritten => ByeWritten')
  BY <1>1 DEF LinesInv, Arranged, ByeWritten
<1>3. BgTypes'
  BY <1>1 DEF LinesInv, BgTypes, FinPoint
<1> DEFINE Late == {"joinlogger", "joinmonitor", "exit"}
<1>4. LoggerInv
  BY DEF LinesInv
<1>5. log_keep_running' <=> fin' \notin Late
  <2>1. log_keep_running <=> fin \notin Late
    BY <1>4 DEF LoggerInv
  <2>2. CASE UNCHANGED <<fin, log_keep_running>>
    BY <2>1, <2>2
  <2>3. CASE {fin, fin'} \cap Late = {} /\ UNCHANGED log_keep_running
    BY <2>1, <2>3
  <2>4. CASE fin' = "joinlogger" /\ log_keep_running' = FALSE
    BY <2>4
  <2>5. CASE fin \in Late /\ fin' \in Late /\ UNCHANGED log_keep_running
    BY <2>1, <2>5
  <2> QED
    BY <2>2, <2>3, <2>4, <2>5
<1>6. bg'["logger"] = "gone" => ~log_keep_running' /\ ByeWritten'
  BY <1>2, <1>4 DEF LoggerInv
<1>7. fin' \in {"joinmonitor", "exit"} => bg'["logger"] = "gone"
  BY <1>4 DEF LoggerInv
<1>8. LoggerInv'
  BY <1>1, <1>4, <1>5, <1>6, <1>7 DEF LoggerInv
<1> QED
  BY <1>2, <1>3, <1>8 DEF LinesInv

(* The logger takes a line, and writes it.                                 *)
LEMMA LoggerStep ==
  ASSUME LinesInv, Logger
  PROVE  LinesInv'
<1> DEFINE at == bg["logger"]
<1>0. /\ log \in Seq(LineSet) /\ held \in Seq(LineSet) /\ file \in Seq(LineSet)
      /\ accepted \in Seq(LineSet) /\ bg \in BgState
      /\ Watched(log) \in Seq(LineSet) /\ Watched(held) \in Seq(LineSet)
      /\ accepted = file \o Watched(held) \o Watched(log)
  BY WatchedTyped DEF LinesInv, BgTypes, Arranged
<1>1. CASE LoggerTakes
  <2>0. /\ at = "awake" /\ held = <<>>
        /\ UNCHANGED <<file, accepted, log_keep_running, fin>>
    BY <1>1 DEF LoggerTakes, LinesInv, LoggerInv
  <2>1. CASE Finished
    <3>1. /\ bg' = [bg EXCEPT !["logger"] = "gone"] /\ UNCHANGED <<log, held>>
          /\ log = <<>> /\ ~log_keep_running
      BY <1>1, <2>1 DEF LoggerTakes, Finished
    <3>2. bg' \in BgState /\ bg'["logger"] = "gone"
      BY <1>0, <3>1 DEF BgState, BgThread, BgPoint
    <3>3. accepted = file
      <4>1. accepted = file \o <<>> \o <<>>
        BY <1>0, <2>0, <3>1, WatchedNone
      <4> QED
        BY <1>0, <4>1
    <3>4. Arranged'
      BY <2>0, <3>1 DEF LinesInv, Arranged
    <3>5. ByeWritten'
      BY <2>0, <3>3 DEF ByeWritten
    <3>6. BgTypes'
      BY <2>0, <3>1, <3>2 DEF LinesInv, BgTypes
    <3>7. LoggerInv'
      BY <2>0, <3>1, <3>2, <3>5 DEF LinesInv, LoggerInv
    <3> QED
      BY <3>4, <3>6, <3>7 DEF LinesInv
  <2>2. CASE ~Finished /\ log = <<>>
    <3>1. bg' = [bg EXCEPT !["logger"] = "asleep"] /\ UNCHANGED <<log, held>>
      BY <1>1, <2>2 DEF LoggerTakes
    <3>2. bg' \in BgState /\ bg'["logger"] = "asleep"
      BY <1>0, <3>1 DEF BgState, BgThread, BgPoint
    <3>3. Arranged' /\ BgTypes'
      BY <2>0, <3>1, <3>2 DEF LinesInv, Arranged, BgTypes
    <3>4. LoggerInv'
      BY <2>0, <3>1, <3>2 DEF LinesInv, LoggerInv
    <3> QED
      BY <3>3, <3>4 DEF LinesInv
  <2>3. CASE log # <<>>
    <3>1. /\ held' = <<Head(log)>> /\ log' = Tail(log)
          /\ bg' = [bg EXCEPT !["logger"] = "writing"]
      BY <1>1, <2>3 DEF LoggerTakes, Finished
    <3>2. bg' \in BgState /\ bg'["logger"] = "writing"
      BY <1>0, <3>1 DEF BgState, BgThread, BgPoint
    <3>3. Head(log) \in LineSet /\ Tail(log) \in Seq(LineSet) /\ held' \in Seq(LineSet)
      BY <1>0, <2>3, <3>1
    <3> DEFINE h == Watched(<<Head(log)>>)
               r == Watched(Tail(log))
    <3>4. Watched(log) = h \o r
      BY <1>0, <2>3, WatchedHead
    <3>5. h \in Seq(LineSet) /\ r \in Seq(LineSet)
      BY <3>1, <3>3, WatchedTyped
    <3> HIDE DEF h, r
    <3>6. accepted = file \o <<>> \o (h \o r)
      BY <1>0, <2>0, <3>4, WatchedNone
    <3>7. accepted = file \o h \o r
      BY <1>0, <3>5, <3>6, SMTT(30)
    <3>8. Arranged'
      BY <2>0, <3>1, <3>7 DEF Arranged, h, r
    <3>9. BgTypes'
      BY <2>0, <3>1, <3>2, <3>3 DEF LinesInv, BgTypes
    <3>10. LoggerInv'
      BY <2>0, <3>1, <3>2, <3>3 DEF LinesInv, LoggerInv
    <3> QED
      BY <3>8, <3>9, <3>10 DEF LinesInv
  <2> QED
    BY <2>1, <2>2, <2>3
<1>2. CASE LoggerWrites
  <2>1. /\ at = "writing" /\ file' = file \o Watched(held) /\ held' = <<>>
        /\ bg' = [bg EXCEPT !["logger"] = "awake"]
        /\ UNCHANGED <<log, accepted, log_keep_running, fin>>
    BY <1>2 DEF LoggerWrites
  <2>2. bg' \in BgState /\ bg'["logger"] = "awake"
    BY <1>0, <2>1 DEF BgState, BgThread, BgPoint
  <2> DEFINE g == Watched(held)
             q == Watched(log)
  <2>3. g \in Seq(LineSet) /\ q \in Seq(LineSet) /\ accepted = file \o g \o q
    BY <1>0
  <2> HIDE DEF g, q
  <2>4. accepted = (file \o g) \o <<>> \o q /\ file \o g \in Seq(LineSet)
    BY <1>0, <2>3
  <2>5. Arranged'
    <3>1. Watched(held)' = <<>> /\ Watched(log)' = q /\ file' = file \o g
      BY <2>1, WatchedNone DEF g, q
    <3> QED
      BY <2>1, <2>4, <3>1 DEF Arranged
  <2>6. BgTypes'
    BY <2>1, <2>2, <2>4 DEF LinesInv, BgTypes, g
  <2>7. LoggerInv'
    BY <2>1, <2>2 DEF LinesInv, LoggerInv
  <2> QED
    BY <2>5, <2>6, <2>7 DEF LinesInv
<1> QED
  BY <1>1, <1>2 DEF Logger

LEMMA MonitorStep ==
  ASSUME LinesInv, Monitor
  PROVE  LinesInv'
<1>0. bg \in BgState /\ fin \in FinPoint
  BY DEF LinesInv, BgTypes
<1>1. CASE MonitorReports
  <2> DEFINE b == [bg EXCEPT !["monitor"] = "wait"]
  <2>1. b \in BgState /\ b["logger"] = bg["logger"]
    BY <1>0 DEF BgState, BgThread, BgPoint
  <2>2. WriteLog(b) /\ UNCHANGED <<log_keep_running, fin>>
    BY <1>1 DEF MonitorReports
  <2> HIDE DEF b
  <2> QED
    BY <1>0, <2>1, <2>2, WriteLogStep
<1>2. CASE MonitorTests \/ MonitorWaits \/ MonitorTimesOut
  <2>1. PICK p \in BgPoint : bg' = [bg EXCEPT !["monitor"] = p]
    BY <1>2 DEF MonitorTests, MonitorWaits, MonitorTimesOut, BgPoint
  <2>2. bg' \in BgState /\ bg'["logger"] = bg["logger"]
    BY <1>0, <2>1 DEF BgState, BgThread
  <2>3. UNCHANGED lines /\ UNCHANGED <<fin, log_keep_running>>
    BY <1>2 DEF MonitorTests, MonitorWaits, MonitorTimesOut
  <2> QED
    BY <2>2, <2>3, QuietStep
<1> QED
  BY <1>1, <1>2 DEF Monitor

LEMMA JanitorStep ==
  ASSUME LinesInv, Janitor
  PROVE  LinesInv'
<1>0. bg \in BgState /\ fin \in FinPoint
  BY DEF LinesInv, BgTypes
<1> DEFINE b == [bg EXCEPT !["janitor"] = "awake"]
<1>1. b \in BgState /\ b["logger"] = bg["logger"]
  BY <1>0 DEF BgState, BgThread, BgPoint
<1>2. CASE JanitorCleans
  <2>1. /\ WriteLog(b) \/ (bg' = b /\ UNCHANGED lines)
        /\ UNCHANGED <<log_keep_running, fin>>
    BY <1>2 DEF JanitorCleans
  <2> HIDE DEF b
  <2> QED
    BY <1>0, <1>1, <2>1, WriteLogStep, QuietStep
<1>3. CASE JanitorLoops \/ JanitorTimesOut
  <2>1. PICK p \in BgPoint : bg' = [bg EXCEPT !["janitor"] = p]
    BY <1>3 DEF JanitorLoops, JanitorTimesOut, BgPoint
  <2>2. bg' \in BgState /\ bg'["logger"] = bg["logger"]
    BY <1>0, <2>1 DEF BgState, BgThread
  <2>3. UNCHANGED lines /\ UNCHANGED <<fin, log_keep_running>>
    BY <1>3 DEF JanitorLoops, JanitorTimesOut
  <2> QED
    BY <2>2, <2>3, QuietStep
<1> QED
  BY <1>2, <1>3 DEF Janitor

LEMMA CleanupStep ==
  ASSUME LinesInv, Cleanup
  PROVE  LinesInv'
<1>0. bg \in BgState /\ fin \in FinPoint
  BY DEF LinesInv, BgTypes
<1>1. CASE PoolStopped \/ JoinJanitor \/ DestroyTables
  <2>1. /\ WriteLog(bg) /\ UNCHANGED log_keep_running
        /\ fin' \in FinPoint
        /\ {fin, fin'} \cap {"joinlogger", "joinmonitor", "exit"} = {}
    BY <1>1 DEF PoolStopped, JoinJanitor, DestroyTables, FinPoint
  <2> QED
    BY <1>0, <2>1, WriteLogStep
<1>2. CASE StopJanitor
  <2>1. /\ UNCHANGED lines /\ UNCHANGED log_keep_running /\ fin' \in FinPoint
        /\ {fin, fin'} \cap {"joinlogger", "joinmonitor", "exit"} = {}
    BY <1>2 DEF StopJanitor, FinPoint
  <2>2. bg' \in BgState /\ bg'["logger"] = bg["logger"]
    BY <1>0, <1>2 DEF StopJanitor, BgState, BgThread, BgPoint
  <2> QED
    BY <2>1, <2>2, QuietStep
<1>3. CASE SayBye
  <2>1. fin = "bye" /\ fin' = "stoplogger" /\ Enqueue("bye", bg)
        /\ UNCHANGED <<held, file, log_keep_running>>
    BY <1>3 DEF SayBye
  <2>2. BgTypes /\ Arranged /\ LoggerInv /\ "bye" \in LineSet
    BY DEF LinesInv, LineSet
  <2>3. /\ log' \in Seq(LineSet) /\ accepted' \in Seq(LineSet) /\ bg' \in BgState /\ Arranged'
        /\ \A x \in BgThread : bg'[x] = bg[x] \/ (bg[x] = "asleep" /\ bg'[x] = "awake")
    BY <1>0, <2>1, <2>2, EnqueueEffect
  <2>4. /\ bg'["logger"] = bg["logger"] \/ (bg["logger"] = "asleep" /\ bg'["logger"] = "awake")
        /\ bg["logger"] # "gone"
    BY <2>1, <2>2, <2>3 DEF BgThread, LoggerInv
  <2>5. BgTypes'
    BY <2>1, <2>2, <2>3 DEF BgTypes, FinPoint
  <2>6. LoggerInv'
    BY <2>1, <2>2, <2>4 DEF LoggerInv
  <2> QED
    BY <2>3, <2>5, <2>6 DEF LinesInv
<1>4. CASE StopLogger
  <2>1. /\ UNCHANGED lines /\ fin = "stoplogger" /\ fin' = "joinlogger"
        /\ log_keep_running' = FALSE
        /\ bg' = [x \in DOMAIN bg |-> IF x # "janitor" /\ bg[x] = "asleep"
                                        THEN "awake" ELSE bg[x]]
    BY <1>4 DEF StopLogger
  <2>2. /\ bg' \in BgState
        /\ \/ bg'["logger"] = bg["logger"]
           \/ bg["logger"] = "asleep" /\ bg'["logger"] = "awake"
    BY <1>0, <2>1 DEF BgState, BgThread, BgPoint
  <2> QED
    BY <2>1, <2>2, QuietStep
<1>5. CASE JoinLogger \/ JoinMonitor
  <2>1. UNCHANGED <<lines, bg, log_keep_running>>
    BY <1>5 DEF JoinLogger, JoinMonitor
  <2>2. \/ fin = "joinlogger" /\ fin' = "joinmonitor" /\ bg["logger"] = "gone"
        \/ fin = "joinmonitor" /\ fin' = "exit"
    BY <1>5 DEF JoinLogger, JoinMonitor
  <2> QED
    BY <1>0, <2>1, <2>2, QuietStep
<1> QED
  BY <1>1, <1>2, <1>3, <1>4, <1>5 DEF Cleanup

LEMMA LinesStep ==
  ASSUME LinesInv, [BgNext]_allVars
  PROVE  LinesInv'
<1>0. bg \in BgState /\ fin \in FinPoint
  BY DEF LinesInv, BgTypes
<1>1. CASE UNCHANGED bgVars
  BY <1>0, <1>1, QuietStep DEF bgVars, lines
<1>2. ASSUME NEW t \in Thread, ThreadLogs(t) PROVE LinesInv'
  <2>1. WriteLog(bg) /\ UNCHANGED <<log_keep_running, fin>>
    BY <1>2 DEF ThreadLogs
  <2> QED
    BY <1>0, <2>1, WriteLogStep
<1> QED
  BY <1>1, <1>2, LoggerStep, MonitorStep, JanitorStep, CleanupStep
     DEF BgNext, allVars, bgVars

(* The file has the lines in the order they were accepted, those it lacks  *)
(* are on their way, and main's last line is in it when the process exits, *)
(* whatever thread the signal of a line wakes.                             *)
THEOREM LinesCorrect == BgSpec => []LinesKept
<1>1. LinesInv => LinesKept
  <2> SUFFICES ASSUME LinesInv PROVE LinesKept
    OBVIOUS
  <2>1. fin = "exit" => ByeWritten
    BY DEF LinesInv, LoggerInv
  <2> QED
    BY <2>1 DEF LinesInv, Arranged, ByeWritten, LinesKept
<1>2. LinesInv /\ [BgNext]_allVars => LinesInv'
  BY LinesStep
<1> QED
  BY <1>1, <1>2, LinesStart, PTL DEF BgSpec
=============================================================================
