---------------------------- MODULE Services_proofs ----------------------------
(***************************************************************************)
(* What the parts beside the request path promise, for every value of      *)
(* their constants: the rate limiter, the sizes computed at startup, the   *)
(* header tables of HTTP/2 and the routes of a virtual host.               *)
(*                                                                         *)
(* LimiterInv counts a ticket for each request that an entry has counted   *)
(* in this second.  The sizes are arithmetic: what is in range stays what  *)
(* it is under a cast, and the quotas share what the workers leave.        *)
(* HpackInv says that the encoder's table is a prefix of the decoder's.    *)
(* RoutesInv says what the loader has replaced, what a search has found,   *)
(* and how the times of the file and of the last load lie to each other.   *)
(***************************************************************************)
EXTENDS RateLimiter, Hpack, Routes, Adaptive, FiniteSetTheorems, FunctionTheorems,
        SequenceTheorems, WellFoundedInduction, TLAPS

(* The least and the greatest of a set of numbers. *)
LEMMA LeastMember ==
  ASSUME NEW S \in SUBSET Nat, S # {}
  PROVE  \E x \in S : \A y \in S : x <= y
<1> DEFINE R == {ss \in Nat \X Nat : ss[1] < ss[2]}
<1>1. IsWellFoundedOn(R, Nat)
  BY NatLessThanWellFounded DEF OpToRel
<1>2. \E x \in S : \A y \in S : ~ (<<y, x>> \in R)
  <2> HIDE DEF R
  <2> QED
    BY <1>1, WFMin
<1>3. PICK x \in S : \A y \in S : ~ (<<y, x>> \in R)
  BY <1>2
<1>4. ASSUME NEW y \in S PROVE x <= y
  <2>1. x \in Nat /\ y \in Nat /\ (y < x => <<y, x>> \in R)
    OBVIOUS
  <2> QED
    BY <1>3, <2>1
<1> QED
  BY <1>4

(* The greatest of a set of naturals that has a bound.                     *)
LEMMA MaxMember ==
  ASSUME NEW n \in Nat, NEW S \in SUBSET (0 .. n), S # {}
  PROVE  Max(S) \in S /\ \A y \in S : y <= Max(S)
<1> DEFINE T == {n - x : x \in S}
<1>1. T \in SUBSET Nat /\ T # {}
  <2>1. \A x \in S : n - x \in Nat
    OBVIOUS
  <2> QED
    BY <2>1
<1>2. PICK z \in T : \A y \in T : z <= y
  <2> HIDE DEF T
  <2> QED
    BY <1>1, LeastMember
<1>3. PICK x \in S : z = n - x
  BY <1>2
<1>4. ASSUME NEW y \in S PROVE y <= x
  <2>1. n - y \in T /\ y \in Int /\ x \in Int
    OBVIOUS
  <2>2. n - x <= n - y
    BY <1>2, <1>3, <2>1
  <2> QED
    BY <2>1, <2>2
<1>5. \E m \in S : \A y \in S : m >= y
  <2>1. \A y \in S : x >= y
    BY <1>4
  <2> QED
    BY <2>1
<1>6. Max(S) \in S /\ \A y \in S : Max(S) >= y
  BY <1>5 DEF Max
<1> QED
  BY <1>6

LEMMA TwoOf ==
  ASSUME NEW a \in Int, NEW b \in Int
  PROVE  /\ Max({a, b}) = (IF a >= b THEN a ELSE b)
         /\ Min({a, b}) = (IF a <= b THEN a ELSE b)
<1>1. Max({a, b}) = (IF a >= b THEN a ELSE b)
  <2>1. \E x \in {a, b} : \A y \in {a, b} : x >= y
    OBVIOUS
  <2>2. Max({a, b}) \in {a, b} /\ \A y \in {a, b} : Max({a, b}) >= y
    BY <2>1 DEF Max
  <2> QED
    BY <2>2
<1>2. Min({a, b}) = (IF a <= b THEN a ELSE b)
  <2>1. \E x \in {a, b} : \A y \in {a, b} : x <= y
    OBVIOUS
  <2>2. Min({a, b}) \in {a, b} /\ \A y \in {a, b} : Min({a, b}) <= y
    BY <2>1 DEF Min
  <2> QED
    BY <2>2
<1> QED
  BY <1>1, <1>2

-----------------------------------------------------------------------------
(* The rate limiter. *)

(* What is counted against an address in this second: a ticket for each    *)
(* slot and number up to the count of its entry, the refusal left out.     *)
Tickets(a) ==
  {x \in Slot \X (1 .. Limit) :
     \E e \in table[x[1]] : e.ip = a /\ e.start = clock /\ x[2] <= e.count}

EntryType == [ip : Addr, count : 1 .. Limit + 1, start : Nat]

(* A slot has one entry at most; no entry and no caller is ahead of the    *)
(* clock.                                                                  *)
LimiterTypeOK ==
  /\ clock \in Nat
  /\ table \in [Slot -> SUBSET EntryType]
  /\ \A i \in Slot : \A d, e \in table[i] : d = e
  /\ \A i \in Slot : \A e \in table[i] : e.start <= clock
  /\ BagToSet(call) \subseteq [ip : Addr, now : 0 .. clock]
  /\ passed \in [Addr -> Nat]

LimiterInv == LimiterTypeOK /\ \A a \in Addr : passed[a] <= Cardinality(Tickets(a))

LEMMA SlotsFinite == IsFiniteSet(Slot)
<1>1. 0 \in Int /\ Size - 1 \in Int
  BY LimiterAssumption
<1> QED
  BY <1>1, FS_Interval DEF Slot

LEMMA TicketsFinite ==
  /\ \A a : IsFiniteSet(Tickets(a)) /\ Cardinality(Tickets(a)) \in Nat
  /\ \A a : IsFiniteSet(Tickets(a)')
<1>1. IsFiniteSet(1 .. Limit)
  BY FS_Interval, LimiterAssumption
<1>2. IsFiniteSet(Slot \X (1 .. Limit))
  BY <1>1, SlotsFinite, FS_Product
<1>3. ASSUME NEW a PROVE IsFiniteSet(Tickets(a))
  BY <1>2, FS_Subset DEF Tickets
<1>4. ASSUME NEW a PROVE IsFiniteSet(Tickets(a)')
  BY <1>2, FS_Subset DEF Tickets
<1> QED
  BY <1>3, <1>4, FS_CardinalityType

LEMMA ProbeInSlot ==
  ASSUME NEW a \in Addr, NEW i \in Slot
  PROVE  Probe(a, i) \in Slot
<1>1. Home[a] \in Nat /\ i \in Nat /\ Size \in Nat \ {0}
  BY LimiterAssumption DEF Slot
<1>2. Home[a] + i \in Nat
  BY <1>1
<1>3. \A n \in Nat : n % Size \in 0 .. Size - 1
  BY <1>1
<1> QED
  BY <1>2, <1>3 DEF Probe, Slot

LEMMA MoreTickets ==
  ASSUME NEW S, NEW T, IsFiniteSet(T), S \subseteq T
  PROVE  /\ Cardinality(S) <= Cardinality(T)
         /\ \A x \in T : x \notin S => Cardinality(S) + 1 <= Cardinality(T)
<1>1. IsFiniteSet(S) /\ Cardinality(S) \in Nat /\ Cardinality(T) \in Nat
  BY FS_Subset, FS_CardinalityType
<1>2. Cardinality(S) <= Cardinality(T)
  BY FS_Subset
<1>3. ASSUME NEW x \in T, x \notin S
      PROVE  Cardinality(S) + 1 <= Cardinality(T)
  <2>1. S \cup {x} \subseteq T
    BY <1>3
  <2>2. Cardinality(S \cup {x}) = Cardinality(S) + 1
    BY <1>1, <1>3, FS_AddElement
  <2> QED
    BY <2>1, <2>2, FS_Subset
<1> QED
  BY <1>2, <1>3

(* The decision: the entry that is left, and that a request which passes   *)
(* in its second has a new ticket.                                         *)
LEMMA VerdictEffect ==
  ASSUME LimiterTypeOK, NEW a \in Addr, NEW now \in 0 .. clock, NEW i \in Slot,
         table[i] = {} \/ \E e \in table[i] : e.ip = a
  PROVE  LET v == Verdict(a, now, table[i])
         IN  /\ v.entry \in EntryType /\ v.entry.ip = a /\ v.entry.start <= clock
             /\ \A e \in table[i] : e.start = clock =>
                  v.entry.start = clock /\ e.count <= v.entry.count
             /\ v.ok /\ now = clock =>
                  /\ v.entry.start = clock
                  /\ v.entry.count <= Limit
                  /\ \A e \in table[i] : e.start = clock => e.count < v.entry.count
<1>0. Limit \in Nat \ {0} /\ clock \in Nat /\ now \in Nat /\ now <= clock
  BY LimiterAssumption DEF LimiterTypeOK
<1>1. Renewed(a, now) \in EntryType /\ Renewed(a, now).ip = a /\ Renewed(a, now).start = now
      /\ Renewed(a, now).count = 1
  BY <1>0 DEF Renewed, EntryType
<1>2. CASE table[i] = {}
  <2>1. Verdict(a, now, table[i]) = [entry |-> Renewed(a, now), ok |-> TRUE]
    BY <1>2 DEF Verdict
  <2> QED
    BY <1>0, <1>1, <1>2, <2>1
<1>3. CASE table[i] # {}
  <2> DEFINE e == CHOOSE e \in table[i] : TRUE
             f == [e EXCEPT !.count = @ + 1]
  <2>1. /\ e \in table[i] /\ e.ip = a /\ \A d \in table[i] : d = e
        /\ e \in EntryType /\ e.start <= clock
    BY <1>3 DEF LimiterTypeOK
  <2>2. Verdict(a, now, table[i]) =
          IF now > e.start THEN [entry |-> Renewed(a, now), ok |-> TRUE]
          ELSE IF BelowLimit(e) THEN [entry |-> f, ok |-> TRUE]
          ELSE [entry |-> IF e.count = Limit THEN f ELSE e, ok |-> FALSE]
    BY <1>3 DEF Verdict
  <2> HIDE DEF e
  <2>3. e.count \in 1 .. Limit + 1 /\ e.start \in Nat
    BY <2>1 DEF EntryType
  <2>4. f.ip = a /\ f.start = e.start /\ f.count = e.count + 1
        /\ (e.count <= Limit => f \in EntryType)
    BY <1>0, <2>1, <2>3 DEF EntryType
  <2> HIDE DEF f
  <2>5. CASE now > e.start
    BY <1>0, <1>1, <2>1, <2>2, <2>3, <2>5
  <2>6. CASE ~(now > e.start) /\ BelowLimit(e)
    BY <1>0, <2>1, <2>2, <2>3, <2>4, <2>6 DEF BelowLimit
  <2>7. CASE ~(now > e.start) /\ ~BelowLimit(e)
    BY <1>0, <2>1, <2>2, <2>3, <2>4, <2>7 DEF BelowLimit
  <2> QED
    BY <2>5, <2>6, <2>7
<1> QED
  BY <1>2, <1>3

LEMMA CheckTypes ==
  ASSUME LimiterTypeOK, NEW c \in BagToSet(call), Check(c) \/ CheckFull(c)
  PROVE  LimiterTypeOK'
<1>0. c \in [ip : Addr, now : 0 .. clock]
  BY DEF LimiterTypeOK
<1>1. BagToSet(call)' \subseteq BagToSet(call) /\ clock' = clock
  BY DEF Check, CheckFull, Done, BagToSet, SetToBag, (-)
<1>2. passed' \in [Addr -> Nat]
  BY <1>0 DEF LimiterTypeOK, Check, CheckFull, Pass
<1>3. CASE CheckFull(c)
  BY <1>1, <1>2, <1>3 DEF LimiterTypeOK, CheckFull
<1>4. CASE Check(c)
  <2>1. PICK i \in Found(c.ip) : table' = [table EXCEPT ![i] = {Verdict(c.ip, c.now, table[i]).entry}]
    BY <1>4 DEF Check
  <2>2. i \in Slot /\ (table[i] = {} \/ \E e \in table[i] : e.ip = c.ip)
    BY <1>0, ProbeInSlot DEF Found, Ends
  <2> DEFINE w == Verdict(c.ip, c.now, table[i]).entry
  <2>3. w \in EntryType /\ w.start <= clock
    BY <1>0, <2>2, VerdictEffect
  <2> HIDE DEF w
  <2>4. table' = [table EXCEPT ![i] = {w}]
    BY <2>1 DEF w
  <2> QED
    BY <1>1, <1>2, <2>2, <2>3, <2>4 DEF LimiterTypeOK
<1> QED
  BY <1>3, <1>4

LEMMA CheckTickets ==
  ASSUME LimiterInv, NEW c \in BagToSet(call), Check(c), NEW a \in Addr
  PROVE  passed'[a] <= Cardinality(Tickets(a)')
<1>0. /\ c \in [ip : Addr, now : 0 .. clock] /\ c.ip \in Addr /\ c.now \in 0 .. clock
      /\ passed \in [Addr -> Nat] /\ passed[a] <= Cardinality(Tickets(a))
      /\ clock' = clock /\ table \in [Slot -> SUBSET EntryType]
      /\ \A i \in Slot : \A d, e \in table[i] : d = e
      /\ Limit \in Nat
  BY LimiterAssumption DEF LimiterInv, LimiterTypeOK, Check
<1>1. PICK i \in Found(c.ip) :
         LET v == Verdict(c.ip, c.now, table[i])
         IN  /\ table' = [table EXCEPT ![i] = {v.entry}]
             /\ IF v.ok THEN Pass(c) ELSE UNCHANGED passed
  BY DEF Check
<1>2. i \in Slot /\ (table[i] = {} \/ \E e \in table[i] : e.ip = c.ip)
  BY <1>0, ProbeInSlot DEF Found, Ends
<1> DEFINE v == Verdict(c.ip, c.now, table[i])
           w == v.entry
<1>3. /\ w \in EntryType /\ w.ip = c.ip
      /\ \A e \in table[i] : e.start = clock => w.start = clock /\ e.count <= w.count
      /\ v.ok /\ c.now = clock =>
           /\ w.start = clock /\ w.count <= Limit
           /\ \A e \in table[i] : e.start = clock => e.count < w.count
  BY <1>0, <1>2, VerdictEffect DEF LimiterInv
<1>4. table' = [table EXCEPT ![i] = {w}] /\ (IF v.ok THEN Pass(c) ELSE UNCHANGED passed)
  BY <1>1
<1> HIDE DEF w, v
<1>5. table'[i] = {w} /\ \A j \in Slot : j # i => table'[j] = table[j]
  BY <1>0, <1>2, <1>4
<1>6. \A e \in table[i] : e.ip = c.ip /\ e \in EntryType /\ e.count \in Nat
  BY <1>0, <1>2 DEF EntryType
<1>7. w.count \in Nat /\ w.count >= 1
  BY <1>0, <1>3 DEF EntryType
<1>8. Tickets(a) \subseteq Tickets(a)'
  BY <1>0, <1>2, <1>3, <1>5, <1>6, <1>7 DEF Tickets
<1>9. Cardinality(Tickets(a)) \in Nat /\ IsFiniteSet(Tickets(a)')
      /\ Cardinality(Tickets(a)') \in Nat /\ Cardinality(Tickets(a)) <= Cardinality(Tickets(a)')
  BY <1>8, TicketsFinite, MoreTickets, FS_CardinalityType
<1>10. CASE v.ok /\ c.now = clock /\ c.ip = a
  <2>1. <<i, w.count>> \in Tickets(a)'
    <3>1. i \in Slot /\ w.count \in 1 .. Limit /\ w \in table'[i] /\ w.ip = a
          /\ w.start = clock'
      BY <1>0, <1>2, <1>3, <1>5, <1>7, <1>10
    <3> QED
      BY <3>1 DEF Tickets
  <2>2. <<i, w.count>> \notin Tickets(a)
    BY <1>3, <1>6, <1>7, <1>10 DEF Tickets
  <2>3. Cardinality(Tickets(a)) + 1 <= Cardinality(Tickets(a)')
    BY <1>8, <1>9, <2>1, <2>2, MoreTickets
  <2>4. passed'[a] = passed[a] + 1
    BY <1>0, <1>4, <1>10 DEF Pass
  <2> QED
    BY <1>0, <1>9, <2>3, <2>4
<1>11. CASE ~(v.ok /\ c.now = clock /\ c.ip = a)
  <2>1. passed'[a] = passed[a]
    BY <1>0, <1>4, <1>11 DEF Pass
  <2> QED
    BY <1>0, <1>9, <2>1
<1> QED
  BY <1>10, <1>11

LEMMA LimiterStep == LimiterInv /\ [LimiterNext]_limiterVars => LimiterInv'
<1> SUFFICES ASSUME LimiterInv, [LimiterNext]_limiterVars
             PROVE  LimiterInv'
  OBVIOUS
<1>0. LimiterTypeOK
  BY DEF LimiterInv
<1>1. ASSUME UNCHANGED <<table, clock, passed>>, BagToSet(call)' \subseteq [ip : Addr, now : 0 .. clock]
      PROVE  LimiterInv'
  <2>1. LimiterTypeOK'
    BY <1>0, <1>1 DEF LimiterTypeOK
  <2>2. \A a \in Addr : Tickets(a)' = Tickets(a)
    BY <1>1 DEF Tickets
  <2> QED
    BY <1>1, <2>1, <2>2 DEF LimiterInv
<1>2. CASE Call
  <2>1. PICK a \in Addr : call' = call (+) SetToBag({[ip |-> a, now |-> clock]})
    BY <1>2 DEF Call
  <2>2. BagToSet(call)' = BagToSet(call) \cup {[ip |-> a, now |-> clock]}
    BY <2>1 DEF BagToSet, SetToBag, (+)
  <2>3. clock \in 0 .. clock
    BY <1>0 DEF LimiterTypeOK
  <2>4. [ip |-> a, now |-> clock] \in [ip : Addr, now : 0 .. clock]
    BY <2>3
  <2>5. BagToSet(call)' \subseteq [ip : Addr, now : 0 .. clock]
    BY <1>0, <2>2, <2>4 DEF LimiterTypeOK
  <2> QED
    BY <1>1, <1>2, <2>5 DEF Call
<1>3. ASSUME NEW c \in BagToSet(call), CheckFull(c)
      PROVE  LimiterInv'
  <2>1. UNCHANGED <<table, clock, passed>> /\ LimiterTypeOK'
    BY <1>0, <1>3, CheckTypes DEF CheckFull
  <2> QED
    BY <1>1, <2>1 DEF LimiterTypeOK
<1>4. ASSUME NEW c \in BagToSet(call), Check(c)
      PROVE  LimiterInv'
  BY <1>0, <1>4, CheckTypes, CheckTickets DEF LimiterInv
<1>5. CASE Clean
  <2>1. LimiterTypeOK'
    <3>1. table' \in [Slot -> SUBSET EntryType]
      BY <1>0, <1>5 DEF Clean, LimiterTypeOK
    <3> QED
      BY <1>0, <1>5, <3>1 DEF Clean, LimiterTypeOK
  <2>2. \A i \in Slot : \A e \in table[i] : e.start = clock => ~Expired(e)
    BY <1>0, LimiterAssumption DEF Expired, LimiterTypeOK
  <2>3. \A i \in Slot : \A e \in table[i] : e.start = clock => e \in table'[i]
    BY <1>5, <2>2 DEF Clean
  <2>4. \A i \in Slot : \A e \in table'[i] : e \in table[i]
    BY <1>5 DEF Clean
  <2>5. \A a \in Addr : Tickets(a)' = Tickets(a)
    BY <1>5, <2>3, <2>4 DEF Clean, Tickets
  <2> QED
    BY <1>5, <2>1, <2>5 DEF LimiterInv, Clean
<1>6. CASE Tick
  <2>1. LimiterTypeOK'
    <3>1. clock \in Nat /\ clock' = clock + 1 /\ UNCHANGED <<table, call>>
      BY <1>0, <1>6 DEF Tick, LimiterTypeOK
    <3>2. \A c \in BagToSet(call) : c \in [ip : Addr, now : 0 .. clock']
      <4>1. 0 .. clock \subseteq 0 .. clock'
        BY <3>1
      <4> QED
        BY <1>0, <4>1 DEF LimiterTypeOK
    <3>3. BagToSet(call)' = BagToSet(call)
      BY <3>1 DEF BagToSet
    <3>4. \A i \in Slot : \A e \in table[i] : e.start \in Nat
      BY <1>0 DEF LimiterTypeOK, EntryType
    <3>5. \A i \in Slot : \A e \in table[i] : e.start <= clock'
      BY <1>0, <3>1, <3>4 DEF LimiterTypeOK
    <3>6. passed' \in [Addr -> Nat]
      BY <1>6 DEF Tick
    <3> QED
      BY <1>0, <3>1, <3>2, <3>3, <3>5, <3>6 DEF LimiterTypeOK
  <2>2. \A a \in Addr : Cardinality(Tickets(a)') \in Nat
    BY TicketsFinite, FS_CardinalityType
  <2> QED
    BY <1>6, <2>1, <2>2 DEF LimiterInv, Tick
<1>7. CASE UNCHANGED limiterVars
  BY <1>0, <1>1, <1>7 DEF limiterVars, LimiterTypeOK
<1> QED
  BY <1>2, <1>3, <1>4, <1>5, <1>6, <1>7 DEF LimiterNext

LEMMA LimiterStart == LimiterInit => LimiterInv
<1> SUFFICES ASSUME LimiterInit PROVE LimiterInv
  OBVIOUS
<1>1. BagToSet(call) = {}
  BY DEF LimiterInit, EmptyBag, BagToSet, SetToBag
<1>2. LimiterTypeOK
  BY <1>1 DEF LimiterInit, LimiterTypeOK
<1> QED
  BY <1>2, TicketsFinite DEF LimiterInv, LimiterInit

(* In every second an address passes at most Limit times for each entry it *)
(* has, whatever the size of the table, the hash, the number of callers    *)
(* and the time between time(NULL) and the mutex in                        *)
(* sec_traffic_is_request_allowed.                                         *)
THEOREM LimitCorrect == LimiterSpec => []LimitKept
<1>1. LimiterInv => LimitKept
  <2> SUFFICES ASSUME LimiterInv, NEW a \in Addr
               PROVE  passed[a] <= Limit * Cardinality(EntriesOf(a))
    BY DEF LimitKept
  <2>1. IsFiniteSet(EntriesOf(a)) /\ IsFiniteSet(1 .. Limit) /\ Cardinality(1 .. Limit) = Limit
    BY SlotsFinite, FS_Subset, FS_Interval, LimiterAssumption DEF EntriesOf
  <2>2. /\ IsFiniteSet(EntriesOf(a) \X (1 .. Limit))
        /\ Cardinality(EntriesOf(a) \X (1 .. Limit)) = Cardinality(EntriesOf(a)) * Limit
    BY <2>1, FS_Product
  <2>3. Tickets(a) \subseteq EntriesOf(a) \X (1 .. Limit)
    BY DEF Tickets, EntriesOf
  <2>4. Cardinality(Tickets(a)) <= Cardinality(EntriesOf(a)) * Limit
    BY <2>2, <2>3, FS_Subset
  <2>5. /\ Cardinality(Tickets(a)) \in Nat /\ Cardinality(EntriesOf(a)) \in Nat
        /\ passed[a] \in Nat /\ Limit \in Nat /\ passed[a] <= Cardinality(Tickets(a))
    BY <2>1, TicketsFinite, FS_CardinalityType, LimiterAssumption DEF LimiterInv,
       LimiterTypeOK
  <2>6. Cardinality(EntriesOf(a)) * Limit = Limit * Cardinality(EntriesOf(a))
        /\ Cardinality(EntriesOf(a)) * Limit \in Nat
    BY <2>5
  <2> QED
    BY <2>4, <2>5, <2>6
<1> QED
  BY <1>1, LimiterStart, LimiterStep, PTL DEF LimiterSpec

-----------------------------------------------------------------------------
(* The sizes computed at startup. *)

LEMMA Clamped ==
  ASSUME NEW n \in Int, NEW low \in Int, NEW high \in Int, low <= high
  PROVE  Clamp(n, low, high) \in Int /\ low <= Clamp(n, low, high) /\ Clamp(n, low, high) <= high
<1>1. Min({n, high}) \in Int /\ Min({n, high}) <= high
  BY TwoOf
<1>2. Max({low, Min({n, high})}) \in {low, Min({n, high})}
      /\ Max({low, Min({n, high})}) >= low
  <2> HIDE DEF Min
  <2>1. Max({low, Min({n, high})}) = IF low >= Min({n, high}) THEN low ELSE Min({n, high})
    BY <1>1, TwoOf
  <2> QED
    BY <1>1, <2>1
<1> QED
  BY <1>1, <1>2 DEF Clamp

(* The three casts: what is in range stays, what is not is some number in  *)
(* range.                                                                  *)
LEMMA Remainders ==
  ASSUME NEW b \in Nat \ {0}, NEW n \in Int
  PROVE  /\ n % b \in 0 .. b - 1 /\ n \div b \in Int
         /\ n \in 0 .. b - 1 => n % b = n
         /\ n \in Nat => n \div b \in Nat /\ n % b <= n
<1>1. n % b \in 0 .. b - 1
  OBVIOUS
<1>2. n \div b \in Int
  OBVIOUS
<1>3. n \in 0 .. b - 1 => n % b = n
  OBVIOUS
<1>4. n \in Nat => n \div b \in Nat /\ n % b <= n
  OBVIOUS
<1> QED
  BY <1>1, <1>2, <1>3, <1>4

LEMMA Quotient ==
  ASSUME NEW b \in Nat \ {0}, NEW n \in Nat, NEW m \in Nat, n <= m * b
  PROVE  n \div b \in 0 .. m
<1>1. n \div b <= m
  OBVIOUS
<1>2. n \div b \in Nat
  OBVIOUS
<1> QED
  BY <1>1, <1>2

HostType == [cores : Cores, ram : Ram, fd : FdLimit, active : SUBSET Language, fpm : FpmLines]

Half == UInt \div 2

LEMMA Halves == Half \in Nat /\ UInt = 2 * Half /\ Half >= 32768 /\ UInt \in Nat \ {0}
BY WidthAssumption DEF Half

LEMMA Ints ==
  ASSUME NEW n \in Int
  PROVE  /\ ToInt(n) \in -Half .. Half - 1
         /\ n \in -Half .. Half - 1 => ToInt(n) = n
<1>0. Half \in Nat /\ UInt = 2 * Half /\ UInt \in Nat \ {0} /\ n + Half \in Int
  BY Halves
<1>1. (n + Half) % UInt \in 0 .. UInt - 1
  BY <1>0, Remainders
<1>2. n + Half \in 0 .. UInt - 1 => (n + Half) % UInt = n + Half
  BY <1>0, Remainders
<1>3. ToInt(n) = ((n + Half) % UInt) - Half
  BY DEF ToInt, Half
<1> QED
  BY <1>0, <1>1, <1>2, <1>3

LEMMA Longs ==
  ASSUME NEW n \in Int
  PROVE  /\ ToLong(n) \in 0 .. Word - 1
         /\ n \in 0 .. Word - 1 => ToLong(n) = n
         /\ n \in Nat => ToLong(n) <= n
<1>1. Word \in Nat \ {0}
  BY WidthAssumption
<1> QED
  BY <1>1, Remainders DEF ToLong

(* The share of a backend; beside another one it is at most a hundredth of *)
(* what a word holds.                                                      *)
LEMMA Shares ==
  ASSUME host \in HostType, NEW l \in Language
  PROVE  /\ BudgetRam(l) \in 0 .. Word - 1
         /\ host.active # {l} => 100 * BudgetRam(l) <= Word - 1
<1>0. /\ Word \in Nat \ {0} /\ host.active \in SUBSET Language
      /\ host.ram \in Nat
  <2>1. host.ram \in Ram /\ host.active \in SUBSET Language /\ Ram \subseteq 1 .. Word - 1
    BY MachineAssumption DEF HostType
  <2>2. Word \in Nat /\ UInt \in Nat /\ UInt >= 65536 /\ Word >= UInt
    BY WidthAssumption
  <2>3. Word \in Nat \ {0}
    BY <2>2
  <2>4. 1 .. Word - 1 \subseteq Nat
    BY <2>3
  <2> QED
    BY <2>1, <2>3, <2>4
<1>1. CASE l \notin host.active
  BY <1>0, <1>1 DEF BudgetRam
<1>2. CASE host.active = {l}
  <2>1. host.ram \div 4 \in Int
    BY <1>0
  <2>2. Clamp(host.ram \div 4, 1024, 4096) \in Int
    BY <2>1, Clamped
  <2>3. host.ram - Clamp(host.ram \div 4, 1024, 4096) \in Int
    BY <1>0, <2>2
  <2>4. Available(host.ram) \in 0 .. Word - 1
    BY <2>3, Longs DEF Available
  <2> QED
    BY <1>2, <2>4 DEF BudgetRam
<1>3. CASE l \in host.active /\ host.active # {l}
  <2> DEFINE x == Available(host.ram) * Percent(l, host.active)
  <2>1. BudgetRam(l) = ToLong(x) \div 100
    BY <1>3 DEF BudgetRam
  <2>2. x \in Int
    <3>1. host.ram \div 4 \in Int
      BY <1>0
    <3>2. Clamp(host.ram \div 4, 1024, 4096) \in Int
      BY <3>1, Clamped
    <3>3. host.ram - Clamp(host.ram \div 4, 1024, 4096) \in Int
      BY <1>0, <3>2
    <3>4. Available(host.ram) \in Int
      BY <1>0, <3>3, Longs DEF Available
    <3>5. host.active \in {Language, {"php", "python"}, {"php", "rust"}, {"python", "rust"}}
      BY <1>0, <1>3 DEF Language
    <3>6. Percent(l, host.active) \in Int
      <4>1. CASE host.active = Language
        BY <4>1 DEF Percent, Language
      <4>2. CASE host.active = {"php", "python"}
        <5>1. host.active # Language
          BY <4>2 DEF Language
        <5> QED
          BY <4>2, <5>1 DEF Percent
      <4>3. CASE host.active = {"php", "rust"}
        <5>1. host.active # Language /\ host.active # {"php", "python"}
          BY <4>3 DEF Language
        <5> QED
          BY <4>3, <5>1 DEF Percent
      <4>4. CASE host.active = {"python", "rust"}
        <5>1. host.active # Language /\ host.active # {"php", "python"} /\ host.active # {"php", "rust"}
          BY <4>4 DEF Language
        <5> QED
          BY <4>4, <5>1 DEF Percent
      <4> QED
        BY <3>5, <4>1, <4>2, <4>3, <4>4
    <3> QED
      BY <3>4, <3>6
  <2> HIDE DEF x
  <2>3. ToLong(x) \in 0 .. Word - 1
    BY <2>2, Longs
  <2> DEFINE y == ToLong(x)
  <2>4. y \in Nat /\ y <= Word - 1
    BY <1>0, <2>3
  <2> HIDE DEF y
  <2>5. y \div 100 \in Nat /\ 100 * (y \div 100) <= y
    BY <2>4
  <2>6. BudgetRam(l) = y \div 100
    BY <2>1 DEF y
  <2> QED
    BY <1>0, <2>4, <2>5, <2>6
<1> QED
  BY <1>1, <1>2, <1>3

LEMMA Workers ==
  ASSUME host \in HostType
  PROVE  /\ WorkerMax \in 32 .. 1024
         /\ WorkerMin \in 1 .. WorkerMax
<1>1. host.cores \in Nat \ {0}
  BY MachineAssumption DEF HostType
<1>2. \A l \in Language : MaxByRam(l) \in Int
  <2> SUFFICES ASSUME NEW l \in Language PROVE MaxByRam(l) \in Int
    OBVIOUS
  <2>1. BudgetRam(l) \in Nat
    BY Shares, WidthAssumption
  <2>2. Budget(l) \in {20, 40, 15}
    BY DEF Language, Budget
  <2>3. BudgetRam(l) \div Budget(l) \in Int
    BY <2>1, <2>2
  <2> QED
    BY <2>3, Ints, Halves DEF MaxByRam
<1>3. RamTotalMax \in Int
  <2>1. MaxByRam("php") \in Int /\ MaxByRam("python") \in Int /\ MaxByRam("rust") \in Int
    BY <1>2 DEF Language
  <2>2. MaxByRam("php") + MaxByRam("python") + MaxByRam("rust") \in Int
    BY <2>1
  <2>3. ToInt(MaxByRam("php") + MaxByRam("python") + MaxByRam("rust")) \in Int
    BY <2>2, Ints, Halves
  <2> QED
    BY <2>3, TwoOf DEF RamTotalMax
<1>4. Min({host.cores * 64, RamTotalMax}) \in Int
  <2> DEFINE n == host.cores * 64
  <2>1. n \in Int
    BY <1>1
  <2> HIDE DEF n
  <2>2. Min({n, RamTotalMax}) \in Int
    BY <1>3, <2>1, TwoOf
  <2> QED
    BY <2>2 DEF n
<1>5. WorkerMax \in 32 .. 1024
  <2> DEFINE m == Min({host.cores * 64, RamTotalMax})
  <2>1. m \in Int
    BY <1>4
  <2> HIDE DEF m
  <2>2. 32 \in Int /\ 1024 \in Int /\ 32 <= 1024
    OBVIOUS
  <2> DEFINE x == Clamp(m, 32, 1024)
  <2>3. x \in Int /\ 32 <= x /\ x <= 1024
    BY <2>1, Clamped
  <2> HIDE DEF x
  <2>4. x \in 32 .. 1024
    BY <2>3
  <2> QED
    BY <2>4 DEF x, m, WorkerMax
<1>6. WorkerMin = IF host.cores * 4 <= WorkerMax THEN host.cores * 4 ELSE WorkerMax
  <2>1. host.cores * 4 \in Int /\ WorkerMax \in Int
    BY <1>1, <1>5
  <2> QED
    BY <2>1, TwoOf DEF WorkerMin
<1> QED
  BY <1>1, <1>5, <1>6

LEMMA Queue ==
  ASSUME host \in HostType
  PROVE  QueueCapacity \in 256 .. 4096 /\ Min({WorkerMax, 1024}) \in 1 .. 1024
<1>1. WorkerMax \in 32 .. 1024 /\ WorkerMax \in Int
  BY Workers
<1>2. MaxFd \in Int
  <2>0. host.fd \in FdLimit /\ FdLimit \subseteq Nat
    BY MachineAssumption DEF HostType
  <2>1. host.fd \in Int /\ UInt - 1 \in Int
    <3>1. host.fd \in Nat
      BY <2>0
    <3>2. UInt \in Nat
      BY WidthAssumption
    <3>3. UInt - 1 \in Int
      BY <3>2
    <3> DEFINE f == host.fd
    <3>4. f \in Nat
      BY <3>1
    <3> HIDE DEF f
    <3>5. f \in Int
      BY <3>4
    <3> QED
      BY <3>3, <3>5 DEF f
  <2>2. Min({host.fd, UInt - 1}) \in Int
    BY <2>1, TwoOf
  <2> QED
    BY <2>2, TwoOf DEF MaxFd
<1>3. (MaxFd - WorkerMax) * 60 \in Int
  BY <1>1, <1>2
<1>4. ToUInt((MaxFd - WorkerMax) * 60) \in Int
  BY <1>3, Remainders, Halves DEF ToUInt
<1>5. ToUInt((MaxFd - WorkerMax) * 60) \div 100 \in Int
  BY <1>4
<1> DEFINE c == Clamp(ToUInt((MaxFd - WorkerMax) * 60) \div 100, 256, 4096)
           w == WorkerMax
<1>6. c \in 256 .. 4096
  <2> DEFINE m == ToUInt((MaxFd - WorkerMax) * 60) \div 100
  <2>1. m \in Int
    BY <1>5
  <2>2. c = Clamp(m, 256, 4096)
    OBVIOUS
  <2> HIDE DEF c, m
  <2>3. 256 \in Int /\ 4096 \in Int /\ 256 <= 4096
    OBVIOUS
  <2>4. c \in Int /\ 256 <= c /\ c <= 4096
    BY <2>1, <2>2, <2>3, Clamped
  <2> QED
    BY <2>4
<1>7. w \in 32 .. 1024 /\ w \in Int
  BY <1>1
<1>8. Min({w, 1024}) = w
  <2> DEFINE n == 1024
  <2> HIDE DEF c, w
  <2>1. w \in Int /\ n \in Int /\ w <= n
    BY <1>7
  <2> HIDE DEF n
  <2>2. Min({w, n}) = (IF w <= n THEN w ELSE n)
    BY <2>1, TwoOf
  <2>3. Min({w, n}) = w
    BY <2>1, <2>2
  <2> QED
    BY <2>3 DEF n
<1>9. QueueCapacity = IF MaxFd > w THEN c ELSE 256
  BY DEF QueueCapacity
<1> HIDE DEF c, w
<1>10. QueueCapacity \in 256 .. 4096
  BY <1>6, <1>9
<1>11. w \in 1 .. 1024
  BY <1>7
<1> QED
  BY <1>8, <1>10, <1>11 DEF w

LEMMA PhpFits ==
  ASSUME host \in HostType, \A i \in DOMAIN host.fpm : host.fpm[i] < Half
  PROVE  PhpQuota \in 0 .. Half - 1
<1> DEFINE f == host.fpm
           good == {i \in DOMAIN f : f[i] > 0}
<1>1. f \in Seq(Nat) /\ \A i \in DOMAIN f : f[i] < Half
  <2>1. FpmLines \subseteq Seq(Nat) /\ f \in FpmLines
    BY MachineAssumption DEF HostType
  <2> QED
    BY <2>1
<1>2. MaxChildren = IF good = {} THEN 50 ELSE ToInt(f[Max(good)])
  BY DEF MaxChildren
<1> HIDE DEF f
<1>3. CASE good = {}
  BY <1>2, <1>3, Halves DEF PhpQuota
<1>4. CASE good # {}
  <2>1. Len(f) \in Nat /\ good \in SUBSET (0 .. Len(f))
    BY <1>1
  <2>2. Max(good) \in good
    <3> HIDE DEF good
    <3> QED
      BY <1>4, <2>1, MaxMember
  <2> DEFINE v == f[Max(good)]
  <2>3. v \in Nat /\ v < Half
    BY <1>1, <2>2
  <2> HIDE DEF v
  <2>4. v \in -Half .. Half - 1 /\ v \in Int /\ v \in 0 .. Half - 1
    BY <2>3, Halves
  <2>5. ToInt(v) = v
    BY <2>4, Ints
  <2>6. MaxChildren = v
    BY <1>2, <1>4, <2>5 DEF v
  <2> QED
    BY <2>4, <2>6, Halves DEF PhpQuota
<1> QED
  BY <1>3, <1>4

(* What php leaves, and how python and rust share it.                      *)
LEMMA RestFits ==
  ASSUME host \in HostType, PhpQuota \in 0 .. Half - 1
  PROVE  /\ Rest \in 0 .. WorkerMax
         /\ Rest = IF WorkerMax >= PhpQuota THEN WorkerMax - PhpQuota ELSE 0
<1> DEFINE w == WorkerMax
           p == PhpQuota
<1>1. w \in 32 .. 1024 /\ p \in 0 .. Half - 1
  BY Workers
<1>2. Rest = Max({0, ToInt(w - p)})
  BY DEF Rest
<1> HIDE DEF w, p
<1>3. w - p \in -Half .. Half - 1 /\ w - p \in Int /\ 0 \in Int
  BY <1>1, Halves
<1>4. ToInt(w - p) = w - p
  BY <1>3, Ints
<1>5. Rest = IF 0 >= w - p THEN 0 ELSE w - p
  <2> DEFINE d == w - p
  <2> HIDE DEF d
  <2>1. d \in Int
    BY <1>3 DEF d
  <2>2. Max({0, d}) = IF 0 >= d THEN 0 ELSE d
    BY <2>1, TwoOf
  <2>3. Rest = Max({0, d})
    BY <1>2, <1>4 DEF d
  <2> QED
    BY <2>2, <2>3 DEF d
<1>6. Rest \in 0 .. w /\ Rest = IF w >= p THEN w - p ELSE 0
  BY <1>1, <1>5
<1> QED
  BY <1>6 DEF w, p

LEMMA SharesFit ==
  ASSUME host \in HostType, Rest \in 0 .. 1024
  PROVE  /\ PythonQuota \in 0 .. Rest
         /\ RustQuota \in 0 .. Rest - PythonQuota
<1>0. Rest \in Nat /\ Rest <= 1024
  OBVIOUS
<1>1. PythonQuota \in 0 .. Rest
  <2>1. CASE "python" \notin host.active
    BY <1>0, <2>1 DEF PythonQuota
  <2>2. CASE "python" \in host.active /\ "rust" \notin host.active
    BY <1>0, <2>2 DEF PythonQuota
  <2>3. CASE "python" \in host.active /\ "rust" \in host.active
    <3> DEFINE p == BudgetRam("python")
               r == BudgetRam("rust")
               sum == ToLong(p + r)
    <3>1. p \in Nat /\ r \in Nat /\ 100 * p <= Word - 1 /\ 100 * r <= Word - 1 /\ Word \in Nat
      <4>1. host.active # {"python"} /\ host.active # {"rust"}
        BY <2>3
      <4>2. "python" \in Language /\ "rust" \in Language
        BY DEF Language
      <4>3. p \in 0 .. Word - 1 /\ r \in 0 .. Word - 1
        BY <4>2, Shares
      <4>4. 100 * p <= Word - 1 /\ 100 * r <= Word - 1
        BY <4>1, <4>2, Shares
      <4> QED
        BY <4>3, <4>4, WidthAssumption
    <3>2. PythonQuota = IF sum > 0 THEN ToInt(ToLong(Rest * p) \div sum) ELSE Rest \div 2
      BY <2>3 DEF PythonQuota
    <3> HIDE DEF p, r
    <3>3. p + r \in 0 .. Word - 1 /\ p + r \in Int
      BY <3>1
    <3>4. sum = p + r
      BY <3>3, Longs
    <3> HIDE DEF sum
    <3>5. CASE sum > 0
      <4>1. sum \in Nat \ {0} /\ p <= sum
        BY <3>1, <3>4, <3>5
      <4>2. Rest * p \in Nat /\ Rest * p <= Rest * sum
        BY <1>0, <3>1, <4>1
      <4> DEFINE n == ToLong(Rest * p)
      <4>3. n \in Nat /\ n <= Rest * p
        <5>1. n \in 0 .. Word - 1 /\ n <= Rest * p
          BY <4>2, Longs
        <5> QED
          BY <5>1
      <4> HIDE DEF n
      <4>4. n <= Rest * sum
        BY <1>0, <3>1, <4>1, <4>2, <4>3
      <4>5. n \div sum \in 0 .. Rest
        BY <1>0, <4>1, <4>3, <4>4, Quotient
      <4> DEFINE q == n \div sum
      <4>6. q \in 0 .. Rest
        BY <4>5
      <4>7. PythonQuota = ToInt(q)
        BY <3>2, <3>5 DEF n
      <4> HIDE DEF q
      <4>8. q \in -Half .. Half - 1 /\ q \in Int
        BY <1>0, <4>6, Halves
      <4>9. ToInt(q) = q
        BY <4>8, Ints
      <4> QED
        BY <4>6, <4>7, <4>9
    <3>6. CASE ~(sum > 0)
      BY <1>0, <3>2, <3>6
    <3> QED
      BY <3>5, <3>6
  <2> QED
    BY <2>1, <2>2, <2>3
<1>2. RustQuota \in 0 .. Rest - PythonQuota
  <2> DEFINE d == Rest - PythonQuota
  <2>1. d \in 0 .. 1024
    BY <1>0, <1>1
  <2>2. RustQuota = IF "rust" \in host.active THEN ToInt(d) ELSE 0
    BY DEF RustQuota
  <2> HIDE DEF d
  <2>3. d \in -Half .. Half - 1 /\ d \in Int
    BY <2>1, Halves
  <2>4. ToInt(d) = d
    BY <2>3, Ints
  <2>5. RustQuota \in 0 .. d
    BY <2>1, <2>2, <2>4
  <2> QED
    BY <2>5 DEF d
<1> QED
  BY <1>1, <1>2

LEMMA AdaptSound ==
  ASSUME host \in HostType, Adapt
  PROVE  SizesSound'
<1> DEFINE s == [worker_max |-> WorkerMax, worker_min |-> WorkerMin,
                 php_quota |-> PhpQuota, python_quota |-> PythonQuota,
                 rust_quota |-> RustQuota,
                 pool_size |-> ToInt(PhpQuota + PythonQuota + RustQuota),
                 event_batch_size |-> Min({WorkerMax, 1024}),
                 queue_capacity |-> QueueCapacity]
<1>1. sizes' = {s} /\ host' = host
  BY DEF Adapt
<1>2. /\ s.worker_max = WorkerMax /\ s.worker_min = WorkerMin /\ s.php_quota = PhpQuota
      /\ s.python_quota = PythonQuota /\ s.rust_quota = RustQuota
      /\ s.pool_size = ToInt(PhpQuota + PythonQuota + RustQuota)
      /\ s.event_batch_size = Min({WorkerMax, 1024}) /\ s.queue_capacity = QueueCapacity
  OBVIOUS
<1> HIDE DEF s
<1>3. WorkerMax \in 32 .. 1024 /\ WorkerMin \in 1 .. WorkerMax
      /\ Min({WorkerMax, 1024}) \in 1 .. 1024 /\ QueueCapacity \in 256 .. 4096
  BY Workers, Queue
<1>4. ASSUME \A i \in DOMAIN host.fpm : host.fpm[i] < Half
      PROVE  /\ 0 <= PhpQuota /\ 0 <= PythonQuota /\ 0 <= RustQuota
             /\ ToInt(PhpQuota + PythonQuota + RustQuota) = PhpQuota + PythonQuota + RustQuota
             /\ PythonQuota + RustQuota <= WorkerMax
  <2>1. PhpQuota \in 0 .. Half - 1
    BY <1>4, PhpFits
  <2>2. Rest \in 0 .. WorkerMax /\ Rest = IF WorkerMax >= PhpQuota THEN WorkerMax - PhpQuota ELSE 0
    BY <2>1, RestFits
  <2>3. Rest \in 0 .. 1024
    <3> DEFINE v == WorkerMax
               x == Rest
    <3>1. v \in 32 .. 1024 /\ x \in 0 .. v
      BY <1>3, <2>2
    <3> HIDE DEF v, x
    <3>2. x \in 0 .. 1024
      BY <3>1
    <3> QED
      BY <3>2 DEF x
  <2>4. PythonQuota \in 0 .. Rest /\ RustQuota \in 0 .. Rest - PythonQuota
    BY <2>3, SharesFit
  <2> DEFINE w == WorkerMax
             p == PhpQuota
             q == PythonQuota
             r == RustQuota
             e == Rest
  <2>5. /\ w \in 32 .. 1024 /\ p \in 0 .. Half - 1 /\ e \in 0 .. w
        /\ e = (IF w >= p THEN w - p ELSE 0) /\ q \in 0 .. e /\ r \in 0 .. e - q
    BY <1>3, <2>1, <2>2, <2>4
  <2> HIDE DEF w, p, q, r, e
  <2>6. 0 <= p /\ 0 <= q /\ 0 <= r /\ q + r <= w
    BY <2>5
  <2>7. p + q + r \in -Half .. Half - 1 /\ p + q + r \in Int
    BY <2>5, Halves
  <2>8. ToInt(p + q + r) = p + q + r
    BY <2>7, Ints
  <2> QED
    BY <2>6, <2>8 DEF w, p, q, r
<1>5. /\ 1 <= s.worker_min /\ s.worker_min <= s.worker_max /\ s.worker_max <= 1024
      /\ s.event_batch_size \in 1 .. 1024
      /\ s.queue_capacity \in 256 .. 4096
  BY <1>2, <1>3
<1>6. (\A i \in DOMAIN host.fpm : host.fpm[i] < UInt \div 2) =>
        /\ 0 <= s.php_quota /\ 0 <= s.python_quota /\ 0 <= s.rust_quota
        /\ s.pool_size = s.php_quota + s.python_quota + s.rust_quota
        /\ s.python_quota + s.rust_quota <= s.worker_max
  BY <1>2, <1>4 DEF Half
<1> QED
  BY <1>1, <1>5, <1>6 DEF SizesSound

(* The sizes that core_adaptive_init computes are what the program takes   *)
(* for granted, on every machine and in every configuration, though the    *)
(* products wrap and the casts cut, for integers of 16 bits or more.       *)
THEOREM SizesCorrect == AdaptiveSpec => []SizesSound
<1>1. AdaptiveInit => host \in HostType /\ SizesSound
  BY DEF AdaptiveInit, HostType, SizesSound
<1>2. (host \in HostType /\ SizesSound) /\ [AdaptiveNext]_adaptiveVars
        => (host \in HostType /\ SizesSound)'
  <2> SUFFICES ASSUME host \in HostType, SizesSound, [AdaptiveNext]_adaptiveVars
               PROVE  host' \in HostType /\ SizesSound'
    BY DEF HostType
  <2>1. CASE Adapt
    BY <2>1, AdaptSound DEF Adapt
  <2>2. CASE UNCHANGED adaptiveVars
    BY <2>2 DEF adaptiveVars, SizesSound
  <2> QED
    BY <2>1, <2>2 DEF AdaptiveNext
<1> QED
  BY <1>1, <1>2, PTL DEF AdaptiveSpec

-----------------------------------------------------------------------------
(* The header tables. *)

(* What a table keeps as long as nothing was lost: fields that were read   *)
(* as they were meant.                                                     *)
KeptField == [name : Name, value : Value \cup {"refused"}]

HpackInv ==
  /\ left \in Nat
  /\ lost \in BOOLEAN /\ misread \in BOOLEAN
  /\ ~lost => /\ encoder \in Seq(KeptField) /\ dyn_table \in Seq(KeptField)
              /\ IsPrefix(encoder, dyn_table)
              /\ ~misread

(* A prefix, entry by entry. *)
LEMMA PrefixOf ==
  ASSUME NEW S, NEW s \in Seq(S), NEW t \in Seq(S)
  PROVE  IsPrefix(s, t) <=> Len(s) <= Len(t) /\ \A i \in 1 .. Len(s) : s[i] = t[i]
<1>1. Len(s) \in Nat /\ Len(t) \in Nat /\ DOMAIN s = 1 .. Len(s)
  OBVIOUS
<1>2. Len(s) <= Len(t) =>
        /\ SubSeq(s, 1, Len(s)) = [i \in 1 .. Len(s) |-> s[i]]
        /\ SubSeq(t, 1, Len(s)) = [i \in 1 .. Len(s) |-> t[i]]
  BY <1>1, SubSeqProperties
<1> QED
  BY <1>1, <1>2 DEF IsPrefix

LEMMA NewestOf ==
  ASSUME NEW S, NEW s \in Seq(S), NEW n \in Nat
  PROVE  /\ Newest(s, n) \in Seq(S)
         /\ Len(Newest(s, n)) = IF n <= Len(s) THEN n ELSE Len(s)
         /\ \A i \in 1 .. Len(Newest(s, n)) : Newest(s, n)[i] = s[i]
<1> DEFINE m == Min({n, Len(s)})
<1>1. m = IF n <= Len(s) THEN n ELSE Len(s)
  <2>1. Len(s) \in Int /\ n \in Int
    OBVIOUS
  <2> QED
    BY <2>1, TwoOf
<1> HIDE DEF m
<1>2. m \in 0 .. Len(s) /\ Len(s) \in Nat
  BY <1>1
<1>3. Newest(s, n) = SubSeq(s, 1, m)
  BY DEF Newest, m
<1>4. /\ SubSeq(s, 1, m) \in Seq(S) /\ Len(SubSeq(s, 1, m)) = m
      /\ \A i \in 1 .. m : SubSeq(s, 1, m)[i] = s[i]
  BY <1>2, SubSeqProperties
<1> QED
  BY <1>1, <1>3, <1>4

(* The newest entries of a table are a prefix of more of them.             *)
LEMMA NewestInStep ==
  ASSUME NEW S, NEW s \in Seq(S), NEW t \in Seq(S), IsPrefix(s, t),
         NEW n \in Nat, NEW m \in Nat, n <= m, n <= Len(s)
  PROVE  IsPrefix(Newest(s, n), Newest(t, m))
<1>1. Len(s) <= Len(t) /\ \A i \in 1 .. Len(s) : s[i] = t[i]
  BY PrefixOf
<1>2. /\ Newest(s, n) \in Seq(S) /\ Len(Newest(s, n)) = n
      /\ \A i \in 1 .. n : Newest(s, n)[i] = s[i]
  BY NewestOf
<1>3. /\ Newest(t, m) \in Seq(S) /\ Len(Newest(t, m)) = IF m <= Len(t) THEN m ELSE Len(t)
      /\ \A i \in 1 .. Len(Newest(t, m)) : Newest(t, m)[i] = t[i]
  BY NewestOf
<1> DEFINE a == Newest(s, n)
           b == Newest(t, m)
<1> HIDE DEF a, b
<1>4. a \in Seq(S) /\ b \in Seq(S) /\ Len(a) = n /\ Len(b) = IF m <= Len(t) THEN m ELSE Len(t)
  BY <1>2, <1>3 DEF a, b
<1>5. Len(s) \in Nat /\ Len(t) \in Nat
  OBVIOUS
<1>6. n <= Len(b)
  BY <1>1, <1>4, <1>5
<1>7. \A i \in 1 .. n : a[i] = s[i] /\ b[i] = t[i] /\ s[i] = t[i]
  BY <1>1, <1>2, <1>3, <1>4, <1>5, <1>6 DEF a, b
<1>8. IsPrefix(a, b)
  BY <1>4, <1>6, <1>7, PrefixOf
<1> QED
  BY <1>8 DEF a, b

(* Each entry takes an octet at least: a tab that the encoder may have   *)
(* has no more entries than the decoder has slots.                         *)
LEMMA EntriesFit ==
  ASSUME NEW tab \in Seq(KeptField), SizeOf(tab) <= TableSize
  PROVE  Len(tab) <= Entries
<1> DEFINE D == 1 .. Len(tab)
           U == UNION {Octets(tab, i) : i \in D}
<1>1. Len(tab) \in Nat /\ DOMAIN tab = D /\ \A i \in D : tab[i] \in KeptField
  OBVIOUS
<1>2. \A i \in D : FieldSize[tab[i].name] \in Nat \ {0}
  BY <1>1, HpackAssumption DEF KeptField
<1>3. IsFiniteSet(D) /\ Cardinality(D) = Len(tab)
  <2> DEFINE k == Len(tab)
  <2>1. k \in Nat /\ k \in Int /\ 1 \in Int
    BY <1>1
  <2> HIDE DEF k
  <2>2. IsFiniteSet(1 .. k) /\ Cardinality(1 .. k) = IF 1 > k THEN 0 ELSE k - 1 + 1
    BY <2>1, FS_Interval
  <2>3. Cardinality(1 .. k) = k
    BY <2>1, <2>2
  <2> QED
    BY <2>2, <2>3 DEF k
<1>4. \A i \in D : IsFiniteSet(Octets(tab, i))
  <2> TAKE i \in D
  <2>1. IsFiniteSet({i})
    BY FS_Singleton
  <2> DEFINE n == FieldSize[tab[i].name]
  <2>2. n \in Int /\ 1 \in Int
    BY <1>2
  <2> HIDE DEF n
  <2>3. IsFiniteSet(1 .. n)
    BY <2>2, FS_Interval
  <2> QED
    BY <2>1, <2>3, FS_Product DEF Octets, n
<1>5. IsFiniteSet(U)
  <2> DEFINE F == {Octets(tab, i) : i \in D}
             g == [i \in D |-> Octets(tab, i)]
  <2>1. g \in Surjection(D, F)
    BY DEF Surjection
  <2> HIDE DEF g
  <2>2. IsFiniteSet(F)
    BY <1>3, <2>1, FS_Surjection
  <2>3. \A X \in F : IsFiniteSet(X)
    BY <1>4
  <2> HIDE DEF F
  <2>4. IsFiniteSet(UNION F)
    BY <2>2, <2>3, FS_UNION
  <2> QED
    BY <2>4 DEF F
<1>6. \A i \in D : <<i, 1>> \in U
  <2> TAKE i \in D
  <2> DEFINE n == FieldSize[tab[i].name]
  <2>1. n \in Nat \ {0}
    BY <1>2
  <2> HIDE DEF n
  <2>2. 1 \in 1 .. n
    BY <2>1
  <2>3. <<i, 1>> \in Octets(tab, i)
    BY <2>2 DEF Octets, n
  <2> QED
    BY <2>3
<1>7. Cardinality(D) <= Cardinality(U)
  <2> DEFINE g == [i \in D |-> <<i, 1>>]
  <2> HIDE DEF U
  <2>1. g \in Injection(D, U)
    BY <1>6 DEF Injection, IsInjective
  <2> HIDE DEF g
  <2> QED
    BY <1>5, <2>1, FS_Injection
<1>8. SizeOf(tab) = Cardinality(U) /\ Cardinality(U) \in Nat
  BY <1>1, <1>5, FS_CardinalityType DEF SizeOf
<1> DEFINE c == Cardinality(U)
<1>9. Len(tab) <= c /\ c <= TableSize /\ c \in Nat
  BY <1>3, <1>7, <1>8
<1> HIDE DEF c
<1>10. TableSize <= Entries /\ TableSize \in Nat /\ Entries \in Nat
  BY HpackAssumption
<1> QED
  BY <1>1, <1>9, <1>10

(* The encoder keeps the newest entries, at most as many as fit.           *)
LEMMA EncoderKeeps ==
  ASSUME NEW tab \in Seq(KeptField), NEW f \in KeptField
  PROVE  \E n \in 0 .. Len(tab) + 1 :
            /\ n <= Entries
            /\ EncoderAdd(tab, f) = Newest(<<f>> \o tab, n)
<1> DEFINE s == <<f>> \o tab
           k == Len(tab) + 1
           S == {n \in 0 .. k : SizeOf(Newest(s, n)) <= TableSize}
<1>1. s \in Seq(KeptField) /\ Len(s) = k /\ k \in Nat
  OBVIOUS
<1>2. S # {}
  <2>1. Newest(s, 0) \in Seq(KeptField) /\ Len(Newest(s, 0)) = 0
    <3> HIDE DEF s, k
    <3>1. Len(s) \in Nat /\ 0 \in Nat
      BY <1>1
    <3> QED
      BY <1>1, <3>1, NewestOf
  <2>2. Newest(s, 0) = <<>>
    BY <2>1
  <2>3. {Octets(<<>>, i) : i \in DOMAIN <<>>} = {}
    OBVIOUS
  <2>4. SizeOf(<<>>) = 0
    BY <2>3, FS_EmptySet DEF SizeOf
  <2>5. 0 <= TableSize
    BY HpackAssumption
  <2>6. 0 \in 0 .. k
    BY <1>1
  <2> HIDE DEF s, k
  <2>7. 0 \in S
    BY <2>2, <2>4, <2>5, <2>6
  <2> QED
    BY <2>7
<1>3. EncoderAdd(tab, f) = Newest(s, Max(S))
  BY DEF EncoderAdd
<1> HIDE DEF s, k
<1>4. S \in SUBSET (0 .. k)
  OBVIOUS
<1>5. Max(S) \in S
  <2> HIDE DEF S
  <2> QED
    BY <1>1, <1>2, <1>4, MaxMember
<1> DEFINE n == Max(S)
<1> HIDE DEF n
<1>6. n \in 0 .. k /\ SizeOf(Newest(s, n)) <= TableSize
  BY <1>5 DEF n
<1>7. Newest(s, n) \in Seq(KeptField) /\ Len(Newest(s, n)) = n
  <2>1. n \in Nat
    BY <1>1, <1>6
  <2>2. /\ Newest(s, n) \in Seq(KeptField)
        /\ Len(Newest(s, n)) = IF n <= Len(s) THEN n ELSE Len(s)
    BY <1>1, <2>1, NewestOf
  <2> QED
    BY <1>1, <1>6, <2>2
<1>8. n <= Entries
  BY <1>6, <1>7, EntriesFit
<1> QED
  BY <1>3, <1>6, <1>8 DEF s, k, n

(* An index leads to the same entry at both ends. *)
LEMMA SameEntry ==
  ASSUME encoder \in Seq(KeptField), dyn_table \in Seq(KeptField),
         IsPrefix(encoder, dyn_table), NEW i \in Indices
  PROVE  /\ GetHeader(i) = Entry(i)
         /\ \E g \in [name : Name, value : Value \cup {"empty", "refused"}] : Entry(i) = <<g>>
<1> DEFINE G == [name : Name, value : Value \cup {"empty", "refused"}]
           k == Len(Static)
           n == Len(encoder)
           s == Static \o encoder
<1>1. Static \in Seq(G) /\ encoder \in Seq(G) /\ dyn_table \in Seq(G)
  <2>1. [name : Name, value : Value \cup {"empty"}] \subseteq G /\ KeptField \subseteq G
    BY DEF KeptField
  <2>2. Static \in Seq([name : Name, value : Value \cup {"empty"}])
    BY HpackAssumption
  <2> DEFINE A == [name : Name, value : Value \cup {"empty"}]
  <2>3. A \subseteq G /\ KeptField \subseteq G /\ Static \in Seq(A)
    BY <2>1, <2>2
  <2> HIDE DEF G, A
  <2>4. \A X, Y : X \subseteq Y => Seq(X) \subseteq Seq(Y)
    OBVIOUS
  <2> QED
    BY <2>3, <2>4
<1> HIDE DEF G
<1>2. k \in Nat /\ n \in Nat /\ Len(dyn_table) \in Nat /\ i \in 1 .. k + n
      /\ DOMAIN Static = 1 .. k /\ DOMAIN dyn_table = 1 .. Len(dyn_table)
  BY <1>1 DEF Indices
<1>3. /\ s \in Seq(G) /\ Len(s) = k + n /\ DOMAIN s = 1 .. k + n
      /\ \A j \in 1 .. k + n : s[j] = IF j <= k THEN Static[j] ELSE encoder[j - k]
  BY <1>1, <1>2
<1>4. n <= Len(dyn_table) /\ \A j \in 1 .. n : encoder[j] = dyn_table[j]
  BY PrefixOf
<1> HIDE DEF s, k, n
<1>5. Entry(i) = <<s[i]>> /\ s[i] \in G
  BY <1>2, <1>3 DEF Entry, At, s
<1>6. GetHeader(i) = <<s[i]>>
  <2>1. CASE i <= k
    <3>1. i \in 1 .. k
      BY <1>2, <2>1
    <3>2. GetHeader(i) = At(Static, i)
      BY <2>1 DEF GetHeader, k
    <3>3. s[i] = Static[i]
      BY <1>2, <1>3, <2>1
    <3> QED
      BY <1>2, <3>1, <3>2, <3>3 DEF At
  <2>2. CASE ~(i <= k)
    <3>1. i - k \in 1 .. n /\ i - k \in DOMAIN dyn_table
      BY <1>2, <1>4, <2>2
    <3>2. GetHeader(i) = At(dyn_table, i - k)
      BY <2>2 DEF GetHeader, k
    <3>3. s[i] = encoder[i - k] /\ encoder[i - k] = dyn_table[i - k]
      BY <1>2, <1>3, <1>4, <2>2, <3>1
    <3> QED
      BY <3>1, <3>2, <3>3 DEF At
  <2> QED
    BY <2>1, <2>2
<1> QED
  BY <1>5, <1>6 DEF G

(* A field is read as it was meant, and added as it was sent.              *)
LEMMA ReadsWell ==
  ASSUME encoder \in Seq(KeptField), dyn_table \in Seq(KeptField),
         IsPrefix(encoder, dyn_table),
         NEW f \in Field, NEW w \in Writings(f), NEW v \in Reads(f.value),
         ~(Adds(w) /\ f.value \in {"empty", "cut", "huge"})
  PROVE  /\ Decoded(w, f, v) = Meant(w, f, v)
         /\ Adds(w) => f \in KeptField /\ Decoded(w, f, v) = <<f>>
<1>1. f = [name |-> f.name, value |-> f.value] /\ f.name \in Name
      /\ f.value \in Value \cup {"empty", "cut", "refused", "huge"}
  BY DEF Field
<1>2. f.value \in Value \cup {"empty", "refused"} => v = f.value
  BY HpackAssumption DEF Reads, Special
<1>3. \A x : [f EXCEPT !.value = x] = [name |-> f.name, value |-> x]
  BY <1>1
<1>4. CASE w.how = "indexed"
  <2>1. w.index \in Indices /\ Entry(w.index) = <<f>>
    BY <1>4 DEF Writings, Indexed, Literal
  <2>2. PICK g \in [name : Name, value : Value \cup {"empty", "refused"}] :
           Entry(w.index) = <<g>> /\ GetHeader(w.index) = Entry(w.index)
    BY <2>1, SameEntry
  <2>3. f = g
    BY <2>1, <2>2
  <2>4. v = f.value
    BY <1>2, <2>2, <2>3
  <2>5. Decoded(w, f, v) = <<f>> /\ ~ Adds(w)
    BY <1>4, <2>1, <2>2 DEF Decoded, Adds
  <2>6. Meant(w, f, v) = <<[f EXCEPT !.value = v]>>
    BY <1>4 DEF Meant
  <2> QED
    BY <1>1, <1>3, <2>4, <2>5, <2>6
<1>5. CASE w.how = "literal"
  <2>1. w \in Literal /\ (w.index = 0 \/ f.name \in Named(w.index))
    BY <1>5 DEF Writings, Indexed, Literal
  <2>2. CASE v = "empty"
    <3>1. Decoded(w, f, v) = <<>> /\ Meant(w, f, v) = <<>>
      BY <1>5, <2>2 DEF Decoded, Meant
    <3>2. f.value \in {"empty", "cut", "huge"}
      BY <1>1, <2>2, HpackAssumption DEF Reads, Special
    <3> QED
      BY <3>1, <3>2
  <2>3. CASE v # "empty"
    <3> DEFINE h == [name |-> f.name, value |-> v]
               name == IF w.index = 0 THEN <<f>> ELSE GetHeader(w.index)
    <3>1. Meant(w, f, v) = <<h>>
      BY <1>3, <2>3 DEF Meant
    <3>2. \E g : name = <<g>> /\ g = [name |-> f.name, value |-> g.value]
      <4>1. CASE w.index = 0
        BY <1>1, <4>1
      <4>2. CASE w.index # 0
        <5>1. w.index \in Indices
          BY <2>1, <4>2 DEF Literal
        <5>2. PICK g \in [name : Name, value : Value \cup {"empty", "refused"}] :
                 Entry(w.index) = <<g>> /\ GetHeader(w.index) = Entry(w.index)
          BY <5>1, SameEntry
        <5>3. f.name = g.name
          BY <2>1, <4>2, <5>2 DEF Named, ToSet
        <5>4. g = [name |-> g.name, value |-> g.value]
          OBVIOUS
        <5> QED
          BY <4>2, <5>2, <5>3, <5>4
      <4> QED
        BY <4>1, <4>2
    <3>3. Decoded(w, f, v) = [i \in DOMAIN name |-> [name[i] EXCEPT !.value = v]]
      BY <1>5, <2>3 DEF Decoded
    <3> HIDE DEF name
    <3>4. PICK g : name = <<g>> /\ g = [name |-> f.name, value |-> g.value]
      BY <3>2
    <3>5. [g EXCEPT !.value = v] = h
      BY <3>4
    <3>6. Decoded(w, f, v) = <<h>>
      <4>1. Decoded(w, f, v) = [i \in 1 .. 1 |-> h]
        BY <3>3, <3>4, <3>5
      <4> HIDE DEF h
      <4>2. [i \in 1 .. 1 |-> h] = <<h>>
        OBVIOUS
      <4> QED
        BY <4>1, <4>2
    <3>7. Adds(w) => f \in KeptField /\ h = f
      <4> SUFFICES ASSUME Adds(w) PROVE f \in KeptField /\ h = f
        OBVIOUS
      <4>1. f.value \in Value \cup {"refused"}
        BY <1>1
      <4> QED
        BY <1>1, <1>2, <4>1 DEF KeptField
    <3> QED
      BY <3>1, <3>6, <3>7
  <2> QED
    BY <2>2, <2>3
<1>6. w.how \in {"indexed", "literal"}
  BY DEF Writings, Indexed, Literal
<1> QED
  BY <1>4, <1>5, <1>6

LEMMA ReadFieldStep ==
  ASSUME HpackInv, NEW f \in Field, NEW w \in Writings(f), ReadField(f, w)
  PROVE  HpackInv'
<1>1. left' \in Nat
  BY DEF ReadField, Encode, HpackInv
<1>2. lost' = (lost \/ (Adds(w) /\ f.value \in {"empty", "cut", "huge"})) /\ lost' \in BOOLEAN
  BY DEF ReadField
<1>3. PICK v \in Reads(f.value) :
        /\ misread' = (misread \/ Decoded(w, f, v) # Meant(w, f, v))
        /\ dyn_table' = IF Adds(w) /\ Decoded(w, f, v) # <<>>
                          THEN DynamicTableAdd(Head(Decoded(w, f, v))) ELSE dyn_table
  BY DEF ReadField
<1>4. encoder' = IF Adds(w) THEN EncoderAdd(encoder, f) ELSE encoder
  BY DEF ReadField, Encode
<1>5. ASSUME ~lost'
      PROVE  /\ encoder' \in Seq(KeptField) /\ dyn_table' \in Seq(KeptField)
             /\ IsPrefix(encoder', dyn_table')
             /\ ~misread'
  <2>1. /\ encoder \in Seq(KeptField) /\ dyn_table \in Seq(KeptField)
        /\ IsPrefix(encoder, dyn_table) /\ ~misread
        /\ ~(Adds(w) /\ f.value \in {"empty", "cut", "huge"})
    BY <1>2, <1>5 DEF HpackInv
  <2>2. /\ Decoded(w, f, v) = Meant(w, f, v)
        /\ Adds(w) => f \in KeptField /\ Decoded(w, f, v) = <<f>>
    BY <2>1, ReadsWell
  <2>3. ~misread'
    BY <1>3, <2>1, <2>2
  <2>4. CASE ~Adds(w)
    BY <1>3, <1>4, <2>1, <2>3, <2>4
  <2>5. CASE Adds(w)
    <3> DEFINE s == <<f>> \o encoder
               t == <<f>> \o dyn_table
    <3>1. f \in KeptField /\ encoder' = EncoderAdd(encoder, f) /\ dyn_table' = Newest(t, Entries)
      BY <1>3, <1>4, <2>2, <2>5 DEF DynamicTableAdd
    <3>2. PICK n \in 0 .. Len(encoder) + 1 : n <= Entries /\ encoder' = Newest(s, n)
      BY <2>1, <3>1, EncoderKeeps
    <3>3. s \in Seq(KeptField) /\ t \in Seq(KeptField) /\ Len(s) = Len(encoder) + 1
          /\ Len(t) = Len(dyn_table) + 1 /\ Len(encoder) \in Nat /\ Len(dyn_table) \in Nat
      BY <2>1, <3>1
    <3>4. IsPrefix(s, t)
      <4>1. Len(encoder) <= Len(dyn_table) /\ \A i \in 1 .. Len(encoder) : encoder[i] = dyn_table[i]
        BY <2>1, PrefixOf
      <4>2. \A i \in 1 .. Len(s) : s[i] = t[i]
        <5> TAKE i \in 1 .. Len(s)
        <5>1. CASE i = 1
          BY <5>1, <2>1, <3>1
        <5>2. CASE i # 1
          <6>1. i - 1 \in 1 .. Len(encoder)
            BY <5>2, <3>3
          <6>2. s[i] = encoder[i - 1] /\ t[i] = dyn_table[i - 1]
            BY <5>2, <6>1, <2>1, <3>1, <4>1, <3>3
          <6> QED
            BY <4>1, <6>1, <6>2
        <5> QED
          BY <5>1, <5>2
      <4> HIDE DEF s, t
      <4>3. Len(s) <= Len(t)
        BY <3>3, <4>1
      <4> QED
        BY <3>3, <4>2, <4>3, PrefixOf
    <3> HIDE DEF s, t
    <3>5. n \in Nat /\ Entries \in Nat /\ n <= Len(s)
      BY <3>2, <3>3, HpackAssumption
    <3>6. IsPrefix(encoder', dyn_table')
      BY <3>1, <3>2, <3>3, <3>4, <3>5, NewestInStep
    <3>7. encoder' \in Seq(KeptField) /\ dyn_table' \in Seq(KeptField)
      BY <3>1, <3>2, <3>3, <3>5, NewestOf
    <3> QED
      BY <2>3, <3>6, <3>7
  <2> QED
    BY <2>4, <2>5
<1>6. misread' \in BOOLEAN
  BY <1>3 DEF HpackInv
<1> QED
  BY <1>1, <1>2, <1>5, <1>6 DEF HpackInv

LEMMA HpackStep == HpackInv /\ [HpackNext]_hpackVars => HpackInv'
<1> SUFFICES ASSUME HpackInv, [HpackNext]_hpackVars
             PROVE  HpackInv'
  OBVIOUS
<1>1. CASE BeginBlock
  BY <1>1 DEF BeginBlock, HpackInv
<1>2. CASE Resize
  <2>1. /\ left' = left /\ misread' = misread /\ lost' = lost /\ dyn_table' = dyn_table /\ ~lost
        /\ \E n \in 0 .. Len(encoder) - 1 : encoder' = Newest(encoder, n)
    BY <1>2 DEF Resize
  <2>2. encoder \in Seq(KeptField) /\ dyn_table \in Seq(KeptField)
        /\ IsPrefix(encoder, dyn_table) /\ Len(encoder) \in Nat /\ Len(dyn_table) \in Nat
    BY <2>1 DEF HpackInv
  <2>3. PICK n \in 0 .. Len(encoder) - 1 : encoder' = Newest(encoder, n)
    BY <2>1
  <2>4. n \in Nat /\ n <= Len(encoder)
    BY <2>2
  <2>5. /\ encoder' \in Seq(KeptField) /\ Len(encoder') = n
        /\ \A i \in 1 .. n : encoder'[i] = encoder[i]
    BY <2>2, <2>3, <2>4, NewestOf
  <2>6. Len(encoder) <= Len(dyn_table) /\ \A i \in 1 .. Len(encoder) : encoder[i] = dyn_table[i]
    BY <2>2, PrefixOf
  <2>7. n <= Len(dyn_table) /\ \A i \in 1 .. n : encoder'[i] = dyn_table[i]
    BY <2>2, <2>4, <2>5, <2>6
  <2>8. IsPrefix(encoder', dyn_table)
    BY <2>2, <2>5, <2>7, PrefixOf
  <2> QED
    BY <2>1, <2>5, <2>8 DEF HpackInv
<1>3. ASSUME NEW f \in Field, NEW w \in Writings(f), ReadField(f, w)
      PROVE  HpackInv'
  BY <1>3, ReadFieldStep
<1>4. ASSUME NEW f \in Field, NEW w \in Writings(f), SkipField(f, w)
      PROVE  HpackInv'
  <2>1. left' = left - 1 /\ left > 0 /\ dyn_table' = dyn_table /\ misread' = misread
    BY <1>4 DEF SkipField, Encode
  <2>2. lost' = (lost \/ Adds(w)) /\ encoder' = IF Adds(w) THEN EncoderAdd(encoder, f) ELSE encoder
    BY <1>4 DEF SkipField, Encode
  <2>3. lost' \in BOOLEAN /\ (~lost' => ~lost /\ encoder' = encoder)
    BY <2>2
  <2>4. left' \in Nat
    BY <2>1 DEF HpackInv
  <2> QED
    BY <2>1, <2>3, <2>4 DEF HpackInv
<1>5. CASE UNCHANGED hpackVars
  BY <1>5 DEF hpackVars, HpackInv
<1> QED
  BY <1>1, <1>2, <1>3, <1>4, <1>5 DEF HpackNext

(* The decoder of hpack.c, which evicts by number, keeps what a client     *)
(* that evicts by size counts on, as long as every field it adds is added  *)
(* by the decoder too: for all tables, sizes of fields and blocks.         *)
THEOREM TablesCorrect == HpackSpec => []TablesInStep
<1>1. HpackInit => HpackInv
  <2> SUFFICES ASSUME HpackInit PROVE HpackInv
    OBVIOUS
  <2>1. encoder \in Seq(KeptField) /\ dyn_table \in Seq(KeptField)
        /\ Len(encoder) = 0 /\ Len(dyn_table) = 0
    BY DEF HpackInit
  <2>2. Len(encoder) <= Len(dyn_table) /\ \A i \in 1 .. Len(encoder) : encoder[i] = dyn_table[i]
    BY <2>1
  <2>3. IsPrefix(encoder, dyn_table)
    BY <2>1, <2>2, PrefixOf
  <2> QED
    BY <2>1, <2>3 DEF HpackInit, HpackInv
<1>2. HpackInv => TablesInStep
  BY DEF HpackInv, TablesInStep
<1> QED
  BY <1>1, <1>2, HpackStep, PTL DEF HpackSpec

-----------------------------------------------------------------------------
(* The routes. *)

Cell == [source : Seq(Segment), target : Target \cup {""}, vars : BOOLEAN]

LoaderType == [text : Seq(RouteEntry), open : BOOLEAN, next : Nat \ {0}, filled : BOOLEAN,
               mtime : Nat]

RequestType == [uri : Seq(Segment), i : Nat \cup {-1}, best : 0 .. MaxRoutes, max_len : Nat,
                answer : Seq([target : Target \cup {""}, rest : Int, vars : BOOLEAN]),
                texts : SUBSET Seq(RouteEntry), disturbed : BOOLEAN]

RoutesTypeOK ==
  /\ htroute \in Seq([text : File, mtime : Nat]) /\ Len(htroute) <= 1
  /\ second \in Nat \ {0} /\ inotify \in BOOLEAN /\ missed \in BOOLEAN
  /\ routes \in [1 .. MaxRoutes -> Cell]
  /\ total_routes \in 0 .. MaxRoutes /\ last_route_mtime \in Nat
  /\ loading \in Seq(LoaderType) /\ Len(loading) <= 1
  /\ seen \in Seq(RequestType) /\ Len(seen) <= 1
  /\ loaded \in Seq(RouteEntry)

(* The routes of a text that the table has room for. *)
Shown(text) == IF Len(text) <= MaxRoutes THEN Len(text) ELSE MaxRoutes

(* The loader has replaced the routes before the one it is at.             *)
LoaderInv ==
  /\ total_routes = Shown(loaded)
  /\ loading # <<>> =>
       /\ Loader.next <= Shown(Loader.text) + 1
       /\ \A j \in 1 .. Loader.next - 1 : routes[j] = Loader.text[j]
       /\ Loader.filled => Loader.next <= Shown(Loader.text)
       /\ ~Loader.open => Loader.text = <<>>

(* best is what the search has found in the first n entries of t.          *)
Matches(r, uri) == IsPrefix(r.source, uri) /\ Len(r.source) > 0
BestOf(t, n, uri, best, max_len) ==
  \/ /\ best = 0 /\ max_len = 0
     /\ \A j \in 1 .. n : ~Matches(t[j], uri)
  \/ /\ best \in 1 .. n /\ Matches(t[best], uri) /\ max_len = Len(t[best].source)
     /\ \A j \in 1 .. n : Matches(t[j], uri) =>
           /\ Len(t[j].source) <= max_len
           /\ j < best => Len(t[j].source) < max_len

Agrees == \A j \in 1 .. total_routes : routes[j] = loaded[j]

(* A request that was not disturbed searches the routes of the text that   *)
(* is loaded, or was answered by one that was.                             *)
RequestInv ==
  seen # <<>> /\ ~Request.disturbed =>
    IF Request.i >= 0
      THEN /\ loaded \in Request.texts /\ Request.i <= total_routes /\ Agrees
           /\ BestOf(routes, Request.i, Request.uri, Request.best, Request.max_len)
      ELSE \E text \in Request.texts : Request.answer \in Routing(text, Request.uri)

(* No change is older than the time that is known, and one of that time is *)
(* in the table or will be when the load is done.                          *)
FileInv ==
  /\ Known <= second
  /\ htroute # <<>> => htroute[1].mtime <= second
  /\ ~missed =>
       IF htroute = <<>> THEN loading = <<>> /\ loaded = <<>>
       ELSE /\ Known <= htroute[1].mtime
            /\ Known < htroute[1].mtime => inotify
            /\ Known = htroute[1].mtime =>
                 IF loading = <<>> THEN loaded = htroute[1].text
                 ELSE Loader.open => Loader.text = htroute[1].text

RoutesInv == RoutesTypeOK /\ LoaderInv /\ RequestInv /\ FileInv

-----------------------------------------------------------------------------
(* A sequence of at most one element. *)
LEMMA Single ==
  ASSUME NEW S, NEW s \in Seq(S), Len(s) <= 1, s # <<>>
  PROVE  s = <<s[1]>> /\ s[1] \in S /\ DOMAIN s = {1} /\ Len(s) = 1
<1>1. Len(s) # 0 /\ Len(s) \in Nat
  BY EmptySeq
<1>2. Len(s) = 1
  BY <1>1
<1>3. DOMAIN s = 1 .. 1 /\ s = [i \in 1 .. 1 |-> s[i]] /\ s[1] \in S
  BY <1>2
<1> QED
  BY <1>2, <1>3

LEMMA OneOf ==
  ASSUME NEW S, NEW x \in S
  PROVE  <<x>> \in Seq(S) /\ Len(<<x>>) = 1 /\ <<x>>[1] = x /\ <<x>> # <<>>
OBVIOUS

LEMMA None == ASSUME NEW S PROVE <<>> \in Seq(S) /\ Len(<<>>) = 0
OBVIOUS

LEMMA Mapped ==
  ASSUME NEW S, NEW s \in Seq(S), Len(s) <= 1, NEW f, f = [k \in DOMAIN s |-> f[k]]
  PROVE  IF s = <<>> THEN f = <<>> ELSE f = <<f[1]>>
<1>1. CASE s = <<>>
  <2>1. DOMAIN s = {}
    BY <1>1
  <2>2. f = [k \in {} |-> f[k]] /\ <<>> = [k \in {} |-> f[k]]
    BY <2>1
  <2> QED
    BY <1>1, <2>2
<1>2. CASE s # <<>>
  <2>1. DOMAIN s = 1 .. 1
    BY <1>2, Single
  <2>2. f = [k \in 1 .. 1 |-> f[k]]
    BY <2>1
  <2>3. f = <<f[1]>>
    BY <2>2
  <2> QED
    BY <1>2, <2>3
<1> QED
  BY <1>1, <1>2

LEMMA ShownOf ==
  ASSUME NEW text \in Seq(RouteEntry)
  PROVE  /\ Shown(text) \in 0 .. MaxRoutes /\ Len(text) \in Nat /\ MaxRoutes \in Nat \ {0}
         /\ Shown(text) <= Len(text) /\ DOMAIN text = 1 .. Len(text)
         /\ \A j \in 1 .. Shown(text) : j \in DOMAIN text /\ text[j] \in RouteEntry
                                        /\ text[j] \in Cell /\ j \in 1 .. MaxRoutes
         /\ \A j \in Nat \ {0} : j <= Len(text) /\ j <= MaxRoutes <=> j <= Shown(text)
<1>1. MaxRoutes \in Nat \ {0} /\ Len(text) \in Nat /\ DOMAIN text = 1 .. Len(text)
  BY RoutesAssumption
<1>2. Shown(text) \in 0 .. MaxRoutes /\ Shown(text) <= Len(text)
  BY <1>1 DEF Shown
<1>3. RouteEntry \subseteq Cell
  BY DEF RouteEntry, Cell
<1>4. \A j \in Nat \ {0} : j <= Len(text) /\ j <= MaxRoutes <=> j <= Shown(text)
  BY <1>1 DEF Shown
<1>5. \A j \in 1 .. Shown(text) : j \in DOMAIN text /\ j \in 1 .. MaxRoutes
  BY <1>1, <1>2
<1>6. \A j \in DOMAIN text : text[j] \in RouteEntry
  OBVIOUS
<1> QED
  BY <1>1, <1>2, <1>3, <1>4, <1>5, <1>6

-----------------------------------------------------------------------------
(* What the event loop does to a request in progress: it notes a change    *)
(* and another text.                                                       *)
SameRequest(r, q) ==
  /\ q.uri = r.uri /\ q.i = r.i /\ q.best = r.best /\ q.max_len = r.max_len
  /\ q.answer = r.answer /\ r.texts \subseteq q.texts

SeenKept ==
  /\ seen' \in Seq(RequestType) /\ Len(seen') <= 1
  /\ seen = <<>> <=> seen' = <<>>
  /\ seen # <<>> => /\ SameRequest(seen[1], seen'[1])
                    /\ ~seen'[1].disturbed => ~seen[1].disturbed

LEMMA SeenSame ==
  ASSUME RoutesTypeOK, seen' = seen
  PROVE  SeenKept
BY DEF RoutesTypeOK, SeenKept, SameRequest

LEMMA SeenNoted ==
  ASSUME RoutesTypeOK, seen' = [k \in DOMAIN seen |-> seen'[k]],
         seen # <<>> => /\ seen'[1] \in RequestType /\ SameRequest(seen[1], seen'[1])
                        /\ ~seen'[1].disturbed => ~seen[1].disturbed
  PROVE  SeenKept
<1>0. seen \in Seq(RequestType) /\ Len(seen) <= 1
  BY DEF RoutesTypeOK
<1> DEFINE f == seen'
<1>1. f = [k \in DOMAIN seen |-> f[k]]
  OBVIOUS
<1> HIDE DEF f
<1>2. IF seen = <<>> THEN f = <<>> ELSE f = <<f[1]>>
  BY <1>0, <1>1, Mapped
<1>3. CASE seen = <<>>
  BY <1>2, <1>3, None DEF SeenKept, f
<1>4. CASE seen # <<>>
  <2>1. f[1] \in RequestType /\ f = <<f[1]>>
    BY <1>2, <1>4 DEF f
  <2>2. <<f[1]>> \in Seq(RequestType) /\ Len(<<f[1]>>) = 1 /\ <<f[1]>> # <<>>
    BY <2>1, OneOf
  <2>3. f \in Seq(RequestType) /\ Len(f) = 1 /\ f # <<>>
    BY <2>1, <2>2
  <2>4. Len(f) <= 1
    BY <2>3
  <2> QED
    BY <1>4, <2>3, <2>4 DEF SeenKept, f
<1> QED
  BY <1>3, <1>4

(* A request that reads the table notes which of its entries changed.      *)
LEMMA Disturbed ==
  ASSUME RoutesTypeOK, NEW now, Disturb(now)
  PROVE  /\ SeenKept
         /\ seen # <<>> /\ ~seen'[1].disturbed =>
              \A i \in 1 .. total_routes : routes[i] = now[i]
<1>1. CASE \A i \in 1 .. total_routes : routes[i] = now[i]
  <2>1. seen' = seen
    BY <1>1 DEF Disturb
  <2> QED
    BY <1>1, <2>1, SeenSame
<1>2. CASE \E i \in 1 .. total_routes : routes[i] # now[i]
  <2>1. seen' = [k \in DOMAIN seen |-> [seen[k] EXCEPT !.disturbed = TRUE]]
    BY <1>2 DEF Disturb
  <2>2. seen' = [k \in DOMAIN seen |-> seen'[k]]
    BY <2>1
  <2>3. ASSUME seen # <<>>
        PROVE  /\ seen'[1] \in RequestType /\ SameRequest(seen[1], seen'[1])
               /\ seen'[1].disturbed
    <3> DEFINE r == seen[1]
               q == [r EXCEPT !.disturbed = TRUE]
    <3>1. 1 \in DOMAIN seen /\ r \in RequestType
      BY <2>3, Single DEF RoutesTypeOK
    <3>2. seen'[1] = q
      BY <2>1, <3>1
    <3> HIDE DEF r
    <3>3. q \in RequestType /\ SameRequest(r, q) /\ q.disturbed
      BY <3>1 DEF RequestType, SameRequest
    <3> QED
      BY <3>2, <3>3 DEF r
  <2>4. SeenKept
    BY <2>2, <2>3, SeenNoted
  <2> QED
    BY <2>3, <2>4
<1> QED
  BY <1>1, <1>2

LEMMA LoaderSame ==
  ASSUME LoaderInv, UNCHANGED <<routes, total_routes, loading, loaded>>
  PROVE  LoaderInv'
BY DEF LoaderInv, Loader, Shown

LEMMA RequestSame ==
  ASSUME RequestInv, UNCHANGED <<routes, total_routes, loaded, seen>>
  PROVE  RequestInv'
BY DEF RequestInv, Request, Agrees

LEMMA FileSame ==
  ASSUME FileInv,
         UNCHANGED <<htroute, second, inotify, last_route_mtime, loading, loaded, missed>>
  PROVE  FileInv'
BY DEF FileInv, Known, Loader

(* What the search has found depends on the entries it has looked at.      *)
LEMMA BestSame ==
  ASSUME NEW t, NEW s, NEW n \in Nat, NEW uri, NEW best, NEW max_len,
         \A j \in 1 .. n : t[j] = s[j], BestOf(t, n, uri, best, max_len)
  PROVE  BestOf(s, n, uri, best, max_len)
BY DEF BestOf

(* A request goes on undisturbed if the entries it may read stay as they   *)
(* are and it knows the text they come from.                               *)
LEMMA RequestStays ==
  ASSUME RoutesTypeOK, RequestInv, SeenKept, total_routes' \in Nat,
         seen # <<>> /\ ~seen'[1].disturbed =>
           /\ total_routes <= total_routes'
           /\ \A j \in 1 .. total_routes : routes'[j] = routes[j]
           /\ \/ loaded' = loaded /\ total_routes' = total_routes
              \/ loaded' \in seen'[1].texts /\ Agrees'
  PROVE  RequestInv'
<1> SUFFICES ASSUME seen' # <<>>, ~seen'[1].disturbed
             PROVE  IF seen'[1].i >= 0
                      THEN /\ loaded' \in seen'[1].texts /\ seen'[1].i <= total_routes' /\ Agrees'
                           /\ BestOf(routes', seen'[1].i, seen'[1].uri, seen'[1].best,
                                     seen'[1].max_len)
                      ELSE \E text \in seen'[1].texts :
                             seen'[1].answer \in Routing(text, seen'[1].uri)
  BY DEF RequestInv, Request
<1>1. seen # <<>> /\ SameRequest(seen[1], seen'[1]) /\ ~seen[1].disturbed
  BY DEF SeenKept
<1>2. IF seen[1].i >= 0
        THEN /\ loaded \in seen[1].texts /\ seen[1].i <= total_routes /\ Agrees
             /\ BestOf(routes, seen[1].i, seen[1].uri, seen[1].best, seen[1].max_len)
        ELSE \E text \in seen[1].texts : seen[1].answer \in Routing(text, seen[1].uri)
  BY <1>1 DEF RequestInv, Request
<1>3. seen[1] \in RequestType
  BY <1>1, Single DEF RoutesTypeOK
<1>4. CASE seen[1].i >= 0
  <2> DEFINE i == seen[1].i
             n == total_routes
             m == total_routes'
  <2>1. i \in Nat /\ i <= n /\ n \in Nat /\ m \in Nat /\ n <= m
    <3>1. n <= m /\ m \in Nat
      BY <1>1
    <3>2. n \in Nat
      BY DEF RoutesTypeOK
    <3>3. i \in Nat
      <4>1. i \in Nat \cup {-1} /\ i >= 0
        BY <1>3, <1>4 DEF RequestType
      <4> HIDE DEF i
      <4> QED
        BY <4>1
    <3>4. i <= n
      BY <1>2, <1>4
    <3> QED
      BY <3>1, <3>2, <3>3, <3>4
  <2>2. \A j \in 1 .. n : routes'[j] = routes[j]
    BY <1>1
  <2>3. Agrees' /\ loaded' \in seen'[1].texts
    <3>1. CASE loaded' = loaded /\ m = n
      <4>1. \A j \in 1 .. n : routes[j] = loaded[j]
        BY <1>2, <1>4 DEF Agrees
      <4>2. \A j \in 1 .. m : routes'[j] = loaded'[j]
        BY <2>2, <3>1, <4>1
      <4>3. loaded' \in seen'[1].texts
        BY <1>1, <1>2, <1>4, <3>1 DEF SameRequest
      <4> QED
        BY <4>2, <4>3 DEF Agrees
    <3> QED
      BY <1>1, <3>1
  <2> HIDE DEF i, n, m
  <2>4. i <= m
    BY <2>1
  <2>5. \A j \in 1 .. i : routes[j] = routes'[j]
    BY <2>1, <2>2
  <2>6. BestOf(routes, i, seen[1].uri, seen[1].best, seen[1].max_len)
    BY <1>2, <1>4 DEF i
  <2>7. BestOf(routes', i, seen[1].uri, seen[1].best, seen[1].max_len)
    BY <2>1, <2>5, <2>6, BestSame
  <2>8. /\ seen'[1].i = i /\ seen'[1].uri = seen[1].uri
        /\ seen'[1].best = seen[1].best /\ seen'[1].max_len = seen[1].max_len
    BY <1>1 DEF SameRequest, i
  <2> QED
    BY <1>4, <2>3, <2>4, <2>7, <2>8 DEF i, m
<1>5. CASE ~(seen[1].i >= 0)
  BY <1>1, <1>2, <1>5 DEF SameRequest
<1> QED
  BY <1>4, <1>5

-----------------------------------------------------------------------------
(* The administrator. *)
LEMMA NextSecondStep ==
  ASSUME RoutesInv, NextSecond
  PROVE  RoutesInv'
<1>1. RoutesTypeOK /\ LoaderInv /\ RequestInv /\ FileInv
  BY DEF RoutesInv
<1>2. second' = second + 1 /\ UNCHANGED <<htroute, inotify, routes, total_routes,
        last_route_mtime, loading, seen, loaded, missed>>
  BY DEF NextSecond
<1>3. RoutesTypeOK'
  BY <1>1, <1>2 DEF RoutesTypeOK
<1>4. LoaderInv' /\ RequestInv'
  BY <1>1, <1>2, LoaderSame, RequestSame
<1>5. FileInv'
  <2>1. Known' = Known /\ Loader' = Loader
    BY <1>2 DEF Known, Loader
  <2>2. Known \in Nat /\ second \in Nat /\ (htroute # <<>> => htroute[1].mtime \in Nat)
    BY <1>1, Single DEF RoutesTypeOK, Known, LoaderType
  <2>3. Known' <= second' /\ (htroute' # <<>> => htroute'[1].mtime <= second')
    <3> DEFINE k == Known
    <3>1. k \in Nat /\ k <= second
      BY <1>1, <2>2 DEF FileInv
    <3> HIDE DEF k
    <3>2. k <= second + 1
      BY <2>2, <3>1
    <3> DEFINE h == htroute[1].mtime
    <3>3. htroute # <<>> => h \in Nat /\ h <= second
      BY <1>1, <2>2 DEF FileInv
    <3> HIDE DEF h
    <3>4. htroute # <<>> => h <= second + 1
      BY <2>2, <3>3
    <3> QED
      BY <1>2, <2>1, <3>2, <3>4 DEF k, h
  <2> QED
    BY <1>1, <1>2, <2>1, <2>3 DEF FileInv
<1> QED
  BY <1>3, <1>4, <1>5 DEF RoutesInv

LEMMA KnownType ==
  ASSUME RoutesTypeOK
  PROVE  /\ Known \in Nat
         /\ loading # <<>> => /\ Loader \in LoaderType /\ loading = <<Loader>>
                              /\ Known = Loader.mtime
         /\ htroute # <<>> => htroute[1] \in [text : File, mtime : Nat] /\ htroute = <<htroute[1]>>
         /\ File \subseteq Seq(RouteEntry) /\ MaxRoutes \in Nat \ {0}
<1>1. loading # <<>> => loading[1] \in LoaderType /\ loading = <<loading[1]>>
  BY Single DEF RoutesTypeOK
<1>2. htroute # <<>> => htroute[1] \in [text : File, mtime : Nat] /\ htroute = <<htroute[1]>>
  BY Single DEF RoutesTypeOK
<1>3. Known \in Nat
  BY <1>1 DEF Known, RoutesTypeOK, LoaderType
<1> QED
  BY <1>1, <1>2, <1>3, RoutesAssumption DEF Known, Loader

LEMMA EditStep ==
  ASSUME RoutesInv, Edit
  PROVE  RoutesInv'
<1>1. RoutesTypeOK /\ LoaderInv /\ RequestInv /\ FileInv
  BY DEF RoutesInv
<1>2. /\ inotify' = TRUE /\ missed' = (second = Known)
      /\ UNCHANGED <<second, routes, total_routes, last_route_mtime, loading, seen, loaded>>
  BY DEF Edit
<1>3. PICK f \in File : htroute' = <<[text |-> f, mtime |-> second]>>
  BY DEF Edit
<1>4. /\ htroute' \in Seq([text : File, mtime : Nat]) /\ Len(htroute') <= 1
      /\ htroute' # <<>> /\ htroute'[1].mtime = second /\ second \in Nat
  <2> DEFINE h == [text |-> f, mtime |-> second]
  <2>1. h \in [text : File, mtime : Nat] /\ h.mtime = second /\ second \in Nat
    BY <1>1 DEF RoutesTypeOK
  <2> HIDE DEF h
  <2>2. htroute' = <<h>>
    BY <1>3 DEF h
  <2>3. <<h>> \in Seq([text : File, mtime : Nat]) /\ Len(<<h>>) = 1 /\ <<h>> # <<>>
    BY <2>1, OneOf
  <2> QED
    BY <2>1, <2>2, <2>3
<1>5. RoutesTypeOK'
  BY <1>1, <1>2, <1>4 DEF RoutesTypeOK
<1>6. LoaderInv' /\ RequestInv'
  BY <1>1, <1>2, LoaderSame, RequestSame
<1>7. FileInv'
  <2>1. Known' = Known /\ Loader' = Loader /\ Known \in Nat /\ Known <= second
    BY <1>1, <1>2, KnownType DEF Known, Loader, FileInv
  <2> DEFINE k == Known
  <2>2. /\ k \in Nat /\ k <= second /\ second \in Nat /\ (missed' <=> second = k)
        /\ Known' = k
    BY <1>2, <1>4, <2>1
  <2> HIDE DEF k
  <2>3. k <= second' /\ htroute'[1].mtime <= second'
    BY <1>2, <1>4, <2>2
  <2>4. ~missed' => k < htroute'[1].mtime
    BY <1>4, <2>2
  <2> QED
    BY <1>2, <1>4, <2>2, <2>3, <2>4 DEF FileInv
<1> QED
  BY <1>5, <1>6, <1>7 DEF RoutesInv

LEMMA DeleteStep ==
  ASSUME RoutesInv, Delete
  PROVE  RoutesInv'
<1>1. RoutesTypeOK /\ LoaderInv /\ RequestInv /\ FileInv
  BY DEF RoutesInv
<1>2. /\ htroute' = <<>> /\ missed' = TRUE
      /\ UNCHANGED <<second, inotify, routes, total_routes, last_route_mtime, loading, seen,
                     loaded>>
  BY DEF Delete
<1>3. RoutesTypeOK'
  BY <1>1, <1>2, None DEF RoutesTypeOK
<1>4. LoaderInv' /\ RequestInv'
  BY <1>1, <1>2, LoaderSame, RequestSame
<1>5. FileInv'
  BY <1>1, <1>2 DEF FileInv, Known
<1> QED
  BY <1>3, <1>4, <1>5 DEF RoutesInv

LEMMA ReloadStep ==
  ASSUME RoutesInv, Reload
  PROVE  RoutesInv'
<1>1. RoutesTypeOK /\ LoaderInv /\ RequestInv /\ FileInv
  BY DEF RoutesInv
<1>2. /\ inotify /\ loading = <<>> /\ inotify' = FALSE
      /\ UNCHANGED <<htroute, second, routes>>
  BY DEF Reload
<1>3. Known = last_route_mtime
  BY <1>2 DEF Known
<1>4. CASE htroute = <<>>
  <2>1. /\ total_routes' = 0 /\ loaded' = <<>>
        /\ last_route_mtime' = IF total_routes > 0 THEN 0 ELSE last_route_mtime
        /\ missed' = FALSE /\ loading' = <<>>
        /\ seen' = [k \in DOMAIN seen |-> [seen[k] EXCEPT !.disturbed = @ \/ total_routes > 0]]
    BY <1>2, <1>4 DEF Reload
  <2>2. total_routes \in 0 .. MaxRoutes /\ last_route_mtime \in Nat
    BY <1>1 DEF RoutesTypeOK
  <2>3. ASSUME seen # <<>>
        PROVE  /\ seen'[1] \in RequestType /\ SameRequest(seen[1], seen'[1])
               /\ ~seen'[1].disturbed => ~seen[1].disturbed /\ total_routes = 0
    <3> DEFINE r == seen[1]
               d == total_routes > 0
               q == [r EXCEPT !.disturbed = r.disturbed \/ d]
    <3>1. 1 \in DOMAIN seen /\ r \in RequestType
      BY <1>1, <2>3, Single DEF RoutesTypeOK
    <3>2. seen'[1] = q /\ d \in BOOLEAN
      BY <2>1, <3>1
    <3>3. d \/ total_routes = 0
      BY <2>2
    <3> HIDE DEF r, d
    <3>4. q \in RequestType /\ SameRequest(r, q)
      BY <3>1, <3>2 DEF RequestType, SameRequest
    <3>5. q.disturbed <=> r.disturbed \/ d
      BY <3>1 DEF RequestType
    <3> QED
      BY <3>2, <3>3, <3>4, <3>5 DEF r
  <2>4. SeenKept
    <3>1. seen' = [k \in DOMAIN seen |-> seen'[k]]
      BY <2>1
    <3> QED
      BY <1>1, <2>3, <3>1, SeenNoted
  <2>5. RoutesTypeOK'
    <3>1. 0 \in 0 .. MaxRoutes /\ last_route_mtime' \in Nat
      BY <2>1, <2>2, RoutesAssumption
    <3>2. seen' \in Seq(RequestType) /\ Len(seen') <= 1
      BY <2>4 DEF SeenKept
    <3>3. <<>> \in Seq(RouteEntry) /\ <<>> \in Seq(LoaderType) /\ Len(<<>>) <= 1
      BY None
    <3> QED
      BY <1>1, <1>2, <2>1, <3>1, <3>2, <3>3 DEF RoutesTypeOK
  <2>6. LoaderInv'
    <3>1. Shown(<<>>) = 0
      BY RoutesAssumption DEF Shown
    <3> QED
      BY <2>1, <3>1 DEF LoaderInv, Shown
  <2>7. RequestInv'
    <3>1. total_routes = 0 => loaded = <<>>
      <4>1. loaded \in Seq(RouteEntry) /\ total_routes = Shown(loaded) /\ MaxRoutes # 0
        BY <1>1, RoutesAssumption DEF RoutesTypeOK, LoaderInv
      <4>2. total_routes = 0 => Len(loaded) = 0
        BY <4>1 DEF Shown
      <4> QED
        BY <4>1, <4>2, EmptySeq
    <3>2. seen # <<>> /\ ~seen'[1].disturbed =>
            /\ total_routes <= total_routes'
            /\ \A j \in 1 .. total_routes : routes'[j] = routes[j]
            /\ loaded' = loaded /\ total_routes' = total_routes
      BY <1>2, <2>1, <2>3, <3>1
    <3>3. total_routes' \in Nat
      BY <2>1
    <3> QED
      BY <1>1, <2>4, <3>2, <3>3, RequestStays
  <2>8. FileInv'
    <3>1. Known' \in {0, last_route_mtime}
      BY <2>1 DEF Known
    <3>2. Known' <= second'
      <4>1. last_route_mtime <= second /\ second \in Nat
        BY <1>1, <1>3 DEF FileInv, RoutesTypeOK
      <4>2. 0 <= second
        BY <4>1
      <4> QED
        BY <1>2, <3>1, <4>1, <4>2
    <3> QED
      BY <1>2, <1>4, <2>1, <3>2 DEF FileInv
  <2> QED
    BY <2>5, <2>6, <2>7, <2>8 DEF RoutesInv
<1>5. CASE htroute # <<>>
  <2> DEFINE h == htroute[1]
             l == [text |-> <<>>, open |-> FALSE, next |-> 1, filled |-> FALSE,
                   mtime |-> h.mtime]
  <2>1. /\ loading' = (IF h.mtime > last_route_mtime THEN <<l>> ELSE <<>>)
        /\ UNCHANGED <<total_routes, loaded, last_route_mtime, seen, missed>>
    BY <1>5 DEF Reload
  <2>2. h.mtime \in Nat /\ last_route_mtime \in Nat
    BY <1>1, <1>5, KnownType DEF RoutesTypeOK
  <2>3. /\ l \in LoaderType /\ l.text = <<>> /\ ~l.open /\ l.next = 1 /\ ~l.filled
        /\ l.mtime = h.mtime
    BY <2>2, None DEF LoaderType
  <2> HIDE DEF l
  <2>4. <<l>> \in Seq(LoaderType) /\ Len(<<l>>) = 1 /\ <<l>>[1] = l /\ <<l>> # <<>>
    BY <2>3, OneOf
  <2>5. loading' \in Seq(LoaderType) /\ Len(loading') <= 1
        /\ (loading' # <<>> => Loader' = l)
    BY <2>1, <2>4, None DEF Loader
  <2>6. RoutesTypeOK'
    BY <1>1, <1>2, <2>1, <2>5 DEF RoutesTypeOK
  <2>7. LoaderInv'
    <3>1. Shown(<<>>) = 0
      BY RoutesAssumption DEF Shown
    <3>2. total_routes' = Shown(loaded')
      BY <1>1, <2>1 DEF LoaderInv, Shown
    <3>3. l.next <= Shown(l.text) + 1 /\ 1 .. l.next - 1 = {}
      BY <2>3, <3>1
    <3> QED
      BY <2>3, <2>5, <3>2, <3>3 DEF LoaderInv, Shown
  <2>8. RequestInv'
    BY <1>1, <1>2, <2>1, RequestSame
  <2>9. FileInv'
    <3> DEFINE m == h.mtime
               k == last_route_mtime
    <3>1. m \in Nat /\ k \in Nat /\ k <= second /\ m <= second
          /\ (~missed => k <= m /\ (k = m => loaded = h.text))
      BY <1>1, <1>2, <1>3, <1>5, <2>2 DEF FileInv
    <3> HIDE DEF m, k
    <3>2. CASE m > k
      <4>1. Known' = m /\ loading' # <<>> /\ ~Loader'.open
        BY <2>1, <2>3, <2>4, <3>2 DEF Known, Loader, m, k
      <4>2. m <= m /\ ~(m < m)
        BY <3>1
      <4> QED
        BY <1>2, <1>5, <2>1, <3>1, <4>1, <4>2 DEF FileInv, m
    <3>3. CASE ~(m > k)
      <4>1. Known' = k /\ loading' = <<>>
        BY <2>1, <3>3 DEF Known, m, k
      <4>2. ~missed => k = m /\ loaded = h.text
        BY <3>1, <3>3
      <4>3. k <= k /\ ~(k < k)
        BY <3>1
      <4> QED
        BY <1>2, <1>5, <2>1, <3>1, <4>1, <4>2, <4>3 DEF FileInv, m
    <3> QED
      BY <3>2, <3>3
  <2> QED
    BY <2>6, <2>7, <2>8, <2>9 DEF RoutesInv
<1> QED
  BY <1>4, <1>5

LEMMA OpenStep ==
  ASSUME RoutesInv, Open
  PROVE  RoutesInv'
<1>1. RoutesTypeOK /\ LoaderInv /\ RequestInv /\ FileInv
  BY DEF RoutesInv
<1>2. /\ loading # <<>> /\ ~Loader.open
      /\ UNCHANGED <<htroute, second, inotify, routes, total_routes, seen, loaded, missed>>
  BY DEF Open
<1>3. Loader \in LoaderType /\ Loader.mtime \in Nat /\ Known = Loader.mtime
  BY <1>1, <1>2, KnownType DEF LoaderType
<1>4. RequestInv'
  BY <1>1, <1>2, RequestSame
<1>5. CASE htroute = <<>>
  <2>1. loading' = <<>> /\ last_route_mtime' = Loader.mtime
    BY <1>5 DEF Open
  <2>2. RoutesTypeOK'
    BY <1>1, <1>2, <1>3, <2>1, None DEF RoutesTypeOK
  <2>3. LoaderInv'
    BY <1>1, <1>2, <2>1 DEF LoaderInv, Shown
  <2>4. FileInv'
    <3>1. Known' = Known
      BY <1>3, <2>1 DEF Known
    <3>2. missed
      BY <1>1, <1>2, <1>5 DEF FileInv
    <3> QED
      BY <1>1, <1>2, <1>5, <3>1, <3>2 DEF FileInv
  <2> QED
    BY <1>4, <2>2, <2>3, <2>4 DEF RoutesInv
<1>6. CASE htroute # <<>>
  <2> DEFINE t == htroute[1].text
             l == [Loader EXCEPT !.text = t, !.open = TRUE]
  <2>1. loading' = <<l>> /\ last_route_mtime' = last_route_mtime
    BY <1>6 DEF Open
  <2>2. t \in Seq(RouteEntry)
    BY <1>1, <1>6, KnownType
  <2>3. /\ l \in LoaderType /\ l.text = t /\ l.open /\ l.next = Loader.next
        /\ l.filled = Loader.filled /\ l.mtime = Loader.mtime
    BY <1>3, <2>2 DEF LoaderType
  <2> HIDE DEF l
  <2>4. loading' \in Seq(LoaderType) /\ Len(loading') <= 1 /\ Loader' = l /\ loading' # <<>>
    <3>1. <<l>> \in Seq(LoaderType) /\ Len(<<l>>) = 1 /\ <<l>>[1] = l /\ <<l>> # <<>>
      BY <2>3, OneOf
    <3> QED
      BY <2>1, <3>1 DEF Loader
  <2>5. RoutesTypeOK'
    BY <1>1, <1>2, <2>1, <2>4 DEF RoutesTypeOK
  <2>6. LoaderInv'
    <3>1. Loader.next = 1 /\ ~Loader.filled
      <4> DEFINE n == Loader.next
                 e == Shown(<<>>)
      <4>1. n <= e + 1 /\ (Loader.filled => n <= e) /\ n \in Nat \ {0}
        BY <1>1, <1>2, <1>3 DEF LoaderInv, LoaderType
      <4>2. e = 0
        BY RoutesAssumption DEF Shown
      <4> HIDE DEF n, e
      <4>3. n = 1 /\ ~(n <= e)
        BY <4>1, <4>2
      <4> QED
        BY <4>1, <4>3 DEF n
    <3>2. 1 <= Shown(t) + 1 /\ 1 .. 1 - 1 = {}
      BY <2>2, ShownOf
    <3>3. total_routes' = Shown(loaded')
      BY <1>1, <1>2 DEF LoaderInv, Shown
    <3> HIDE DEF t
    <3>4. /\ Loader'.next = 1 /\ ~Loader'.filled /\ Loader'.open /\ Loader'.text = t
      BY <2>3, <2>4, <3>1
    <3>5. Shown(Loader.text)' = Shown(t)
      BY <3>4 DEF Shown
    <3> QED
      BY <3>2, <3>3, <3>4, <3>5 DEF LoaderInv, Shown
  <2>7. FileInv'
    <3>1. Known' = Known /\ Loader'.text = htroute'[1].text /\ htroute' # <<>>
      BY <1>2, <1>3, <1>6, <2>3, <2>4 DEF Known, Loader
    <3> QED
      BY <1>1, <1>2, <1>6, <2>4, <3>1 DEF FileInv
  <2> QED
    BY <1>4, <2>5, <2>6, <2>7 DEF RoutesInv
<1> QED
  BY <1>5, <1>6

(* A line is loaded into the entry that the loader is at.                  *)
LEMMA AtALine ==
  ASSUME RoutesInv, loading # <<>>, More
  PROVE  /\ Loader \in LoaderType /\ loading = <<Loader>> /\ Known = Loader.mtime
         /\ Loader.next \in 1 .. Shown(Loader.text) /\ Loader.next \in 1 .. MaxRoutes
         /\ Loader.text \in Seq(RouteEntry) /\ Loader.text[Loader.next] \in RouteEntry
         /\ Loader.open
         /\ \A j \in 1 .. Loader.next - 1 : routes[j] = Loader.text[j]
<1>1. Loader \in LoaderType /\ loading = <<Loader>> /\ Known = Loader.mtime
  BY KnownType DEF RoutesInv
<1> DEFINE n == Loader.next
           t == Loader.text
<1>2. n \in Nat \ {0} /\ t \in Seq(RouteEntry) /\ n <= Len(t) /\ n <= MaxRoutes
  BY <1>1 DEF LoaderType, More
<1>3. /\ \A j \in 1 .. n - 1 : routes[j] = t[j]
      /\ ~Loader.open => t = <<>>
  BY DEF RoutesInv, LoaderInv
<1> HIDE DEF n, t
<1>4. n <= Shown(t) /\ Shown(t) \in Nat /\ Len(t) \in Nat /\ MaxRoutes \in Nat
  BY <1>2, ShownOf
<1>5. n \in 1 .. Shown(t) /\ n \in 1 .. MaxRoutes /\ t[n] \in RouteEntry
  BY <1>2, <1>4
<1>6. Loader.open
  BY <1>2, <1>3
<1> QED
  BY <1>1, <1>2, <1>3, <1>5, <1>6 DEF n, t

LEMMA LoadStep ==
  ASSUME RoutesInv, loading # <<>>, More, NEW c \in Cell, NEW l \in LoaderType,
         routes' = [routes EXCEPT ![Loader.next] = c],
         loading' = <<l>>, Disturb(routes'),
         l.text = Loader.text, l.open = Loader.open, l.mtime = Loader.mtime,
         \/ l.next = Loader.next /\ l.filled
         \/ l.next = Loader.next + 1 /\ ~l.filled /\ c = Loader.text[Loader.next],
         UNCHANGED <<htroute, second, inotify, total_routes, last_route_mtime, loaded, missed>>
  PROVE  RoutesInv'
<1>1. RoutesTypeOK /\ LoaderInv /\ RequestInv /\ FileInv
  BY DEF RoutesInv
<1> DEFINE n == Loader.next
           t == Loader.text
           k == Shown(t)
<1>2. /\ Loader \in LoaderType /\ Known = Loader.mtime /\ Loader.open
      /\ n \in 1 .. k /\ n \in 1 .. MaxRoutes /\ t \in Seq(RouteEntry)
      /\ \A j \in 1 .. n - 1 : routes[j] = t[j]
  BY AtALine
<1>3. k \in Nat /\ n \in Nat \ {0}
  BY <1>2, ShownOf
<1>4. /\ SeenKept
      /\ seen # <<>> /\ ~seen'[1].disturbed => \A j \in 1 .. total_routes : routes[j] = routes'[j]
  BY <1>1, Disturbed
<1>5. Loader' = l /\ loading' \in Seq(LoaderType) /\ Len(loading') <= 1 /\ loading' # <<>>
  <2>1. <<l>> \in Seq(LoaderType) /\ Len(<<l>>) = 1 /\ <<l>>[1] = l /\ <<l>> # <<>>
    BY OneOf
  <2> QED
    BY <2>1 DEF Loader
<1>6. RoutesTypeOK'
  <2>1. routes' \in [1 .. MaxRoutes -> Cell]
    BY <1>1 DEF RoutesTypeOK
  <2>2. seen' \in Seq(RequestType) /\ Len(seen') <= 1
    BY <1>4 DEF SeenKept
  <2> QED
    BY <1>1, <1>5, <2>1, <2>2 DEF RoutesTypeOK
<1>7. LoaderInv'
  <2>1. total_routes' = Shown(loaded')
    BY <1>1 DEF LoaderInv, Shown
  <2>2. Shown(Loader.text)' = k /\ Loader'.text = t
    BY <1>5 DEF Shown
  <2>3. routes' = [routes EXCEPT ![n] = c] /\ DOMAIN routes = 1 .. MaxRoutes
        /\ MaxRoutes \in Nat
    BY <1>1, RoutesAssumption DEF RoutesTypeOK
  <2>4. \/ l.next = n /\ l.filled
        \/ l.next = n + 1 /\ ~l.filled /\ c = t[n]
    OBVIOUS
  <2> HIDE DEF n, t, k
  <2>5. l.next <= k + 1 /\ (l.filled => l.next <= k)
    BY <1>2, <1>3, <2>4
  <2>6. \A j \in 1 .. n - 1 : routes'[j] = t[j]
    BY <1>2, <1>3, <2>3
  <2>7. \A j \in 1 .. l.next - 1 : routes'[j] = t[j]
    <3>1. CASE l.next = n
      BY <2>6, <3>1
    <3>2. CASE l.next = n + 1 /\ c = t[n]
      <4>1. routes'[n] = t[n]
        BY <1>2, <2>3, <3>2
      <4>2. \A j \in 1 .. n : j \in 1 .. n - 1 \/ j = n
        BY <1>3
      <4>3. l.next - 1 = n
        BY <1>3, <3>2
      <4> QED
        BY <2>6, <4>1, <4>2, <4>3
    <3> QED
      BY <2>4, <3>1, <3>2
  <2>8. Loader'.open
    BY <1>2, <1>5
  <2> QED
    BY <1>5, <2>1, <2>2, <2>5, <2>7, <2>8 DEF LoaderInv
<1>8. RequestInv'
  <2>1. total_routes \in Nat /\ total_routes' = total_routes /\ loaded' = loaded
    BY <1>1 DEF RoutesTypeOK
  <2>2. seen # <<>> /\ ~seen'[1].disturbed =>
          /\ total_routes <= total_routes'
          /\ \A j \in 1 .. total_routes : routes'[j] = routes[j]
          /\ loaded' = loaded /\ total_routes' = total_routes
    BY <1>4, <2>1
  <2> QED
    BY <1>1, <1>4, <2>1, <2>2, RequestStays
<1>9. FileInv'
  <2>1. Known' = Known
    BY <1>2, <1>5 DEF Known, Loader
  <2> QED
    BY <1>1, <1>5, <2>1 DEF FileInv
<1> QED
  BY <1>6, <1>7, <1>8, <1>9 DEF RoutesInv

LEMMA LoadRouteStep ==
  ASSUME RoutesInv, LoadRoute
  PROVE  RoutesInv'
<1> DEFINE r == Loader.text[Loader.next]
           c == [r EXCEPT !.vars = FALSE]
           l == [Loader EXCEPT !.filled = TRUE]
<1>1. /\ loading # <<>> /\ More /\ routes' = [routes EXCEPT ![Loader.next] = c]
      /\ loading' = <<l>> /\ Disturb(routes')
      /\ UNCHANGED <<htroute, second, inotify, total_routes, last_route_mtime, loaded, missed>>
  BY DEF LoadRoute
<1>2. Loader \in LoaderType /\ r \in RouteEntry
  BY <1>1, AtALine
<1>3. c \in Cell
  BY <1>2 DEF RouteEntry, Cell
<1>4. /\ l \in LoaderType /\ l.text = Loader.text /\ l.open = Loader.open /\ l.mtime = Loader.mtime
      /\ l.next = Loader.next /\ l.filled
  BY <1>2 DEF LoaderType
<1> HIDE DEF r, c, l
<1> QED
  BY <1>1, <1>3, <1>4, LoadStep

LEMMA LoadVarsStep ==
  ASSUME RoutesInv, LoadVars
  PROVE  RoutesInv'
<1> DEFINE c == Loader.text[Loader.next]
           n == Loader.next + 1
           l == [Loader EXCEPT !.filled = FALSE, !.next = n]
<1>1. /\ loading # <<>> /\ More /\ routes' = [routes EXCEPT ![Loader.next] = c]
      /\ loading' = <<l>> /\ Disturb(routes')
      /\ UNCHANGED <<htroute, second, inotify, total_routes, last_route_mtime, loaded, missed>>
  BY DEF LoadVars
<1>2. Loader \in LoaderType /\ c \in RouteEntry
  BY <1>1, AtALine
<1>3. c \in Cell
  BY <1>2 DEF RouteEntry, Cell
<1>4. /\ l \in LoaderType /\ l.text = Loader.text /\ l.open = Loader.open /\ l.mtime = Loader.mtime
      /\ l.next = Loader.next + 1 /\ ~l.filled
  <2>1. n \in Nat \ {0} /\ n = Loader.next + 1
    BY <1>2 DEF LoaderType
  <2> HIDE DEF n
  <2>2. /\ l \in LoaderType /\ l.text = Loader.text /\ l.open = Loader.open
        /\ l.mtime = Loader.mtime /\ l.next = n /\ ~l.filled
    BY <1>2, <2>1 DEF LoaderType
  <2> QED
    BY <2>1, <2>2
<1>5. c = Loader.text[Loader.next]
  OBVIOUS
<1> HIDE DEF c, l
<1> QED
  BY <1>1, <1>3, <1>4, <1>5, LoadStep

LEMMA StoreTotalStep ==
  ASSUME RoutesInv, StoreTotal
  PROVE  RoutesInv'
<1>1. RoutesTypeOK /\ LoaderInv /\ RequestInv /\ FileInv
  BY DEF RoutesInv
<1> DEFINE n == Loader.next
           t == Loader.text
           k == Shown(t)
           fewer == total_routes' < total_routes
           Noted(r) == [r EXCEPT !.disturbed = r.disturbed \/ fewer, !.texts = r.texts \cup {t}]
<1>2. /\ loading # <<>> /\ Loader.open /\ ~More
      /\ total_routes' = n - 1 /\ loaded' = t /\ last_route_mtime' = Loader.mtime
      /\ loading' = <<>>
      /\ seen' = [i \in DOMAIN seen |-> Noted(seen[i])]
      /\ UNCHANGED <<htroute, second, inotify, routes, missed>>
  BY DEF StoreTotal
<1>3. /\ Loader \in LoaderType /\ Known = Loader.mtime /\ Loader.mtime \in Nat
      /\ n \in Nat \ {0} /\ t \in Seq(RouteEntry) /\ n <= k + 1
      /\ \A j \in 1 .. n - 1 : routes[j] = t[j]
  BY <1>1, <1>2, KnownType DEF LoaderType, LoaderInv
<1>4. k \in 0 .. MaxRoutes /\ MaxRoutes \in Nat /\ (n <= Len(t) /\ n <= MaxRoutes <=> n <= k)
  BY <1>3, ShownOf
<1>5. n - 1 = k /\ total_routes' = k
  <2>1. ~(n <= k)
    BY <1>2, <1>4 DEF More
  <2> HIDE DEF n, t, k
  <2>2. n - 1 = k
    BY <1>3, <1>4, <2>1
  <2> QED
    BY <1>2, <2>2
<1> HIDE DEF n, t, k, fewer, Noted
<1>6. ASSUME seen # <<>>
      PROVE  /\ seen'[1] \in RequestType /\ SameRequest(seen[1], seen'[1])
             /\ ~seen'[1].disturbed => ~seen[1].disturbed /\ ~fewer
             /\ t \in seen'[1].texts
  <2> DEFINE r == seen[1]
             q == Noted(r)
  <2>1. 1 \in DOMAIN seen /\ r \in RequestType
    BY <1>1, <1>6, Single DEF RoutesTypeOK
  <2>2. seen'[1] = q /\ fewer \in BOOLEAN
    BY <1>2, <2>1 DEF fewer
  <2> HIDE DEF r
  <2>3. r.texts \cup {t} \in SUBSET Seq(RouteEntry)
    BY <1>3, <2>1 DEF RequestType
  <2>4. q \in RequestType /\ SameRequest(r, q) /\ t \in q.texts
    BY <2>1, <2>2, <2>3 DEF RequestType, SameRequest, Noted
  <2>5. q.disturbed <=> r.disturbed \/ fewer
    BY <2>1 DEF RequestType, Noted
  <2> QED
    BY <2>2, <2>4, <2>5 DEF r
<1>7. SeenKept
  <2>1. seen' = [i \in DOMAIN seen |-> seen'[i]]
    BY <1>2
  <2> QED
    BY <1>1, <1>6, <2>1, SeenNoted
<1>8. RoutesTypeOK'
  <2>1. seen' \in Seq(RequestType) /\ Len(seen') <= 1
    BY <1>7 DEF SeenKept
  <2>2. <<>> \in Seq(LoaderType) /\ Len(<<>>) <= 1
    BY None
  <2> QED
    BY <1>1, <1>2, <1>3, <1>4, <1>5, <2>1, <2>2 DEF RoutesTypeOK
<1>9. LoaderInv'
  BY <1>2, <1>5 DEF LoaderInv, Shown, k
<1>10. RequestInv'
  <2>1. Agrees'
    BY <1>2, <1>3, <1>5 DEF Agrees
  <2>2. total_routes' \in Nat /\ total_routes \in Nat
    BY <1>1, <1>4, <1>5 DEF RoutesTypeOK
  <2>3. ASSUME seen # <<>>, ~seen'[1].disturbed
        PROVE  /\ total_routes <= total_routes'
               /\ \A j \in 1 .. total_routes : routes'[j] = routes[j]
               /\ loaded' \in seen'[1].texts /\ Agrees'
    <3>1. total_routes <= total_routes'
      BY <1>6, <2>2, <2>3 DEF fewer
    <3> QED
      BY <1>2, <1>6, <2>1, <2>3, <3>1
  <2> QED
    BY <1>1, <1>7, <2>2, <2>3, RequestStays
<1>11. FileInv'
  <2>1. Known' = Known
    BY <1>2, <1>3 DEF Known
  <2> QED
    BY <1>1, <1>2, <2>1 DEF FileInv, t
<1> QED
  BY <1>8, <1>9, <1>10, <1>11 DEF RoutesInv

(* A worker changes nothing but its request. *)
LEMMA WorkerKeeps ==
  ASSUME RoutesInv, seen' \in Seq(RequestType), Len(seen') <= 1, RequestInv',
         UNCHANGED <<htroute, second, inotify, routes, total_routes, last_route_mtime, loading,
                     loaded, missed>>
  PROVE  RoutesInv'
<1>1. RoutesTypeOK /\ LoaderInv /\ FileInv
  BY DEF RoutesInv
<1>2. RoutesTypeOK'
  BY <1>1 DEF RoutesTypeOK
<1>3. LoaderInv' /\ FileInv'
  BY <1>1, LoaderSame, FileSame
<1> QED
  BY <1>2, <1>3 DEF RoutesInv

LEMMA ReceiveStep ==
  ASSUME RoutesInv, Receive
  PROVE  RoutesInv'
<1> DEFINE changed == \E i \in DOMAIN loaded \cap DOMAIN routes : routes[i] # loaded[i]
<1>1. PICK u \in Uri :
        seen' = <<[uri |-> u, i |-> 0, best |-> 0, max_len |-> 0, answer |-> <<>>,
                   texts |-> {loaded}, disturbed |-> changed]>>
  BY DEF Receive
<1> DEFINE q == [uri |-> u, i |-> 0, best |-> 0, max_len |-> 0, answer |-> <<>>,
                 texts |-> {loaded}, disturbed |-> changed]
<1>2. loaded \in Seq(RouteEntry) /\ u \in Seq(Segment) /\ total_routes = Shown(loaded)
      /\ routes \in [1 .. MaxRoutes -> Cell]
  BY RoutesAssumption DEF RoutesInv, RoutesTypeOK, LoaderInv
<1>3. ~changed => Agrees
  <2> SUFFICES ASSUME ~changed, NEW j \in 1 .. total_routes
               PROVE  routes[j] = loaded[j]
    BY DEF Agrees
  <2>1. j \in DOMAIN loaded /\ j \in DOMAIN routes
    BY <1>2, ShownOf
  <2> QED
    BY <2>1
<1>4. changed \in BOOLEAN
  OBVIOUS
<1> HIDE DEF changed
<1>5. /\ q \in RequestType /\ q.i = 0 /\ q.texts = {loaded}
      /\ q.best = 0 /\ q.max_len = 0 /\ (q.disturbed <=> changed)
  <2>1. <<>> \in Seq([target : Target \cup {""}, rest : Int, vars : BOOLEAN])
    BY None
  <2>2. {loaded} \in SUBSET Seq(RouteEntry) /\ 0 \in Nat /\ 0 \in 0 .. MaxRoutes
    BY <1>2, RoutesAssumption
  <2> QED
    BY <1>2, <1>4, <2>1, <2>2 DEF RequestType
<1> HIDE DEF q
<1>6. seen' = <<q>> /\ seen'[1] = q /\ seen' \in Seq(RequestType) /\ Len(seen') = 1
  <2>1. <<q>> \in Seq(RequestType) /\ Len(<<q>>) = 1 /\ <<q>>[1] = q
    BY <1>5, OneOf
  <2> QED
    BY <1>1, <2>1 DEF q
<1>7. Len(seen') <= 1
  BY <1>6
<1>8. UNCHANGED <<htroute, second, inotify, routes, total_routes, last_route_mtime, loading,
                  loaded, missed>>
  BY DEF Receive
<1>9. RequestInv'
  <2>1. Agrees' <=> Agrees
    BY <1>8 DEF Agrees
  <2>2. BestOf(routes, 0, q.uri, 0, 0)
    BY DEF BestOf
  <2>3. 0 >= 0 /\ 0 <= total_routes
    BY <1>2, ShownOf
  <2>4. loaded' \in q.texts
    BY <1>5, <1>8
  <2> QED
    BY <1>3, <1>5, <1>6, <1>8, <2>1, <2>2, <2>3, <2>4 DEF RequestInv, Request
<1> QED
  BY <1>6, <1>7, <1>8, <1>9, WorkerKeeps

(* One more route is looked at. *)
LEMMA BestMore ==
  ASSUME NEW t, NEW n \in Nat, NEW uri, NEW best, NEW max_len \in Nat,
         \A j \in 1 .. n + 1 : Len(t[j].source) \in Nat,
         BestOf(t, n, uri, best, max_len)
  PROVE  IF IsPrefix(t[n + 1].source, uri) /\ Better(t[n + 1].source, max_len)
           THEN BestOf(t, n + 1, uri, n + 1, Len(t[n + 1].source))
           ELSE BestOf(t, n + 1, uri, best, max_len)
<1> DEFINE m == n + 1
           s == t[m].source
           len(j) == Len(t[j].source)
<1>1. m \in Nat \ {0} /\ m = n + 1 /\ \A j \in 1 .. m : j \in 1 .. n \/ j = m
  OBVIOUS
<1>2. \A j \in 1 .. n : j \in 1 .. m /\ j < m
  OBVIOUS
<1>3. \A j \in 1 .. m : len(j) \in Nat /\ (Matches(t[j], uri) => len(j) > 0)
  BY DEF Matches
<1>4. m \in 1 .. m /\ ~(m < m)
  OBVIOUS
<1>5. \A j \in 1 .. n : Matches(t[j], uri) => len(j) <= max_len
  BY DEF BestOf
<1>6. CASE IsPrefix(s, uri) /\ len(m) > max_len
  <2>1. len(m) > 0
    <3> DEFINE l == len(m)
    <3>1. l \in Nat /\ l > max_len
      BY <1>3, <1>4, <1>6
    <3> HIDE DEF l
    <3>2. l > 0
      BY <3>1
    <3> QED
      BY <3>2 DEF l
  <2>2. Matches(t[m], uri)
    BY <1>6, <2>1 DEF Matches
  <2>3. \A j \in 1 .. n : Matches(t[j], uri) => len(j) < len(m) /\ len(j) <= len(m)
    <3> TAKE j \in 1 .. n
    <3> HAVE Matches(t[j], uri)
    <3> DEFINE l == len(m)
               x == len(j)
    <3>1. l \in Nat /\ l > max_len /\ x \in Nat /\ x <= max_len
      BY <1>2, <1>3, <1>4, <1>5, <1>6
    <3> HIDE DEF l, x
    <3>2. x < l /\ x <= l
      BY <3>1
    <3> QED
      BY <3>2 DEF l, x
  <2>4. len(m) <= len(m)
    BY <1>3, <1>4
  <2> HIDE DEF m
  <2>5. \A j \in 1 .. m : Matches(t[j], uri) => len(j) <= len(m) /\ (j < m => len(j) < len(m))
    BY <1>1, <1>4, <2>3, <2>4
  <2>6. BestOf(t, m, uri, m, len(m))
    BY <1>4, <2>2, <2>5 DEF BestOf
  <2> QED
    BY <1>6, <2>6 DEF Better, m
<1>7. CASE ~(IsPrefix(s, uri) /\ len(m) > max_len)
  <2>1. Matches(t[m], uri) => len(m) <= max_len
    BY <1>3, <1>4, <1>7 DEF Matches
  <2>2. CASE best = 0 /\ max_len = 0 /\ \A j \in 1 .. n : ~Matches(t[j], uri)
    <3>1. ~Matches(t[m], uri)
      <4> DEFINE l == len(m)
      <4>1. l \in Nat /\ (Matches(t[m], uri) => l <= 0 /\ l > 0)
        BY <1>3, <1>4, <2>1, <2>2
      <4> HIDE DEF l
      <4> QED
        BY <4>1
    <3> HIDE DEF m
    <3>2. \A j \in 1 .. m : ~Matches(t[j], uri)
      BY <1>1, <2>2, <3>1
    <3>3. BestOf(t, m, uri, best, max_len)
      BY <2>2, <3>2 DEF BestOf
    <3> QED
      BY <1>7, <3>3 DEF Better, m
  <2>3. CASE /\ best \in 1 .. n /\ Matches(t[best], uri) /\ max_len = len(best)
             /\ \A j \in 1 .. n : Matches(t[j], uri) =>
                  len(j) <= max_len /\ (j < best => len(j) < max_len)
    <3>1. best \in 1 .. m /\ ~(m < best)
      BY <1>1, <2>3
    <3> HIDE DEF m
    <3>2. \A j \in 1 .. m : Matches(t[j], uri) => len(j) <= max_len /\ (j < best => len(j) < max_len)
      BY <1>1, <2>1, <2>3, <3>1
    <3>3. BestOf(t, m, uri, best, max_len)
      BY <2>3, <3>1, <3>2 DEF BestOf
    <3> QED
      BY <1>7, <3>3 DEF Better, m
  <2> QED
    BY <2>2, <2>3 DEF BestOf
<1> QED
  BY <1>6, <1>7

LEMMA RequestAt ==
  ASSUME RoutesInv, seen # <<>>
  PROVE  /\ Request \in RequestType /\ seen = <<Request>>
         /\ total_routes \in 0 .. MaxRoutes /\ MaxRoutes \in Nat
         /\ routes \in [1 .. MaxRoutes -> Cell]
         /\ \A j \in 1 .. MaxRoutes : Len(routes[j].source) \in Nat
<1>1. seen \in Seq(RequestType) /\ Len(seen) <= 1 /\ total_routes \in 0 .. MaxRoutes
      /\ routes \in [1 .. MaxRoutes -> Cell]
  BY DEF RoutesInv, RoutesTypeOK
<1>2. seen[1] \in RequestType /\ seen = <<seen[1]>>
  BY <1>1, Single
<1>3. \A j \in 1 .. MaxRoutes : Len(routes[j].source) \in Nat
  <2> TAKE j \in 1 .. MaxRoutes
  <2>1. routes[j].source \in Seq(Segment)
    BY <1>1 DEF Cell
  <2> QED
    BY <2>1
<1> QED
  BY <1>1, <1>2, <1>3, RoutesAssumption DEF Request

LEMMA MatchStep ==
  ASSUME RoutesInv, Match
  PROVE  RoutesInv'
<1> DEFINE r == Request
           n == r.i
           s == routes[n + 1].source
           won == IsPrefix(s, r.uri) /\ Better(s, r.max_len)
           q == IF won THEN [r EXCEPT !.i = n + 1, !.best = n + 1, !.max_len = Len(s)]
                ELSE [r EXCEPT !.i = n + 1]
<1>1. /\ seen # <<>> /\ n >= 0 /\ n < total_routes /\ seen' = <<q>>
      /\ UNCHANGED <<htroute, second, inotify, routes, total_routes, last_route_mtime, loading,
                     loaded, missed>>
  BY DEF Match
<1>2. /\ r \in RequestType /\ total_routes \in 0 .. MaxRoutes /\ MaxRoutes \in Nat
      /\ \A j \in 1 .. MaxRoutes : Len(routes[j].source) \in Nat
  BY <1>1, RequestAt
<1>3. n \in Nat /\ n + 1 \in Nat /\ n + 1 \in 1 .. MaxRoutes /\ n + 1 <= total_routes
  <2>1. n \in Nat \cup {-1} /\ n >= 0 /\ n < total_routes
    BY <1>1, <1>2 DEF RequestType
  <2> HIDE DEF n
  <2> QED
    BY <1>2, <2>1
<1> DEFINE m == n + 1
           l == Len(s)
<1>4. l \in Nat /\ m \in Nat /\ m \in 0 .. MaxRoutes /\ q = (IF won THEN [r EXCEPT !.i = m, !.best = m, !.max_len = l]
                                     ELSE [r EXCEPT !.i = m])
  BY <1>2, <1>3
<1> HIDE DEF q, m, l, r, won
<1>5. /\ q \in RequestType /\ q.i = m /\ q.uri = r.uri /\ q.texts = r.texts
      /\ q.disturbed = r.disturbed
      /\ q.best = (IF won THEN m ELSE r.best) /\ q.max_len = (IF won THEN l ELSE r.max_len)
  <2>1. CASE won
    BY <1>2, <1>4, <2>1 DEF RequestType
  <2>2. CASE ~won
    BY <1>2, <1>4, <2>2 DEF RequestType
  <2> QED
    BY <2>1, <2>2
<1>6. seen' \in Seq(RequestType) /\ Len(seen') = 1 /\ seen'[1] = q
  <2>1. <<q>> \in Seq(RequestType) /\ Len(<<q>>) = 1 /\ <<q>>[1] = q
    BY <1>5, OneOf
  <2> QED
    BY <1>1, <2>1
<1>7. Len(seen') <= 1
  BY <1>6
<1>8. RequestInv'
  <2> SUFFICES ASSUME ~q.disturbed
               PROVE  /\ loaded \in q.texts /\ m <= total_routes /\ Agrees
                      /\ BestOf(routes, m, q.uri, q.best, q.max_len)
    <3>1. m >= 0 /\ q.i = m
      BY <1>4, <1>5
    <3>2. Agrees' <=> Agrees
      BY <1>1 DEF Agrees
    <3> QED
      BY <1>1, <1>6, <3>1, <3>2 DEF RequestInv, Request
  <2>1. /\ loaded \in r.texts /\ Agrees /\ BestOf(routes, n, r.uri, r.best, r.max_len)
    BY <1>1, <1>5 DEF RoutesInv, RequestInv, r
  <2>2. m <= total_routes
    BY <1>3 DEF m
  <2>3. IF won THEN BestOf(routes, m, r.uri, m, l) ELSE BestOf(routes, m, r.uri, r.best, r.max_len)
    <3> DEFINE k == n
    <3>1. \A j \in 1 .. k + 1 : Len(routes[j].source) \in Nat
      <4>1. k \in Nat /\ k + 1 <= MaxRoutes
        BY <1>3
      <4> HIDE DEF k
      <4>2. \A j \in 1 .. k + 1 : j \in 1 .. MaxRoutes
        BY <1>2, <4>1
      <4> QED
        BY <1>2, <4>2
    <3>2. r.max_len \in Nat
      BY <1>2 DEF RequestType
    <3>3. k \in Nat /\ BestOf(routes, k, r.uri, r.best, r.max_len)
      BY <1>3, <2>1
    <3> HIDE DEF k
    <3>4. IF IsPrefix(routes[k + 1].source, r.uri) /\ Better(routes[k + 1].source, r.max_len)
            THEN BestOf(routes, k + 1, r.uri, k + 1, Len(routes[k + 1].source))
            ELSE BestOf(routes, k + 1, r.uri, r.best, r.max_len)
      BY <3>1, <3>2, <3>3, BestMore
    <3> QED
      BY <3>4 DEF k, m, l, won
  <2> QED
    BY <1>5, <2>1, <2>2, <2>3
<1> QED
  BY <1>1, <1>6, <1>7, <1>8, WorkerKeeps

(* What the search has found in all the routes of a text is what the text  *)
(* says.                                                                   *)
LEMMA BestRoutes ==
  ASSUME NEW text \in Seq(RouteEntry), NEW uri \in Seq(Segment), NEW best, NEW max_len,
         NEW t, \A j \in 1 .. Shown(text) : t[j] = text[j],
         BestOf(t, Shown(text), uri, best, max_len)
  PROVE  (IF best = 0 THEN <<>> ELSE <<Applied(t[best], uri)>>) \in Routing(text, uri)
<1> DEFINE n == Shown(text)
           match == {i \in DOMAIN text : i <= MaxRoutes /\ IsPrefix(text[i].source, uri)
                                           /\ text[i].source # <<>>}
           longest == {i \in match : \A j \in match : Len(text[j].source) <= Len(text[i].source)}
           first == {i \in longest : \A j \in longest : i <= j}
<1>1. Routing(text, uri) = {<<Applied(text[i], uri)>> : i \in first}
                             \cup {<<>> : x \in {x \in {0} : match = {}}}
  BY DEF Routing
<1>2. n \in Nat /\ n <= Len(text) /\ n <= MaxRoutes /\ DOMAIN text = 1 .. Len(text)
      /\ Len(text) \in Nat /\ MaxRoutes \in Nat
      /\ \A j \in Nat \ {0} : j <= Len(text) /\ j <= MaxRoutes <=> j <= n
  BY ShownOf
<1>3. \A j \in DOMAIN text : text[j].source \in Seq(Segment)
  <2> TAKE j \in DOMAIN text
  <2>1. text[j] \in RouteEntry
    OBVIOUS
  <2> QED
    BY <2>1 DEF RouteEntry
<1>4. \A j \in DOMAIN text : text[j].source # <<>> <=> Len(text[j].source) > 0
  <2> TAKE j \in DOMAIN text
  <2> DEFINE s == text[j].source
  <2>1. s \in Seq(Segment)
    BY <1>3
  <2> HIDE DEF s
  <2>2. Len(s) \in Nat /\ (s = <<>> <=> Len(s) = 0)
    BY <2>1, EmptySeq
  <2>3. s # <<>> <=> Len(s) > 0
    BY <2>2
  <2> QED
    BY <2>3 DEF s
<1>5. match = {i \in 1 .. n : Matches(text[i], uri)}
  <2>1. \A i : i \in DOMAIN text /\ i <= MaxRoutes <=> i \in 1 .. n
    <3> HIDE DEF n
    <3> QED
      BY <1>2
  <2> QED
    BY <1>4, <2>1 DEF Matches
<1>6. BestOf(text, n, uri, best, max_len)
  BY <1>2, BestSame
<1> HIDE DEF match
<1>7. CASE best = 0
  <2>1. ~(0 \in 1 .. n)
    BY <1>2
  <2>2. \A j \in 1 .. n : ~Matches(text[j], uri)
    BY <1>6, <1>7, <2>1 DEF BestOf
  <2>3. match = {}
    BY <1>5, <2>2
  <2> QED
    BY <1>1, <1>7, <2>3
<1>8. CASE best # 0
  <2>1. /\ best \in 1 .. n /\ Matches(text[best], uri) /\ max_len = Len(text[best].source)
        /\ \A j \in 1 .. n : Matches(text[j], uri) =>
             /\ Len(text[j].source) <= max_len
             /\ j < best => Len(text[j].source) < max_len
    BY <1>6, <1>8 DEF BestOf
  <2>2. best \in match
    BY <1>5, <2>1
  <2>3. best \in longest
    BY <1>5, <2>1, <2>2
  <2>4. ASSUME NEW j \in longest PROVE best <= j
    <3>1. j \in 1 .. n /\ Matches(text[j], uri) /\ Len(text[best].source) <= Len(text[j].source)
      BY <1>5, <2>2, <2>4
    <3> DEFINE a == Len(text[best].source)
               b == Len(text[j].source)
    <3>2. a \in Nat /\ b \in Nat
      <4>1. best \in DOMAIN text /\ j \in DOMAIN text
        BY <1>2, <2>1, <3>1
      <4>2. text[best].source \in Seq(Segment) /\ text[j].source \in Seq(Segment)
        BY <1>3, <4>1
      <4> QED
        BY <4>2
    <3>3. a <= b /\ (j < best => b < a)
      BY <2>1, <3>1
    <3> HIDE DEF a, b
    <3>4. ~(j < best)
      BY <3>2, <3>3
    <3> QED
      BY <1>2, <2>1, <3>1, <3>4
  <2>5. best \in first
    BY <2>3, <2>4
  <2>6. t[best] = text[best]
    BY <2>1
  <2> HIDE DEF first
  <2> QED
    BY <1>1, <1>8, <2>5, <2>6
<1> QED
  BY <1>7, <1>8

LEMMA ApplyStep ==
  ASSUME RoutesInv, Apply
  PROVE  RoutesInv'
<1> DEFINE r == Request
           c == routes[r.best]
           a == IF r.best = 0 THEN <<>> ELSE <<Applied(c, r.uri)>>
           q == [r EXCEPT !.i = -1, !.answer = a]
<1>1. /\ seen # <<>> /\ r.i >= total_routes /\ seen' = <<q>>
      /\ UNCHANGED <<htroute, second, inotify, routes, total_routes, last_route_mtime, loading,
                     loaded, missed>>
  BY DEF Apply
<1>2. /\ r \in RequestType /\ total_routes \in 0 .. MaxRoutes
      /\ routes \in [1 .. MaxRoutes -> Cell]
  BY <1>1, RequestAt
<1>3. ASSUME ~r.disturbed
      PROVE  /\ loaded \in r.texts /\ r.i = total_routes /\ Agrees
             /\ BestOf(routes, r.i, r.uri, r.best, r.max_len)
  <2> DEFINE i == r.i
             n == total_routes
  <2>1. i \in Nat \cup {-1} /\ i >= n /\ n \in Nat
    <3>1. i \in Nat \cup {-1}
      BY <1>2 DEF RequestType
    <3>2. i >= n /\ n \in Nat
      BY <1>1, <1>2
    <3> QED
      BY <3>1, <3>2
  <2> HIDE DEF i, n
  <2>2. i >= 0
    BY <2>1
  <2>3. /\ loaded \in r.texts /\ i <= n /\ Agrees
        /\ BestOf(routes, i, r.uri, r.best, r.max_len)
    BY <1>1, <1>3, <2>2 DEF RoutesInv, RequestInv, r, i, n
  <2>4. i = n
    BY <2>1, <2>2, <2>3
  <2> QED
    BY <2>3, <2>4 DEF i, n
<1>4. ASSUME ~r.disturbed
      PROVE  a \in Routing(loaded, r.uri)
  <2>1. loaded \in Seq(RouteEntry) /\ total_routes = Shown(loaded)
    BY DEF RoutesInv, RoutesTypeOK, LoaderInv
  <2>2. r.uri \in Seq(Segment)
    BY <1>2 DEF RequestType
  <2>3. \A j \in 1 .. Shown(loaded) : routes[j] = loaded[j]
    BY <1>3, <1>4, <2>1 DEF Agrees
  <2>4. BestOf(routes, Shown(loaded), r.uri, r.best, r.max_len)
    BY <1>3, <1>4, <2>1
  <2> QED
    BY <2>1, <2>2, <2>3, <2>4, BestRoutes
<1> DEFINE A == [target : Target \cup {""}, rest : Int, vars : BOOLEAN]
<1>5. a \in Seq(A)
  <2>1. CASE r.best = 0
    BY <2>1, None
  <2>2. CASE r.best # 0
    <3>1. r.best \in 1 .. MaxRoutes /\ r.uri \in Seq(Segment)
      <4>1. r.best \in 0 .. MaxRoutes /\ r.uri \in Seq(Segment)
        BY <1>2 DEF RequestType
      <4> HIDE DEF r
      <4> QED
        BY <2>2, <4>1, RoutesAssumption
    <3>2. c \in Cell
      BY <1>2, <3>1
    <3> HIDE DEF c
    <3>3. c.target \in Target \cup {""} /\ c.vars \in BOOLEAN /\ c.source \in Seq(Segment)
      BY <3>2 DEF Cell
    <3>4. Len(r.uri) - Len(c.source) \in Int
      <4> DEFINE x == r.uri
                 y == c.source
      <4>1. x \in Seq(Segment) /\ y \in Seq(Segment)
        BY <3>1, <3>3
      <4> HIDE DEF x, y
      <4>2. Len(x) \in Int /\ Len(y) \in Int
        BY <4>1
      <4> QED
        BY <4>2 DEF x, y
    <3>5. Applied(c, r.uri) \in A
      BY <3>3, <3>4 DEF Applied
    <3> HIDE DEF A
    <3>6. <<Applied(c, r.uri)>> \in Seq(A)
      BY <3>5, OneOf
    <3> QED
      BY <2>2, <3>6
  <2> QED
    BY <2>1, <2>2
<1> HIDE DEF r, a
<1>6. /\ q \in RequestType /\ q.i = -1 /\ q.uri = r.uri /\ q.texts = r.texts
      /\ q.disturbed = r.disturbed /\ q.answer = a
  BY <1>2, <1>5 DEF RequestType
<1> HIDE DEF q
<1>7. seen' \in Seq(RequestType) /\ Len(seen') = 1 /\ seen'[1] = q
  <2>1. <<q>> \in Seq(RequestType) /\ Len(<<q>>) = 1 /\ <<q>>[1] = q
    BY <1>6, OneOf
  <2> QED
    BY <1>1, <2>1
<1>8. Len(seen') <= 1
  BY <1>7
<1>9. RequestInv'
  <2> SUFFICES ASSUME ~q.disturbed
               PROVE  \E text \in q.texts : q.answer \in Routing(text, q.uri)
    <3>1. ~(q.i >= 0)
      BY <1>6
    <3> QED
      BY <1>7, <3>1 DEF RequestInv, Request
  <2>1. loaded \in q.texts /\ q.answer \in Routing(loaded, q.uri)
    BY <1>3, <1>4, <1>6
  <2> QED
    BY <2>1
<1> QED
  BY <1>1, <1>7, <1>8, <1>9, WorkerKeeps

LEMMA ServeStep ==
  ASSUME RoutesInv, Serve
  PROVE  RoutesInv'
<1>1. /\ seen' = <<>>
      /\ UNCHANGED <<htroute, second, inotify, routes, total_routes, last_route_mtime, loading,
                     loaded, missed>>
  BY DEF Serve
<1>2. seen' \in Seq(RequestType) /\ Len(seen') <= 1
  BY <1>1, None
<1>3. RequestInv'
  BY <1>1 DEF RequestInv
<1> QED
  BY <1>1, <1>2, <1>3, WorkerKeeps

LEMMA RoutesStep == RoutesInv /\ [RoutesNext]_routeVars => RoutesInv'
<1> SUFFICES ASSUME RoutesInv, [RoutesNext]_routeVars
             PROVE  RoutesInv'
  OBVIOUS
<1>1. CASE NextSecond \/ Edit \/ Delete
  BY <1>1, NextSecondStep, EditStep, DeleteStep
<1>2. CASE Reload \/ Open \/ LoadRoute \/ LoadVars \/ StoreTotal
  BY <1>2, ReloadStep, OpenStep, LoadRouteStep, LoadVarsStep, StoreTotalStep
<1>3. CASE Receive \/ Match \/ Apply \/ Serve
  BY <1>3, ReceiveStep, MatchStep, ApplyStep, ServeStep
<1>4. CASE UNCHANGED routeVars
  <2>1. UNCHANGED <<htroute, second, inotify, routes, total_routes, last_route_mtime, loading,
                    loaded, missed, seen>>
    BY <1>4 DEF routeVars
  <2>2. RoutesTypeOK /\ RequestInv
    BY DEF RoutesInv
  <2>3. RequestInv' /\ seen' \in Seq(RequestType) /\ Len(seen') <= 1
    BY <2>1, <2>2, RequestSame DEF RoutesTypeOK
  <2> QED
    BY <2>1, <2>3, WorkerKeeps
<1> QED
  BY <1>1, <1>2, <1>3, <1>4 DEF RoutesNext

LEMMA RoutesStart == RoutesInit => RoutesInv
<1> SUFFICES ASSUME RoutesInit PROVE RoutesInv
  OBVIOUS
<1>1. Blank \in Cell
  BY None DEF Blank, Cell
<1>2. RoutesTypeOK
  <2>1. MaxRoutes \in Nat /\ 0 \in 0 .. MaxRoutes /\ 0 \in Nat /\ 1 \in Nat \ {0}
    BY RoutesAssumption
  <2>2. /\ <<>> \in Seq([text : File, mtime : Nat]) /\ <<>> \in Seq(LoaderType)
        /\ <<>> \in Seq(RequestType) /\ <<>> \in Seq(RouteEntry) /\ Len(<<>>) <= 1
    BY None
  <2> QED
    BY <1>1, <2>1, <2>2 DEF RoutesInit, RoutesTypeOK
<1>3. LoaderInv
  <2>1. Shown(<<>>) = 0
    BY RoutesAssumption DEF Shown
  <2> QED
    BY <2>1 DEF RoutesInit, LoaderInv
<1>4. RequestInv /\ FileInv
  <2>1. Known = 0 /\ second = 1 /\ 0 <= 1
    BY DEF RoutesInit, Known
  <2> QED
    BY <2>1 DEF RoutesInit, RequestInv, FileInv
<1> QED
  BY <1>2, <1>3, <1>4 DEF RoutesInv

(* http_route_match and http_route_apply_logic answer as one text of       *)
(* .htroute says unless a reload replaced a route they may read, and       *)
(* http_vhost_reload_routes leaves the routes of the file: for all texts,  *)
(* any number of routes and every order of the loader, the administrator   *)
(* and the worker.                                                         *)
THEOREM RoutesCorrect == RoutesSpec => []RoutesKept
<1>1. RoutesInv => RoutesKept
  <2> SUFFICES ASSUME RoutesInv PROVE RoutedByOneText /\ RoutesFresh
    BY DEF RoutesKept
  <2>1. RoutedByOneText
    <3> SUFFICES ASSUME NEW k \in DOMAIN seen, seen[k].i = -1, ~seen[k].disturbed
                 PROVE  \E text \in seen[k].texts : seen[k].answer \in Routing(text, seen[k].uri)
      BY DEF RoutedByOneText
    <3>1. k = 1 /\ seen # <<>>
      <4>1. seen \in Seq(RequestType) /\ Len(seen) <= 1 /\ seen # <<>>
        BY DEF RoutesInv, RoutesTypeOK
      <4> QED
        BY <4>1, Single
    <3>2. ~(seen[1].i >= 0) /\ ~seen[1].disturbed
      BY <3>1
    <3> QED
      BY <3>1, <3>2 DEF RoutesInv, RequestInv, Request
  <2>2. RoutesFresh
    <3> SUFFICES ASSUME ~inotify, loading = <<>>, ~missed
                 PROVE  loaded = IF htroute = <<>> THEN <<>> ELSE htroute[1].text
      BY DEF RoutesFresh
    <3>1. CASE htroute = <<>>
      BY <3>1 DEF RoutesInv, FileInv
    <3>2. CASE htroute # <<>>
      <4>1. Known \in Nat /\ htroute[1].mtime \in Nat
        BY <3>2, KnownType DEF RoutesInv
      <4> DEFINE a == Known
                 b == htroute[1].mtime
      <4>2. a \in Nat /\ b \in Nat /\ a <= b /\ ~(a < b)
        BY <3>2, <4>1 DEF RoutesInv, FileInv
      <4> HIDE DEF a, b
      <4>3. a = b
        BY <4>2
      <4> QED
        BY <3>2, <4>3 DEF RoutesInv, FileInv, a, b
    <3> QED
      BY <3>1, <3>2
  <2> QED
    BY <2>1, <2>2
<1> QED
  BY <1>1, RoutesStart, RoutesStep, PTL DEF RoutesSpec
=============================================================================
