----------------------------- MODULE Http1_proofs -----------------------------
(***************************************************************************)
(* What holds of every HTTP/1.1 connection and of the WebSocket it becomes *)
(***************************************************************************)
EXTENDS Http1Props, FiniteSetTheorems, SequenceTheorems, WellFoundedInduction, TLAPS

(***************************************************************************)
(* Sequences of sequences.                                                 *)
(***************************************************************************)

(* A set of numbers has a least one. *)
LEMMA LeastNumber ==
  ASSUME NEW S \in SUBSET Nat, S # {}
  PROVE  \E n \in S : \A m \in S : n <= m
<1> DEFINE R == {ss \in Nat \X Nat : ss[1] < ss[2]}
<1>1. IsWellFoundedOn(R, Nat)
  BY NatLessThanWellFounded DEF OpToRel
<1>2. \E x \in S : \A y \in S : ~ (<<y, x>> \in R)
  <2> HIDE DEF R
  <2> QED
    BY <1>1, WFMin
<1>3. PICK x \in S : \A y \in S : ~ (<<y, x>> \in R)
  BY <1>2
<1>4. \A y \in S : x <= y
  <2>1. TAKE y \in S
  <2>2. x \in Nat /\ y \in Nat
    OBVIOUS
  <2>3. ~ (y < x)
    BY <1>3, <2>2
  <2> QED
    BY <2>2, <2>3
<1> QED
  BY <1>4

(* What holds at 0 and goes on from each number to the next holds up to n. *)
LEMMA UpTo ==
  ASSUME NEW n \in Nat, NEW G \in SUBSET (0 .. n), 0 \in G,
         \A i \in 1 .. n : i - 1 \in G => i \in G
  PROVE  G = 0 .. n
<1> DEFINE Bad == {i \in 0 .. n : i \notin G}
<1>1. SUFFICES ASSUME Bad # {} PROVE FALSE
  OBVIOUS
<1>2. PICK m \in Bad : \A k \in Bad : m <= k
  <2> HIDE DEF Bad
  <2>1. Bad \in SUBSET Nat
    BY DEF Bad
  <2> QED
    BY <1>1, <2>1, LeastNumber
<1>3. m \in 1 .. n /\ m \notin G
  OBVIOUS
<1>4. m - 1 \in 0 .. n /\ m - 1 \notin Bad
  <2> HIDE DEF Bad
  <2> QED
    BY <1>2, <1>3
<1> QED
  BY <1>3, <1>4

(* f joins the elements of s up to each place, as FlattenSeq does.         *)
Joins(s, n, f) ==
  f = [i \in 1 .. n |-> IF i = 1 THEN s[i] ELSE f[i - 1] \o s[i]]

LEMMA JoinsExist ==
  ASSUME NEW s
  PROVE  \A n \in Nat : \E f : Joins(s, n, f)
<1> DEFINE Bad == {n \in Nat : ~ \E f : Joins(s, n, f)}
<1>1. SUFFICES ASSUME Bad # {} PROVE FALSE
  OBVIOUS
<1>2. PICK n \in Bad : \A m \in Bad : n <= m
  <2> HIDE DEF Bad
  <2>1. Bad \in SUBSET Nat
    BY DEF Bad
  <2> QED
    BY <1>1, <2>1, LeastNumber
<1>3. n \in Nat /\ ~ \E f : Joins(s, n, f)
  OBVIOUS
<1>4. n # 0
  <2>1. Joins(s, 0, [i \in 1 .. 0 |-> s[i]])
    BY DEF Joins
  <2> QED
    BY <1>3, <2>1
<1>5. PICK f : Joins(s, n - 1, f)
  <2>1. n - 1 \in Nat /\ n - 1 \notin Bad
    <3> HIDE DEF Bad
    <3> QED
      BY <1>2, <1>3, <1>4
  <2> QED
    BY <2>1
<1> DEFINE g == [i \in 1 .. n |-> IF i < n THEN f[i] ELSE IF n = 1 THEN s[n] ELSE f[n - 1] \o s[n]]
<1>6. \A i \in 1 .. n - 1 : f[i] = IF i = 1 THEN s[i] ELSE f[i - 1] \o s[i]
  BY <1>5 DEF Joins
<1>7. \A i \in 1 .. n : g[i] = IF i = 1 THEN s[i] ELSE g[i - 1] \o s[i]
  <2> TAKE i \in 1 .. n
  <2>1. CASE i < n
    <3>1. i \in 1 .. n - 1 /\ g[i] = f[i] /\ (i # 1 => g[i - 1] = f[i - 1])
      BY <1>3, <2>1
    <3> HIDE DEF g
    <3> QED
      BY <1>6, <3>1
  <2>2. CASE i = n
    <3>1. g[i] = IF n = 1 THEN s[n] ELSE f[n - 1] \o s[n]
      BY <1>3, <2>2
    <3>2. n # 1 => g[n - 1] = f[n - 1]
      BY <1>3, <1>4
    <3> HIDE DEF g
    <3> QED
      BY <2>2, <3>1, <3>2
  <2> QED
    BY <1>3, <2>1, <2>2
<1>8. Joins(s, n, g)
  <2>1. g = [i \in 1 .. n |-> g[i]]
    OBVIOUS
  <2> HIDE DEF g
  <2> QED
    BY <1>7, <2>1 DEF Joins
<1> QED
  BY <1>3, <1>8

LEMMA FlattenJoins ==
  ASSUME NEW s, Len(s) \in Nat \ {0}
  PROVE  \E f : Joins(s, Len(s), f) /\ FlattenSeq(s) = f[Len(s)]
<1>1. \E f : Joins(s, Len(s), f)
  BY JoinsExist
<1> DEFINE f == CHOOSE f : Joins(s, Len(s), f)
<1>2. Joins(s, Len(s), f)
  BY <1>1
<1>3. FlattenSeq(s) = f[Len(s)]
  BY DEF FlattenSeq, Joins
<1> QED
  BY <1>2, <1>3

LEMMA JoinsAt ==
  ASSUME NEW s, NEW n \in Nat, NEW f, Joins(s, n, f), NEW i \in 1 .. n
  PROVE  /\ i = 1 => f[i] = s[i]
         /\ i # 1 => f[i] = f[i - 1] \o s[i]
<1>1. f[i] = IF i = 1 THEN s[i] ELSE f[i - 1] \o s[i]
  BY DEF Joins
<1> QED
  BY <1>1

LEMMA JoinsSame ==
  ASSUME NEW s, NEW t, NEW n \in Nat, NEW m \in Nat, n <= m,
         NEW f, NEW g, Joins(s, n, f), Joins(t, m, g),
         \A i \in 1 .. n : s[i] = t[i]
  PROVE  \A i \in 1 .. n : f[i] = g[i]
<1> DEFINE G == {i \in 0 .. n : i # 0 => f[i] = g[i]}
<1>1. 0 \in G
  OBVIOUS
<1>2. ASSUME NEW i \in 1 .. n, i - 1 \in G PROVE i \in G
  <2>1. /\ i = 1 => f[i] = s[i]
        /\ i # 1 => f[i] = f[i - 1] \o s[i]
    BY JoinsAt
  <2>2. /\ i = 1 => g[i] = t[i]
        /\ i # 1 => g[i] = g[i - 1] \o t[i]
    <3>1. i \in 1 .. m
      OBVIOUS
    <3> QED
      BY <3>1, JoinsAt
  <2>3. i # 1 => f[i - 1] = g[i - 1]
    BY <1>2
  <2>4. s[i] = t[i]
    OBVIOUS
  <2>5. f[i] = g[i]
    BY <2>1, <2>2, <2>3, <2>4
  <2> QED
    BY <2>5
<1>3. G = 0 .. n
  <2>1. G \in SUBSET (0 .. n)
    OBVIOUS
  <2> HIDE DEF G
  <2> QED
    BY <1>1, <1>2, <2>1, UpTo
<1> QED
  BY <1>3

(* What FlattenSeq makes of nothing, and of one more sequence.             *)
LEMMA FlattenNone == FlattenSeq(<<>>) = <<>>
BY DEF FlattenSeq

LEMMA FlattenTyped ==
  ASSUME NEW L, NEW s \in Seq(Seq(L))
  PROVE  FlattenSeq(s) \in Seq(L)
<1> DEFINE n == Len(s)
<1>1. CASE n = 0
  <2>1. s = <<>> /\ <<>> \in Seq(L)
    BY <1>1
  <2> QED
    BY <2>1, FlattenNone
<1>2. CASE n # 0
  <2>1. n \in Nat \ {0}
    BY <1>2
  <2>2. PICK f : Joins(s, n, f) /\ FlattenSeq(s) = f[n]
    BY <2>1, FlattenJoins
  <2> DEFINE G == {i \in 0 .. n : i # 0 => f[i] \in Seq(L)}
  <2>3. 0 \in G
    OBVIOUS
  <2>4. ASSUME NEW i \in 1 .. n, i - 1 \in G PROVE i \in G
    <3>1. s[i] \in Seq(L)
      OBVIOUS
    <3>2. /\ i = 1 => f[i] = s[i]
          /\ i # 1 => f[i] = f[i - 1] \o s[i]
      <4> HIDE DEF n
      <4> QED
        BY <2>1, <2>2, JoinsAt
    <3>3. i # 1 => f[i - 1] \in Seq(L)
      BY <2>4
    <3>4. f[i] \in Seq(L)
      <4>1. CASE i = 1
        BY <3>1, <3>2, <4>1
      <4>2. CASE i # 1
        <5> DEFINE a == s[i]
                   b == f[i - 1]
        <5>1. a \in Seq(L) /\ b \in Seq(L) /\ f[i] = b \o a
          BY <3>1, <3>2, <3>3, <4>2
        <5> HIDE DEF a, b
        <5> QED
          BY <5>1
      <4> QED
        BY <4>1, <4>2
    <3> QED
      BY <3>4
  <2>5. G = 0 .. n
    <3>1. G \in SUBSET (0 .. n)
      OBVIOUS
    <3> HIDE DEF G, n
    <3> QED
      BY <2>1, <2>3, <2>4, <3>1, UpTo
  <2> QED
    BY <2>1, <2>2, <2>5
<1> QED
  BY <1>1, <1>2

LEMMA FlattenAppend ==
  ASSUME NEW L, NEW s \in Seq(Seq(L)), NEW x \in Seq(L)
  PROVE  FlattenSeq(Append(s, x)) = FlattenSeq(s) \o x
<1> DEFINE t == Append(s, x)
           n == Len(s)
<1>1. n \in Nat /\ Len(t) = n + 1 /\ t[n + 1] = x /\ \A i \in 1 .. n : s[i] = t[i]
  OBVIOUS
<1>2. PICK g : Joins(t, n + 1, g) /\ FlattenSeq(t) = g[n + 1]
  <2> HIDE DEF t
  <2> QED
    BY <1>1, FlattenJoins
<1>3. CASE n = 0
  <2>1. g[1] = x
    <3> HIDE DEF t, n
    <3>1. 1 \in 1 .. n + 1 /\ n + 1 \in Nat /\ n + 1 = 1
      BY <1>1, <1>3
    <3>2. g[1] = t[1]
      BY <1>2, <3>1, JoinsAt
    <3> QED
      BY <1>1, <3>1, <3>2
  <2>2. s = <<>>
    BY <1>3
  <2> QED
    BY <1>2, <1>3, <2>1, <2>2, FlattenNone
<1>4. CASE n # 0
  <2>1. PICK f : Joins(s, n, f) /\ FlattenSeq(s) = f[n]
    BY <1>1, <1>4, FlattenJoins
  <2> HIDE DEF t, n
  <2>2. f[n] = g[n]
    BY <1>1, <1>2, <1>4, <2>1, JoinsSame
  <2>4. g[n + 1] = g[n] \o x
    <3> DEFINE m == n + 1
    <3>1. m \in 1 .. m /\ m \in Nat /\ m # 1 /\ Joins(t, m, g) /\ m - 1 = n /\ t[m] = x
      BY <1>1, <1>2, <1>4
    <3> HIDE DEF m
    <3>2. g[m] = g[m - 1] \o t[m]
      BY <3>1, JoinsAt
    <3>3. g[m] = g[n] \o x
      BY <3>1, <3>2
    <3> QED
      BY <3>3 DEF m
  <2> QED
    BY <1>2, <2>1, <2>2, <2>4 DEF t
<1> QED
  BY <1>3, <1>4

LEMMA FlattenOne ==
  ASSUME NEW L, NEW x \in Seq(L)
  PROVE  FlattenSeq(<<x>>) = x
<1> DEFINE s == <<>>
<1>1. s \in Seq(Seq(L)) /\ Append(s, x) = <<x>> /\ s \o x = x /\ FlattenSeq(s) = s
  BY FlattenNone
<1> HIDE DEF s
<1> QED
  BY <1>1, FlattenAppend

(* The first i elements of t are the first i - 1 and one more.             *)
LEMMA OneMore ==
  ASSUME NEW S, NEW s \in Seq(S), NEW t \in Seq(S), NEW i \in 1 .. Len(t)
  PROVE  /\ s \o SubSeq(t, 1, i) = Append(s \o SubSeq(t, 1, i - 1), t[i])
         /\ SubSeq(t, 1, i) = Append(SubSeq(t, 1, i - 1), t[i])
         /\ s \o SubSeq(t, 1, i - 1) \in Seq(S) /\ SubSeq(t, 1, i - 1) \in Seq(S)
         /\ t[i] \in S
<1> DEFINE a == SubSeq(t, 1, i - 1)
           b == SubSeq(t, 1, i)
           x == t[i]
<1>1. x \in S /\ i \in Nat /\ i <= Len(t) /\ 1 <= i /\ Len(t) \in Nat
  OBVIOUS
<1>2. a \in Seq(S) /\ Len(a) = i - 1 /\ \A k \in 1 .. i - 1 : a[k] = t[k]
  BY <1>1
<1>3. b \in Seq(S) /\ Len(b) = i /\ \A k \in 1 .. i : b[k] = t[k]
  BY <1>1
<1>4. b = Append(a, x)
  <2>1. Len(b) = Len(Append(a, x)) /\ \A k \in 1 .. i : b[k] = Append(a, x)[k]
    BY <1>1, <1>2, <1>3
  <2>2. Append(a, x) \in Seq(S)
    BY <1>1, <1>2
  <2> HIDE DEF a, b, x
  <2> QED
    BY <1>3, <2>1, <2>2
<1> HIDE DEF a, b, x
<1>5. s \o Append(a, x) = Append(s \o a, x)
  BY <1>1, <1>2
<1>6. s \o a \in Seq(S)
  BY <1>2
<1> QED
  BY <1>1, <1>2, <1>4, <1>5, <1>6 DEF a, b, x

(* Sequences are joined in whatever grouping. *)
LEMMA Regroup ==
  ASSUME NEW L, NEW x \in Seq(L), NEW w \in Seq(L), NEW y \in Seq(L)
  PROVE  (x \o w) \o y = x \o (w \o y)
  BY ConcatAssociative

(* FlattenSeq begins with the first sequence. *)
LEMMA FlattenHead ==
  ASSUME NEW L, NEW s \in Seq(Seq(L)), s # <<>>
  PROVE  /\ Head(s) \in Seq(L) /\ Tail(s) \in Seq(Seq(L))
         /\ FlattenSeq(s) = Head(s) \o FlattenSeq(Tail(s))
<1> DEFINE x == Head(s)
           t == Tail(s)
           n == Len(t)
           one == <<x>>
           G == {i \in 0 .. n : FlattenSeq(one \o SubSeq(t, 1, i)) = x \o FlattenSeq(SubSeq(t, 1, i))}
<1>1. x \in Seq(L) /\ t \in Seq(Seq(L)) /\ one \in Seq(Seq(L)) /\ n \in Nat
  OBVIOUS
<1>2. one \o t = s
  OBVIOUS
<1>3. 0 \in G
  <2> DEFINE a == SubSeq(t, 1, 0)
  <2>1. a = <<>> /\ one \o a = one /\ x \o <<>> = x
    <3>1. a = <<>>
      BY <1>1
    <3> HIDE DEF a, one, x
    <3> QED
      BY <1>1, <3>1
  <2>2. FlattenSeq(one) = x
    BY <1>1, FlattenOne
  <2> HIDE DEF a
  <2>3. FlattenSeq(one \o a) = x \o FlattenSeq(a)
    BY <2>1, <2>2, FlattenNone
  <2>4. 0 \in 0 .. n
    BY <1>1
  <2> QED
    BY <2>3, <2>4 DEF a
<1>4. ASSUME NEW i \in 1 .. n, i - 1 \in G PROVE i \in G
  <2> DEFINE a == SubSeq(t, 1, i - 1)
             b == SubSeq(t, 1, i)
             y == t[i]
  <2>1. FlattenSeq(one \o a) = x \o FlattenSeq(a)
    BY <1>4
  <2>2. /\ one \o b = Append(one \o a, y) /\ b = Append(a, y) /\ y \in Seq(L)
        /\ one \o a \in Seq(Seq(L)) /\ a \in Seq(Seq(L))
    <3>1. t \in Seq(Seq(L)) /\ one \in Seq(Seq(L)) /\ i \in 1 .. Len(t)
      BY <1>1
    <3> DEFINE T == Seq(L)
    <3>2. t \in Seq(T) /\ one \in Seq(T)
      BY <3>1
    <3> HIDE DEF G, one, x, t, n, T
    <3>3. /\ one \o SubSeq(t, 1, i) = Append(one \o SubSeq(t, 1, i - 1), t[i])
          /\ SubSeq(t, 1, i) = Append(SubSeq(t, 1, i - 1), t[i])
          /\ one \o SubSeq(t, 1, i - 1) \in Seq(T) /\ SubSeq(t, 1, i - 1) \in Seq(T)
          /\ t[i] \in T
      BY <3>1, <3>2, OneMore
    <3> QED
      BY <3>3 DEF T
  <2> HIDE DEF a, b, y, one, x
  <2>3. FlattenSeq(one \o b) = FlattenSeq(one \o a) \o y /\ FlattenSeq(b) = FlattenSeq(a) \o y
    BY <2>2, FlattenAppend
  <2>4. FlattenSeq(a) \in Seq(L)
    BY <2>2, FlattenTyped
  <2>5. (x \o FlattenSeq(a)) \o y = x \o (FlattenSeq(a) \o y)
    <3> DEFINE w == FlattenSeq(a)
    <3>1. w \in Seq(L) /\ x \in Seq(L) /\ y \in Seq(L)
      BY <1>1, <2>2, <2>4
    <3> HIDE DEF w, G, t, n
    <3>2. (x \o w) \o y = x \o (w \o y)
      BY <3>1, Regroup, SMTT(30)
    <3> QED
      BY <3>2 DEF w
  <2>6. FlattenSeq(one \o b) = x \o FlattenSeq(b)
    BY <2>1, <2>3, <2>5
  <2> QED
    BY <2>6 DEF b
<1>5. G = 0 .. n
  <2>1. G \in SUBSET (0 .. n)
    OBVIOUS
  <2> HIDE DEF G, n
  <2> QED
    BY <1>1, <1>3, <1>4, <2>1, UpTo
<1>6. n \in G
  <2> HIDE DEF G, n
  <2> QED
    BY <1>1, <1>5
<1>7. SubSeq(t, 1, n) = t
  BY <1>1
<1> HIDE DEF t, one, x
<1>8. FlattenSeq(one \o t) = x \o FlattenSeq(t)
  BY <1>6, <1>7
<1> QED
  BY <1>1, <1>2, <1>8 DEF t, x

(* What the first n sequences of s make is the beginning of what more make. *)
LEMMA FlattenGrows ==
  ASSUME NEW L, NEW s \in Seq(Seq(L)), NEW n \in 0 .. Len(s)
  PROVE  /\ FlattenSeq(SubSeq(s, 1, n)) \in Seq(L)
         /\ n > 0 => /\ FlattenSeq(SubSeq(s, 1, n)) = FlattenSeq(SubSeq(s, 1, n - 1)) \o s[n]
                     /\ s[n] \in Seq(L)
<1> DEFINE a == SubSeq(s, 1, n)
           b == SubSeq(s, 1, n - 1)
<1>1. a \in Seq(Seq(L))
  OBVIOUS
<1>2. FlattenSeq(a) \in Seq(L)
  <2> HIDE DEF a
  <2> QED
    BY <1>1, FlattenTyped
<1>3. ASSUME n > 0 PROVE FlattenSeq(a) = FlattenSeq(b) \o s[n] /\ s[n] \in Seq(L)
  <2>1. n \in 1 .. Len(s)
    BY <1>3
  <2>2. a = Append(b, s[n]) /\ b \in Seq(Seq(L)) /\ s[n] \in Seq(L)
    BY <2>1, OneMore
  <2> HIDE DEF a, b
  <2> QED
    BY <2>2, FlattenAppend
<1> QED
  BY <1>2, <1>3

LEMMA FlattenPrefix ==
  ASSUME NEW L, NEW s \in Seq(Seq(L)), NEW n \in 0 .. Len(s), NEW m \in 0 .. n
  PROVE  /\ Len(FlattenSeq(SubSeq(s, 1, m))) <= Len(FlattenSeq(SubSeq(s, 1, n)))
         /\ \A p \in 1 .. Len(FlattenSeq(SubSeq(s, 1, m))) :
              FlattenSeq(SubSeq(s, 1, n))[p] = FlattenSeq(SubSeq(s, 1, m))[p]
<1> DEFINE J(i) == FlattenSeq(SubSeq(s, 1, i))
           Good(i) == /\ Len(J(m)) <= Len(J(i))
                      /\ \A p \in 1 .. Len(J(m)) : J(i)[p] = J(m)[p]
           G == {i \in 0 .. n : i >= m => Good(i)}
<1>1. n \in Nat /\ m \in Nat /\ m <= n /\ n <= Len(s) /\ J(m) \in Seq(L)
  <2>1. n \in Nat /\ m \in Nat /\ m <= n /\ n <= Len(s) /\ m \in 0 .. Len(s)
    OBVIOUS
  <2>2. FlattenSeq(SubSeq(s, 1, m)) \in Seq(L)
    BY <2>1, FlattenGrows
  <2> QED
    BY <2>1, <2>2
<1>2. ASSUME NEW i \in 1 .. n, i - 1 \in G PROVE i \in G
  <2> SUFFICES ASSUME i >= m PROVE Good(i)
    OBVIOUS
  <2>1. CASE i = m
    BY <1>1, <2>1
  <2>2. CASE i > m
    <3>1. Good(i - 1)
      BY <1>1, <1>2, <2>2
    <3> DEFINE a == J(i - 1)
               b == s[i]
    <3>2. J(i) = a \o b /\ a \in Seq(L) /\ b \in Seq(L)
      <4>1. i \in 0 .. Len(s) /\ i - 1 \in 0 .. Len(s) /\ i > 0
        BY <1>1
      <4> QED
        BY <4>1, FlattenGrows
    <3>3. Len(J(m)) <= Len(a) /\ \A p \in 1 .. Len(J(m)) : a[p] = J(m)[p]
      BY <3>1
    <3> HIDE DEF a, b, J
    <3>4. /\ Len(J(m)) <= Len(a \o b)
          /\ \A p \in 1 .. Len(J(m)) : (a \o b)[p] = J(m)[p]
      BY <1>1, <3>2, <3>3
    <3> QED
      BY <3>2, <3>4
  <2> QED
    BY <1>1, <2>1, <2>2
<1>3. 0 \in G
  BY <1>1
<1>4. G = 0 .. n
  <2>1. G \in SUBSET (0 .. n)
    OBVIOUS
  <2> HIDE DEF G
  <2> QED
    BY <1>1, <1>2, <1>3, <2>1, UpTo
<1>5. Good(n)
  BY <1>1, <1>4
<1> QED
  BY <1>5

(* Where a piece of the whole comes from. *)
LEMMA FlattenPlace ==
  ASSUME NEW L, NEW s \in Seq(Seq(L)), NEW p \in 1 .. Len(FlattenSeq(SubSeq(s, 1, Len(s))))
  PROVE  \E i \in 1 .. Len(s) :
           /\ Len(FlattenSeq(SubSeq(s, 1, i - 1))) < p /\ p <= Len(FlattenSeq(SubSeq(s, 1, i)))
           /\ FlattenSeq(SubSeq(s, 1, Len(s)))[p] = s[i][p - Len(FlattenSeq(SubSeq(s, 1, i - 1)))]
<1> DEFINE J(i) == FlattenSeq(SubSeq(s, 1, i))
           n == Len(s)
           S == {i \in 0 .. n : p <= Len(J(i))}
<1>1. n \in Nat /\ \A i \in 0 .. n : J(i) \in Seq(L)
  <2>1. ASSUME NEW i \in 0 .. Len(s) PROVE FlattenSeq(SubSeq(s, 1, i)) \in Seq(L)
    BY FlattenGrows
  <2> QED
    BY <2>1
<1>2. n \in S
  BY <1>1
<1>3. PICK i \in S : \A k \in S : i <= k
  <2>1. S \in SUBSET Nat
    BY <1>1
  <2> HIDE DEF S
  <2> QED
    BY <1>2, <2>1, LeastNumber
<1>4. i # 0
  <2>1. J(0) = <<>>
    <3>1. SubSeq(s, 1, 0) = <<>>
      OBVIOUS
    <3> QED
      BY <3>1, FlattenNone
  <2>2. Len(J(0)) = 0
    BY <2>1
  <2> QED
    BY <2>2
<1>5. i \in 1 .. n /\ i - 1 \in 0 .. n /\ p <= Len(J(i))
  BY <1>1, <1>4
<1>6. Len(J(i - 1)) < p
  <2>1. i - 1 \notin S
    <3> HIDE DEF S
    <3> QED
      BY <1>3, <1>5
  <2>2. Len(J(i - 1)) \in Nat
    BY <1>1, <1>5
  <2> QED
    BY <1>5, <2>1, <2>2
<1>7. J(i) = J(i - 1) \o s[i] /\ s[i] \in Seq(L)
  <2>1. i \in 0 .. Len(s) /\ i > 0
    BY <1>1, <1>5
  <2> QED
    BY <2>1, FlattenGrows
<1>8. J(n)[p] = J(i)[p]
  <2>1. n \in 0 .. Len(s) /\ i \in 0 .. n /\ p \in 1 .. Len(J(i))
    <3>1. Len(J(i)) \in Nat /\ p \in Nat
      BY <1>1, <1>5
    <3> QED
      BY <1>1, <1>5, <3>1
  <2> QED
    BY <2>1, FlattenPrefix
<1>9. J(i)[p] = s[i][p - Len(J(i - 1))]
  <2> DEFINE a == J(i - 1)
             b == s[i]
  <2>1. a \in Seq(L) /\ b \in Seq(L) /\ J(i) = a \o b /\ p <= Len(J(i)) /\ Len(a) < p
    BY <1>1, <1>5, <1>6, <1>7
  <2>2. p \in Int
    BY <1>1
  <2> HIDE DEF a, b, J
  <2>3. p <= Len(a \o b)
    BY <2>1
  <2>4. (a \o b)[p] = b[p - Len(a)]
    BY <2>1, <2>2, <2>3
  <2> QED
    BY <2>1, <2>4 DEF a, b
<1> QED
  BY <1>5, <1>6, <1>8, <1>9


(***************************************************************************)
(* What the client has to say.                                             *)
(***************************************************************************)

Frames == Len(world.frames)
PartNames == {"head", "body", "hdr", "ext", "mask", "pay"}
Pieces == Nat \X PartNames \X Nat

LEMMA Sizes == FileSize \in Nat /\ Capacity \in Nat /\ Capacity > 2
BY Http1Assumption DEF Http1Assumption, HeadLen

LEMMA WorldTyped ==
  ASSUME world \in World
  PROVE  /\ world.reqs \in Seq(Request) /\ world.frames \in Seq(WsFrame)
         /\ world.tls \in BOOLEAN
         /\ Requests \in Nat \ {0} /\ Frames \in Nat
         /\ \A i \in 1 .. Requests : world.reqs[i] \in Request /\ world.reqs[i].body \in Nat
         /\ \A j \in 1 .. Frames : world.frames[j] \in WsFrame
<1>1. world.reqs \in Seq(Request) /\ world.frames \in Seq(WsFrame) /\ world.tls \in BOOLEAN
  BY Http1Assumption DEF Http1Assumption
<1>2. Len(world.reqs) > 0
  BY ClientAssumption DEF ClientAssumption
<1> DEFINE a == world.reqs
           b == world.frames
<1>3. Len(a) \in Nat \ {0} /\ Len(b) \in Nat
  <2>1. a \in Seq(Request) /\ b \in Seq(WsFrame) /\ Len(a) > 0
    BY <1>1, <1>2
  <2> HIDE DEF a, b
  <2> QED
    BY <2>1
<1>4. ASSUME NEW i \in 1 .. Len(a) PROVE a[i] \in Request /\ a[i].body \in Nat
  <2>1. a[i] \in Request
    <3>1. a \in Seq(Request)
      BY <1>1
    <3> HIDE DEF a
    <3> QED
      BY <3>1
  <2> QED
    BY <2>1 DEF Request
<1>5. ASSUME NEW j \in 1 .. Len(b) PROVE b[j] \in WsFrame
  <2>1. b \in Seq(WsFrame)
    BY <1>1
  <2> HIDE DEF b
  <2> QED
    BY <2>1
<1> QED
  BY <1>1, <1>3, <1>4, <1>5 DEF Requests, Frames

LEMMA WorldRules ==
  ASSUME world \in World
  PROVE  /\ \A i \in 1 .. Requests : i # Requests => world.reqs[i].kind # "upgrade"
         /\ Without({"undeclared"}) =>
              \A i \in 1 .. Requests : world.reqs[i].declared = world.reqs[i].body
<1>1. ASSUME NEW i \in 1 .. Requests, i # Requests PROVE world.reqs[i].kind # "upgrade"
  <2>1. i \in 1 .. Len(world.reqs) - 1
    BY <1>1, WorldTyped DEF Requests
  <2> QED
    BY <2>1, ClientAssumption DEF ClientAssumption
<1>2. ASSUME Without({"undeclared"})
      PROVE  \A i \in 1 .. Requests : world.reqs[i].declared = world.reqs[i].body
  BY <1>2, ClientAssumption DEF ClientAssumption, Without, Requests
<1> QED
  BY <1>1, <1>2

LEMMA ConcatIs ==
  ASSUME NEW L, NEW a \in Seq(L), NEW b \in Seq(L)
  PROVE  /\ a \o b \in Seq(L) /\ Len(a) \in Nat /\ Len(b) \in Nat /\ Len(a \o b) = Len(a) + Len(b)
         /\ \A k \in 1 .. Len(a) : (a \o b)[k] = a[k]
         /\ \A k \in 1 .. Len(b) : (a \o b)[Len(a) + k] = b[k]
         /\ \A k \in 1 .. Len(a \o b) : k > Len(a) => (a \o b)[k] = b[k - Len(a)]
<1>1. /\ a \o b \in Seq(L) /\ Len(a \o b) = Len(a) + Len(b)
      /\ \A i \in 1 .. Len(a) + Len(b) :
           (a \o b)[i] = IF i <= Len(a) THEN a[i] ELSE b[i - Len(a)]
  BY ConcatProperties
<1>2. Len(a) \in Nat /\ Len(b) \in Nat
  OBVIOUS
<1> DEFINE m == Len(a)
           n == Len(b)
           c == a \o b
<1>3. m \in Nat /\ n \in Nat /\ \A i \in 1 .. m + n : c[i] = IF i <= m THEN a[i] ELSE b[i - m]
  BY <1>1, <1>2
<1> HIDE DEF m, n, c
<1>4. ASSUME NEW k \in 1 .. m PROVE c[k] = a[k]
  BY <1>3
<1>5. ASSUME NEW k \in 1 .. n PROVE c[m + k] = b[k]
  <2>1. m + k \in 1 .. m + n /\ ~ (m + k <= m) /\ (m + k) - m = k
    BY <1>3
  <2> QED
    BY <1>3, <2>1
<1>6. ASSUME NEW k \in 1 .. m + n, k > m PROVE c[k] = b[k - m]
  BY <1>3, <1>6
<1> QED
  BY <1>1, <1>2, <1>4, <1>5, <1>6 DEF m, n, c

LEMMA PartIs ==
  ASSUME NEW i \in Nat, NEW p \in PartNames, NEW n \in Nat
  PROVE  /\ Part(i, p, n) \in Seq(Pieces) /\ Len(Part(i, p, n)) = n
         /\ \A k \in 1 .. n : Part(i, p, n)[k] = <<i, p, k>>
<1>1. \A k \in 1 .. n : <<i, p, k>> \in Pieces
  BY DEF Pieces
<1> QED
  BY <1>1 DEF Part

LEMMA RequestIs ==
  ASSUME world \in World, NEW i \in 1 .. Requests
  PROVE  /\ RequestPieces(i) \in Seq(Pieces)
         /\ Len(RequestPieces(i)) = 2 + world.reqs[i].body
         /\ \A k \in 1 .. Len(RequestPieces(i)) :
              RequestPieces(i)[k] = IF k <= 2 THEN <<i, "head", k>> ELSE <<i, "body", k - 2>>
<1> DEFINE n == world.reqs[i].body
           a == Part(i, "head", 2)
           b == Part(i, "body", n)
<1>1. i \in Nat /\ n \in Nat
  BY WorldTyped
<1>2. /\ a \in Seq(Pieces) /\ Len(a) = 2 /\ \A k \in 1 .. 2 : a[k] = <<i, "head", k>>
      /\ b \in Seq(Pieces) /\ Len(b) = n /\ \A k \in 1 .. n : b[k] = <<i, "body", k>>
  <2> DEFINE h == "head"
             y == "body"
             two == 2
  <2>1. h \in PartNames /\ y \in PartNames /\ two \in Nat
    BY DEF PartNames
  <2> HIDE DEF h, y, two, n
  <2>2. /\ Part(i, h, two) \in Seq(Pieces) /\ Len(Part(i, h, two)) = two
        /\ \A k \in 1 .. two : Part(i, h, two)[k] = <<i, h, k>>
    BY <1>1, <2>1, PartIs
  <2>3. /\ Part(i, y, n) \in Seq(Pieces) /\ Len(Part(i, y, n)) = n
        /\ \A k \in 1 .. n : Part(i, y, n)[k] = <<i, y, k>>
    BY <1>1, <2>1, PartIs
  <2> QED
    BY <2>2, <2>3 DEF h, y, two
<1>3. RequestPieces(i) = a \o b
  BY DEF RequestPieces, HeadLen
<1> HIDE DEF a, b, n
<1> DEFINE c == a \o b
<1>4. /\ c \in Seq(Pieces) /\ Len(c) = Len(a) + Len(b)
      /\ \A k \in 1 .. Len(a) : c[k] = a[k]
      /\ \A k \in 1 .. Len(c) : k > Len(a) => c[k] = b[k - Len(a)]
  <2>1. a \in Seq(Pieces) /\ b \in Seq(Pieces)
    BY <1>2
  <2> QED
    BY <2>1, ConcatIs
<1> HIDE DEF c
<1>5. ASSUME NEW k \in 1 .. 2 + n
      PROVE  c[k] = IF k <= 2 THEN <<i, "head", k>> ELSE <<i, "body", k - 2>>
  <2>1. CASE k <= 2
    <3>1. k \in 1 .. 2
      BY <1>1, <2>1
    <3> QED
      BY <1>2, <1>4, <2>1, <3>1
  <2>2. CASE k > 2
    <3>1. k - 2 \in 1 .. n /\ k \in 1 .. Len(c) /\ k > Len(a)
      BY <1>1, <1>2, <1>4, <2>2
    <3>2. c[k] = b[k - 2] /\ b[k - 2] = <<i, "body", k - 2>>
      BY <1>2, <1>4, <3>1
    <3> QED
      BY <2>2, <3>2
  <2> QED
    BY <1>1, <2>1, <2>2
<1> QED
  BY <1>2, <1>3, <1>4, <1>5 DEF n, c

LEMMA FrameIs ==
  ASSUME world \in World, NEW j \in 1 .. Frames
  PROVE  /\ FramePieces(j) \in Seq(Pieces)
         /\ Len(FramePieces(j)) = 4 + world.frames[j].ext + world.frames[j].pay
         /\ world.frames[j].ext \in Nat /\ world.frames[j].pay \in Nat
         /\ \A k \in 1 .. 2 : FramePieces(j)[k] = <<j, "hdr", k>>
         /\ \A k \in 1 .. Len(FramePieces(j)) : FramePieces(j)[k][2] # "head"
<1> DEFINE e == world.frames[j].ext
           p == world.frames[j].pay
           a == Part(j, "hdr", 2)
           b == Part(j, "ext", e)
           c == Part(j, "mask", 2)
           d == Part(j, "pay", p)
<1>1. j \in Nat /\ e \in Nat /\ p \in Nat
  BY WorldTyped DEF WsFrame
<1>2. /\ a \in Seq(Pieces) /\ Len(a) = 2 /\ \A k \in 1 .. 2 : a[k] = <<j, "hdr", k>>
      /\ b \in Seq(Pieces) /\ Len(b) = e /\ \A k \in 1 .. e : b[k] = <<j, "ext", k>>
      /\ c \in Seq(Pieces) /\ Len(c) = 2 /\ \A k \in 1 .. 2 : c[k] = <<j, "mask", k>>
      /\ d \in Seq(Pieces) /\ Len(d) = p /\ \A k \in 1 .. p : d[k] = <<j, "pay", k>>
  <2> HIDE DEF e, p
  <2>1. ASSUME NEW q \in PartNames, NEW n \in Nat
        PROVE  /\ Part(j, q, n) \in Seq(Pieces) /\ Len(Part(j, q, n)) = n
               /\ \A k \in 1 .. n : Part(j, q, n)[k] = <<j, q, k>>
    BY <1>1, PartIs
  <2>2. {"hdr", "ext", "mask", "pay"} \subseteq PartNames /\ 2 \in Nat
    BY DEF PartNames
  <2> QED
    BY <1>1, <2>1, <2>2
<1>3. FramePieces(j) = a \o b \o c \o d
  BY DEF FramePieces
<1> HIDE DEF a, b, c, d, e, p
<1> DEFINE ab == a \o b
           cd == c \o d
           f == ab \o cd
<1>4. /\ ab \in Seq(Pieces) /\ Len(ab) = Len(a) + Len(b)
      /\ \A k \in 1 .. Len(a) : ab[k] = a[k]
      /\ \A k \in 1 .. Len(ab) : k > Len(a) => ab[k] = b[k - Len(a)]
  <2>1. a \in Seq(Pieces) /\ b \in Seq(Pieces)
    BY <1>2
  <2> QED
    BY <2>1, ConcatIs
<1>5. /\ cd \in Seq(Pieces) /\ Len(cd) = Len(c) + Len(d)
      /\ \A k \in 1 .. Len(c) : cd[k] = c[k]
      /\ \A k \in 1 .. Len(cd) : k > Len(c) => cd[k] = d[k - Len(c)]
  <2>1. c \in Seq(Pieces) /\ d \in Seq(Pieces)
    BY <1>2
  <2> QED
    BY <2>1, ConcatIs
<1>6. FramePieces(j) = f
  <2>1. ab \o c \o d = ab \o (c \o d)
    <3>1. ab \in Seq(Pieces) /\ c \in Seq(Pieces) /\ d \in Seq(Pieces)
      BY <1>2, <1>4
    <3> HIDE DEF ab
    <3> QED
      BY <3>1, ConcatAssociative
  <2> QED
    BY <1>3, <2>1
<1> HIDE DEF ab, cd
<1>7. /\ f \in Seq(Pieces) /\ Len(f) = Len(ab) + Len(cd)
      /\ \A k \in 1 .. Len(ab) : f[k] = ab[k]
      /\ \A k \in 1 .. Len(f) : k > Len(ab) => f[k] = cd[k - Len(ab)]
  <2>1. ab \in Seq(Pieces) /\ cd \in Seq(Pieces)
    BY <1>4, <1>5
  <2> QED
    BY <2>1, ConcatIs
<1> HIDE DEF f
<1>8. Len(ab) = 2 + e /\ Len(cd) = 2 + p /\ Len(f) = 4 + e + p
  BY <1>1, <1>2, <1>4, <1>5, <1>7
<1>9. ASSUME NEW k \in 1 .. 2 PROVE f[k] = <<j, "hdr", k>>
  <2>1. k \in 1 .. Len(ab) /\ k \in 1 .. Len(a)
    BY <1>1, <1>2, <1>8
  <2> QED
    BY <1>2, <1>4, <1>7, <2>1
<1>10. ASSUME NEW k \in 1 .. Len(ab) PROVE ab[k][2] # "head"
  <2>1. CASE k <= 2
    <3>1. k \in 1 .. Len(a) /\ k \in 1 .. 2
      BY <1>2, <1>8, <2>1
    <3> QED
      BY <1>2, <1>4, <3>1
  <2>2. CASE k > 2
    <3>1. k - 2 \in 1 .. e /\ k > Len(a) /\ k - Len(a) = k - 2
      BY <1>1, <1>2, <1>8, <2>2
    <3>2. ab[k] = <<j, "ext", k - 2>>
      BY <1>2, <1>4, <3>1
    <3> QED
      BY <3>2
  <2> QED
    BY <1>1, <1>8, <2>1, <2>2
<1>11. ASSUME NEW k \in 1 .. Len(cd) PROVE cd[k][2] # "head"
  <2>1. CASE k <= 2
    <3>1. k \in 1 .. Len(c) /\ k \in 1 .. 2
      BY <1>2, <1>8, <2>1
    <3> QED
      BY <1>2, <1>5, <3>1
  <2>2. CASE k > 2
    <3>1. k - 2 \in 1 .. p /\ k > Len(c) /\ k - Len(c) = k - 2
      BY <1>1, <1>2, <1>8, <2>2
    <3>2. cd[k] = <<j, "pay", k - 2>>
      BY <1>2, <1>5, <3>1
    <3> QED
      BY <3>2
  <2> QED
    BY <1>1, <1>8, <2>1, <2>2
<1>12. ASSUME NEW k \in 1 .. Len(f) PROVE f[k][2] # "head"
  <2>1. CASE k <= Len(ab)
    <3>1. k \in 1 .. Len(ab)
      BY <1>1, <1>8, <2>1
    <3> QED
      BY <1>7, <1>10, <3>1
  <2>2. CASE k > Len(ab)
    <3>1. k - Len(ab) \in 1 .. Len(cd)
      BY <1>1, <1>8, <2>2
    <3> QED
      BY <1>7, <1>11, <2>2, <3>1
  <2> QED
    BY <1>1, <1>8, <2>1, <2>2
<1> QED
  BY <1>1, <1>6, <1>7, <1>8, <1>9, <1>12 DEF e, p

(* Where a request or a frame ends in what the client sends. *)
H(i) == Len(HttpScript(i))
Mark(j) == H(Requests) + Len(WsScript(j))

LEMMA RequestsJoined ==
  ASSUME world \in World
  PROVE  \E R \in Seq(Seq(Pieces)) :
           /\ Len(R) = Requests /\ \A i \in 1 .. Requests : R[i] = RequestPieces(i)
           /\ \A n \in 0 .. Requests : HttpScript(n) = FlattenSeq(SubSeq(R, 1, n))
<1> DEFINE r == Requests
           f(i) == RequestPieces(i)
           R == [i \in 1 .. r |-> f(i)]
<1>1. r \in Nat /\ \A i \in 1 .. r : f(i) \in Seq(Pieces)
  BY WorldTyped, RequestIs
<1>2. \A n \in 0 .. r : HttpScript(n) = FlattenSeq([i \in 1 .. n |-> f(i)])
  BY DEF HttpScript
<1> HIDE DEF r, f
<1>3. R \in Seq(Seq(Pieces)) /\ Len(R) = r /\ \A i \in 1 .. r : R[i] = f(i)
  BY <1>1
<1>4. ASSUME NEW n \in 0 .. r PROVE SubSeq(R, 1, n) = [i \in 1 .. n |-> f(i)]
  BY <1>1
<1>5. ASSUME NEW n \in 0 .. r PROVE HttpScript(n) = FlattenSeq(SubSeq(R, 1, n))
  BY <1>2, <1>4
<1> HIDE DEF R
<1> QED
  BY <1>3, <1>5 DEF r, f

LEMMA FramesJoined ==
  ASSUME world \in World
  PROVE  \E R \in Seq(Seq(Pieces)) :
           /\ Len(R) = Frames /\ \A i \in 1 .. Frames : R[i] = FramePieces(i)
           /\ \A n \in 0 .. Frames : WsScript(n) = FlattenSeq(SubSeq(R, 1, n))
<1> DEFINE r == Frames
           f(i) == FramePieces(i)
           R == [i \in 1 .. r |-> f(i)]
<1>1. r \in Nat /\ \A i \in 1 .. r : f(i) \in Seq(Pieces)
  BY WorldTyped, FrameIs
<1>2. \A n \in 0 .. r : WsScript(n) = FlattenSeq([i \in 1 .. n |-> f(i)])
  BY DEF WsScript
<1> HIDE DEF r, f
<1>3. R \in Seq(Seq(Pieces)) /\ Len(R) = r /\ \A i \in 1 .. r : R[i] = f(i)
  BY <1>1
<1>4. ASSUME NEW n \in 0 .. r PROVE SubSeq(R, 1, n) = [i \in 1 .. n |-> f(i)]
  BY <1>1
<1>5. ASSUME NEW n \in 0 .. r PROVE WsScript(n) = FlattenSeq(SubSeq(R, 1, n))
  BY <1>2, <1>4
<1> HIDE DEF R
<1> QED
  BY <1>3, <1>5 DEF r, f

(* What joining the elements of R gives, for requests and frames alike.    *)
AreBlocks(L, R, r, J) ==
  /\ \A n \in 0 .. r : J[n] \in Seq(L)
  /\ J[0] = <<>>
  /\ \A n \in 1 .. r : J[n] = J[n - 1] \o R[n]
  /\ \A n \in 0 .. r : \A m \in 0 .. n :
       Len(J[m]) <= Len(J[n]) /\ \A p \in 1 .. Len(J[m]) : J[n][p] = J[m][p]
  /\ \A p \in 1 .. Len(J[r]) : \E i \in 1 .. r :
       /\ Len(J[i - 1]) < p /\ p <= Len(J[i])
       /\ J[r][p] = R[i][p - Len(J[i - 1])]

LEMMA Blocks ==
  ASSUME NEW L, NEW R \in Seq(Seq(L)), NEW r \in Nat, NEW J \in [0 .. r -> Seq(L)], r = Len(R),
         \A n \in 0 .. r : J[n] = FlattenSeq(SubSeq(R, 1, n))
  PROVE  AreBlocks(L, R, r, J)
<1>0. r \in Nat
  OBVIOUS
<1>1. ASSUME NEW n \in 0 .. r PROVE J[n] \in Seq(L)
  BY FlattenGrows
<1>2. J[0] = <<>>
  <2>1. SubSeq(R, 1, 0) = <<>> /\ 0 \in 0 .. r
    BY <1>0
  <2> QED
    BY <2>1, FlattenNone
<1>3. ASSUME NEW n \in 1 .. r PROVE J[n] = J[n - 1] \o R[n]
  <2>1. n \in 0 .. Len(R) /\ n - 1 \in 0 .. r /\ n \in 0 .. r /\ n > 0
    BY <1>0
  <2>2. FlattenSeq(SubSeq(R, 1, n)) = FlattenSeq(SubSeq(R, 1, n - 1)) \o R[n]
    BY <2>1, FlattenGrows
  <2> QED
    BY <2>1, <2>2
<1>4. ASSUME NEW n \in 0 .. r, NEW m \in 0 .. n
      PROVE  Len(J[m]) <= Len(J[n]) /\ \A p \in 1 .. Len(J[m]) : J[n][p] = J[m][p]
  <2>1. n \in 0 .. Len(R) /\ m \in 0 .. r
    BY <1>0
  <2>2. /\ Len(FlattenSeq(SubSeq(R, 1, m))) <= Len(FlattenSeq(SubSeq(R, 1, n)))
        /\ \A p \in 1 .. Len(FlattenSeq(SubSeq(R, 1, m))) :
              FlattenSeq(SubSeq(R, 1, n))[p] = FlattenSeq(SubSeq(R, 1, m))[p]
    BY <2>1, FlattenPrefix
  <2>3. J[m] = FlattenSeq(SubSeq(R, 1, m)) /\ J[n] = FlattenSeq(SubSeq(R, 1, n))
    BY <2>1
  <2> QED
    BY <2>2, <2>3
<1>5. ASSUME NEW p \in 1 .. Len(J[r])
      PROVE  \E i \in 1 .. r : /\ Len(J[i - 1]) < p /\ p <= Len(J[i])
                               /\ J[r][p] = R[i][p - Len(J[i - 1])]
  <2>1. J[r] = FlattenSeq(SubSeq(R, 1, Len(R)))
    BY <1>0
  <2>2. p \in 1 .. Len(FlattenSeq(SubSeq(R, 1, Len(R))))
    BY <2>1
  <2>3. PICK i \in 1 .. Len(R) :
           /\ Len(FlattenSeq(SubSeq(R, 1, i - 1))) < p /\ p <= Len(FlattenSeq(SubSeq(R, 1, i)))
           /\ FlattenSeq(SubSeq(R, 1, Len(R)))[p] = R[i][p - Len(FlattenSeq(SubSeq(R, 1, i - 1)))]
    BY <2>2, FlattenPlace
  <2>4. i \in 1 .. r /\ i \in 0 .. r /\ i - 1 \in 0 .. r
    BY <1>0
  <2>5. J[i] = FlattenSeq(SubSeq(R, 1, i)) /\ J[i - 1] = FlattenSeq(SubSeq(R, 1, i - 1))
    BY <2>4
  <2> QED
    BY <2>1, <2>3, <2>4, <2>5
<1> QED
  BY <1>1, <1>2, <1>3, <1>4, <1>5 DEF AreBlocks


(* Where requests end, and what lies before and between these places.      *)
LEMMA RequestsLie ==
  ASSUME world \in World
  PROVE  /\ \A n \in 0 .. Requests : HttpScript(n) \in Seq(Pieces) /\ H(n) \in Nat
         /\ H(0) = 0
         /\ \A i \in 1 .. Requests : H(i) = H(i - 1) + 2 + world.reqs[i].body
         /\ \A n \in 0 .. Requests : \A m \in 0 .. n : H(m) <= H(n)
         /\ \A i \in 1 .. Requests : \A k \in 1 .. 2 + world.reqs[i].body :
              HttpScript(Requests)[H(i - 1) + k] = RequestPieces(i)[k]
         /\ \A p \in 1 .. H(Requests) : \E i \in 1 .. Requests :
              /\ H(i - 1) < p /\ p <= H(i)
              /\ HttpScript(Requests)[p] = RequestPieces(i)[p - H(i - 1)]
<1> DEFINE r == Requests
           J == [n \in 0 .. r |-> HttpScript(n)]
<1>1. PICK R \in Seq(Seq(Pieces)) :
           /\ Len(R) = r /\ \A i \in 1 .. r : R[i] = RequestPieces(i)
           /\ \A n \in 0 .. r : HttpScript(n) = FlattenSeq(SubSeq(R, 1, n))
  BY RequestsJoined
<1>2. r \in Nat /\ \A n \in 0 .. r : J[n] = HttpScript(n) /\ J[n] = FlattenSeq(SubSeq(R, 1, n))
  BY <1>1, WorldTyped
<1> HIDE DEF J, r
<1>3. /\ \A n \in 0 .. r : J[n] \in Seq(Pieces)
      /\ J[0] = <<>>
      /\ \A n \in 1 .. r : J[n] = J[n - 1] \o R[n]
      /\ \A n \in 0 .. r : \A m \in 0 .. n :
           Len(J[m]) <= Len(J[n]) /\ \A p \in 1 .. Len(J[m]) : J[n][p] = J[m][p]
      /\ \A p \in 1 .. Len(J[r]) : \E i \in 1 .. r :
           /\ Len(J[i - 1]) < p /\ p <= Len(J[i])
           /\ J[r][p] = R[i][p - Len(J[i - 1])]
  <2>1. r \in Nat /\ r = Len(R) /\ \A n \in 0 .. r : J[n] = FlattenSeq(SubSeq(R, 1, n))
    BY <1>1, <1>2
  <2>2. J \in [0 .. r -> Seq(Pieces)]
    <3>1. \A n \in 0 .. r : FlattenSeq(SubSeq(R, 1, n)) \in Seq(Pieces)
      BY <2>1, FlattenGrows
    <3>2. J = [n \in 0 .. r |-> HttpScript(n)] /\ \A n \in 0 .. r : HttpScript(n) \in Seq(Pieces)
      BY <1>2, <2>1, <3>1 DEF J
    <3> QED
      BY <3>2
  <2>3. AreBlocks(Pieces, R, r, J)
    <3> HIDE DEF Pieces
    <3>1. R \in Seq(Seq(Pieces))
      BY <1>1
    <3> QED
      BY <2>1, <2>2, <3>1, Blocks
  <2> QED
    BY <2>3 DEF AreBlocks
<1>4. ASSUME NEW n \in 0 .. r PROVE Len(J[n]) = H(n) /\ H(n) \in Nat /\ J[n] = HttpScript(n)
  <2> DEFINE a == J[n]
  <2>1. a \in Seq(Pieces) /\ a = HttpScript(n)
    BY <1>2, <1>3
  <2> HIDE DEF a
  <2> QED
    BY <2>1 DEF H, a
<1>5. H(0) = 0
  BY <1>2, <1>3, <1>4
<1>6. ASSUME NEW i \in 1 .. r
      PROVE  /\ i \in 0 .. r /\ i - 1 \in 0 .. r /\ R[i] = RequestPieces(i)
             /\ R[i] \in Seq(Pieces) /\ Len(R[i]) = 2 + world.reqs[i].body
  BY <1>1, <1>2, RequestIs DEF r
<1>7. ASSUME NEW i \in 1 .. r
      PROVE  /\ H(i) = H(i - 1) + 2 + world.reqs[i].body
             /\ \A k \in 1 .. 2 + world.reqs[i].body : J[i][H(i - 1) + k] = R[i][k]
             /\ world.reqs[i].body \in Nat
  <2> DEFINE a == J[i - 1]
             b == R[i]
             n == world.reqs[i].body
  <2>1. /\ a \in Seq(Pieces) /\ b \in Seq(Pieces) /\ J[i] = a \o b /\ Len(b) = 2 + n
        /\ H(i - 1) = Len(a) /\ H(i) = Len(a \o b) /\ n \in Nat
    BY <1>3, <1>4, <1>6, WorldTyped DEF r
  <2> HIDE DEF a, b, n
  <2>2. /\ Len(a \o b) = Len(a) + Len(b) /\ Len(a) \in Nat
        /\ \A k \in 1 .. Len(b) : (a \o b)[Len(a) + k] = b[k]
    <3>1. a \in Seq(Pieces) /\ b \in Seq(Pieces)
      BY <2>1
    <3> QED
      BY <3>1, ConcatIs
  <2>3. Len(a) + Len(b) = Len(a) + 2 + n
    BY <2>1, <2>2
  <2>4. H(i) = H(i - 1) + 2 + n /\ \A k \in 1 .. 2 + n : J[i][H(i - 1) + k] = b[k]
    BY <2>1, <2>2, <2>3
  <2> QED
    BY <2>1, <2>4 DEF b, n
<1>8. ASSUME NEW n \in 0 .. r, NEW m \in 0 .. n PROVE H(m) <= H(n)
  <2>1. m \in 0 .. r
    BY <1>2
  <2>2. Len(J[m]) <= Len(J[n])
    BY <1>3
  <2> QED
    BY <1>4, <2>1, <2>2
<1>9. ASSUME NEW i \in 1 .. r, NEW k \in 1 .. 2 + world.reqs[i].body
      PROVE  HttpScript(r)[H(i - 1) + k] = RequestPieces(i)[k]
  <2>1. J[i][H(i - 1) + k] = RequestPieces(i)[k]
    BY <1>6, <1>7
  <2>2. H(i - 1) + k \in 1 .. Len(J[i])
    <3> DEFINE n == world.reqs[i].body
               h == H(i - 1)
    <3>1. n \in Nat /\ h \in Nat /\ Len(J[i]) = h + 2 + n /\ k \in 1 .. 2 + n
      BY <1>4, <1>6, <1>7
    <3> HIDE DEF n, h
    <3>2. h + k \in 1 .. Len(J[i])
      BY <3>1
    <3> QED
      BY <3>2 DEF h
  <2>3. r \in 0 .. r /\ i \in 0 .. r
    BY <1>2
  <2>4. J[r][H(i - 1) + k] = J[i][H(i - 1) + k]
    BY <1>3, <2>2, <2>3
  <2> QED
    BY <1>4, <2>1, <2>3, <2>4
<1>10. ASSUME NEW p \in 1 .. H(r)
       PROVE  \E i \in 1 .. r : /\ H(i - 1) < p /\ p <= H(i)
                                /\ HttpScript(r)[p] = RequestPieces(i)[p - H(i - 1)]
  <2>1. r \in 0 .. r
    BY <1>2
  <2>2. p \in 1 .. Len(J[r])
    BY <1>4, <2>1
  <2>3. PICK i \in 1 .. r : /\ Len(J[i - 1]) < p /\ p <= Len(J[i])
                            /\ J[r][p] = R[i][p - Len(J[i - 1])]
    BY <1>3, <2>2
  <2> QED
    BY <1>4, <1>6, <2>1, <2>3
<1>11. \A n \in 0 .. r : HttpScript(n) \in Seq(Pieces) /\ H(n) \in Nat
  BY <1>3, <1>4
<1> QED
  BY <1>5, <1>7, <1>8, <1>9, <1>10, <1>11 DEF r

Long(j) == 4 + world.frames[j].ext + world.frames[j].pay
V(j) == Len(WsScript(j))

LEMMA FramesLie ==
  ASSUME world \in World
  PROVE  /\ \A n \in 0 .. Frames : WsScript(n) \in Seq(Pieces) /\ V(n) \in Nat
         /\ V(0) = 0
         /\ \A i \in 1 .. Frames : V(i) = V(i - 1) + Long(i)
         /\ \A n \in 0 .. Frames : \A m \in 0 .. n : V(m) <= V(n)
         /\ \A i \in 1 .. Frames : \A k \in 1 .. Long(i) :
              WsScript(Frames)[V(i - 1) + k] = FramePieces(i)[k]
         /\ \A p \in 1 .. V(Frames) : \E i \in 1 .. Frames :
              /\ V(i - 1) < p /\ p <= V(i)
              /\ WsScript(Frames)[p] = FramePieces(i)[p - V(i - 1)]
<1> DEFINE r == Frames
           J == [n \in 0 .. r |-> WsScript(n)]
<1>1. PICK R \in Seq(Seq(Pieces)) :
           /\ Len(R) = r /\ \A i \in 1 .. r : R[i] = FramePieces(i)
           /\ \A n \in 0 .. r : WsScript(n) = FlattenSeq(SubSeq(R, 1, n))
  BY FramesJoined
<1>2. r \in Nat /\ \A n \in 0 .. r : J[n] = WsScript(n) /\ J[n] = FlattenSeq(SubSeq(R, 1, n))
  BY <1>1, WorldTyped
<1> HIDE DEF J, r
<1>3. /\ \A n \in 0 .. r : J[n] \in Seq(Pieces)
      /\ J[0] = <<>>
      /\ \A n \in 1 .. r : J[n] = J[n - 1] \o R[n]
      /\ \A n \in 0 .. r : \A m \in 0 .. n :
           Len(J[m]) <= Len(J[n]) /\ \A p \in 1 .. Len(J[m]) : J[n][p] = J[m][p]
      /\ \A p \in 1 .. Len(J[r]) : \E i \in 1 .. r :
           /\ Len(J[i - 1]) < p /\ p <= Len(J[i])
           /\ J[r][p] = R[i][p - Len(J[i - 1])]
  <2>1. r \in Nat /\ r = Len(R) /\ \A n \in 0 .. r : J[n] = FlattenSeq(SubSeq(R, 1, n))
    BY <1>1, <1>2
  <2>2. J \in [0 .. r -> Seq(Pieces)]
    <3>1. \A n \in 0 .. r : FlattenSeq(SubSeq(R, 1, n)) \in Seq(Pieces)
      BY <2>1, FlattenGrows
    <3>2. J = [n \in 0 .. r |-> WsScript(n)] /\ \A n \in 0 .. r : WsScript(n) \in Seq(Pieces)
      BY <1>2, <2>1, <3>1 DEF J
    <3> QED
      BY <3>2
  <2>3. AreBlocks(Pieces, R, r, J)
    <3> HIDE DEF Pieces
    <3>1. R \in Seq(Seq(Pieces))
      BY <1>1
    <3> QED
      BY <2>1, <2>2, <3>1, Blocks
  <2> QED
    BY <2>3 DEF AreBlocks
<1>4. ASSUME NEW n \in 0 .. r PROVE Len(J[n]) = V(n) /\ V(n) \in Nat /\ J[n] = WsScript(n)
  <2> DEFINE a == J[n]
  <2>1. a \in Seq(Pieces) /\ a = WsScript(n)
    BY <1>2, <1>3
  <2> HIDE DEF a
  <2> QED
    BY <2>1 DEF V, a
<1>5. V(0) = 0
  BY <1>2, <1>3, <1>4
<1>6. ASSUME NEW i \in 1 .. r
      PROVE  /\ i \in 0 .. r /\ i - 1 \in 0 .. r /\ R[i] = FramePieces(i)
             /\ R[i] \in Seq(Pieces) /\ Len(R[i]) = Long(i)
  BY <1>1, <1>2, FrameIs DEF r, Long
<1>7. ASSUME NEW i \in 1 .. r
      PROVE  /\ V(i) = V(i - 1) + Long(i)
             /\ \A k \in 1 .. Long(i) : J[i][V(i - 1) + k] = R[i][k]
             /\ Long(i) \in Nat
  <2> DEFINE a == J[i - 1]
             b == R[i]
             n == Long(i)
  <2>1. /\ a \in Seq(Pieces) /\ b \in Seq(Pieces) /\ J[i] = a \o b /\ Len(b) = n
        /\ V(i - 1) = Len(a) /\ V(i) = Len(a \o b) /\ n \in Nat
    <3>1. i \in 0 .. r /\ i - 1 \in 0 .. r /\ a \in Seq(Pieces) /\ b \in Seq(Pieces) /\ J[i] = a \o b
      BY <1>3, <1>6
    <3>2. V(i - 1) = Len(a) /\ V(i) = Len(J[i])
      BY <1>4, <3>1
    <3>3. Len(b) = n /\ Len(b) \in Nat
      <4>1. Len(b) = n
        BY <1>6
      <4> HIDE DEF b
      <4> QED
        BY <3>1, <4>1
    <3> QED
      BY <3>1, <3>2, <3>3
  <2> HIDE DEF a, b, n
  <2>2. /\ Len(a \o b) = Len(a) + Len(b) /\ Len(a) \in Nat
        /\ \A k \in 1 .. Len(b) : (a \o b)[Len(a) + k] = b[k]
    <3>1. a \in Seq(Pieces) /\ b \in Seq(Pieces)
      BY <2>1
    <3> QED
      BY <3>1, ConcatIs
  <2>3. Len(a) + Len(b) = Len(a) + n
    BY <2>1, <2>2
  <2>4. V(i) = V(i - 1) + n /\ \A k \in 1 .. n : J[i][V(i - 1) + k] = b[k]
    BY <2>1, <2>2, <2>3
  <2> QED
    BY <2>1, <2>4 DEF b, n
<1>8. ASSUME NEW n \in 0 .. r, NEW m \in 0 .. n PROVE V(m) <= V(n)
  <2>1. m \in 0 .. r
    BY <1>2
  <2>2. Len(J[m]) <= Len(J[n])
    BY <1>3
  <2> QED
    BY <1>4, <2>1, <2>2
<1>9. ASSUME NEW i \in 1 .. r, NEW k \in 1 .. Long(i)
      PROVE  WsScript(r)[V(i - 1) + k] = FramePieces(i)[k]
  <2>1. J[i][V(i - 1) + k] = FramePieces(i)[k]
    BY <1>6, <1>7
  <2>2. V(i - 1) + k \in 1 .. Len(J[i])
    <3> DEFINE n == Long(i)
               h == V(i - 1)
    <3>1. n \in Nat /\ h \in Nat /\ Len(J[i]) = h + n /\ k \in 1 .. n
      BY <1>4, <1>6, <1>7
    <3> HIDE DEF n, h
    <3>2. h + k \in 1 .. Len(J[i])
      BY <3>1
    <3> QED
      BY <3>2 DEF h
  <2>3. r \in 0 .. r /\ i \in 0 .. r
    BY <1>2
  <2>4. J[r][V(i - 1) + k] = J[i][V(i - 1) + k]
    BY <1>3, <2>2, <2>3
  <2> QED
    BY <1>4, <2>1, <2>3, <2>4
<1>10. ASSUME NEW p \in 1 .. V(r)
       PROVE  \E i \in 1 .. r : /\ V(i - 1) < p /\ p <= V(i)
                                /\ WsScript(r)[p] = FramePieces(i)[p - V(i - 1)]
  <2>1. r \in 0 .. r
    BY <1>2
  <2>2. p \in 1 .. Len(J[r])
    BY <1>4, <2>1
  <2>3. PICK i \in 1 .. r : /\ Len(J[i - 1]) < p /\ p <= Len(J[i])
                            /\ J[r][p] = R[i][p - Len(J[i - 1])]
    BY <1>3, <2>2
  <2> QED
    BY <1>4, <1>6, <2>1, <2>3
<1>11. \A n \in 0 .. r : WsScript(n) \in Seq(Pieces) /\ V(n) \in Nat
  BY <1>3, <1>4
<1> QED
  BY <1>5, <1>7, <1>8, <1>9, <1>10, <1>11 DEF r


(* All of it: requests, then frames.  The end of a header is found where a *)
(* request has it, and nowhere else.                                       *)
LEMMA ScriptLies ==
  ASSUME world \in World
  PROVE  /\ Script \in Seq(Pieces) /\ Len(Script) = Mark(Frames) /\ Mark(0) = H(Requests)
         /\ H(Requests) \in Nat /\ H(Requests) <= Len(Script)
         /\ \A j \in 0 .. Frames : Mark(j) \in Nat /\ Mark(j) <= Len(Script)
         /\ \A j \in 1 .. Frames : Mark(j) = Mark(j - 1) + Long(j)
         /\ \A i \in 1 .. Requests : \A k \in 1 .. 2 + world.reqs[i].body :
              Script[H(i - 1) + k] = RequestPieces(i)[k]
         /\ \A j \in 1 .. Frames : \A k \in 1 .. Long(j) :
              Script[Mark(j - 1) + k] = FramePieces(j)[k]
         /\ \A p \in 1 .. Len(Script) :
              EndsHead(Script[p]) => \E i \in 1 .. Requests : p = H(i - 1) + 2 /\ Script[p][1] = i
<1> DEFINE a == HttpScript(Requests)
           b == WsScript(Frames)
           h == H(Requests)
<1>1. Requests \in Nat \ {0} /\ Frames \in Nat
  BY WorldTyped
<1>2. /\ a \in Seq(Pieces) /\ b \in Seq(Pieces) /\ Len(a) = h /\ Len(b) = V(Frames) /\ h \in Nat
      /\ V(Frames) \in Nat
  <2>1. Requests \in 0 .. Requests /\ Frames \in 0 .. Frames
    BY <1>1
  <2> QED
    BY <2>1, RequestsLie, FramesLie DEF H, V
<1>3. Script = a \o b
  BY DEF Script, Frames
<1>4. /\ Script \in Seq(Pieces) /\ Len(Script) = h + V(Frames)
      /\ \A k \in 1 .. h : Script[k] = a[k]
      /\ \A k \in 1 .. V(Frames) : Script[h + k] = b[k]
      /\ \A k \in 1 .. Len(Script) : k > h => Script[k] = b[k - h]
  <2> HIDE DEF a, b, h
  <2>1. a \in Seq(Pieces) /\ b \in Seq(Pieces)
    BY <1>2
  <2>2. /\ a \o b \in Seq(Pieces) /\ Len(a) \in Nat /\ Len(b) \in Nat /\ Len(a \o b) = Len(a) + Len(b)
        /\ \A k \in 1 .. Len(a) : (a \o b)[k] = a[k]
        /\ \A k \in 1 .. Len(b) : (a \o b)[Len(a) + k] = b[k]
        /\ \A k \in 1 .. Len(a \o b) : k > Len(a) => (a \o b)[k] = b[k - Len(a)]
    BY <2>1, ConcatIs
  <2> QED
    BY <1>2, <1>3, <2>2
<1>5. \A j \in 0 .. Frames : Mark(j) = h + V(j) /\ V(j) \in Nat
  BY FramesLie DEF Mark, V
<1>6. Len(Script) = Mark(Frames) /\ Mark(0) = h /\ h <= Len(Script)
  <2>1. V(0) = 0 /\ Frames \in 0 .. Frames /\ 0 \in 0 .. Frames
    BY <1>1, FramesLie
  <2> HIDE DEF h
  <2> QED
    BY <1>2, <1>4, <1>5, <2>1
<1>7. ASSUME NEW j \in 0 .. Frames PROVE Mark(j) \in Nat /\ Mark(j) <= Len(Script)
  <2>1. V(j) <= V(Frames)
    BY <1>1, FramesLie
  <2> HIDE DEF h
  <2> QED
    BY <1>2, <1>4, <1>5, <2>1
<1>8. ASSUME NEW j \in 1 .. Frames PROVE Mark(j) = Mark(j - 1) + Long(j)
  <2>1. V(j) = V(j - 1) + Long(j) /\ j \in 0 .. Frames /\ j - 1 \in 0 .. Frames
    BY <1>1, FramesLie
  <2>2. Long(j) \in Nat
    BY FrameIs DEF Long
  <2> HIDE DEF h
  <2> QED
    BY <1>2, <1>5, <2>1, <2>2
<1>9. ASSUME NEW i \in 1 .. Requests, NEW k \in 1 .. 2 + world.reqs[i].body
      PROVE  Script[H(i - 1) + k] = RequestPieces(i)[k]
  <2>1. a[H(i - 1) + k] = RequestPieces(i)[k]
    BY RequestsLie
  <2>2. H(i - 1) + k \in 1 .. h
    <3> DEFINE n == world.reqs[i].body
    <3>1. /\ H(i) = H(i - 1) + 2 + n /\ n \in Nat /\ H(i) <= h /\ H(i - 1) \in Nat
      <4>1. i \in 0 .. Requests /\ i - 1 \in 0 .. Requests /\ i \in 0 .. Requests /\ Requests \in 0 .. Requests
        BY <1>1
      <4> QED
        BY <4>1, RequestsLie, WorldTyped
    <3> HIDE DEF n, h
    <3>2. k \in 1 .. 2 + n
      BY DEF n
    <3> QED
      BY <1>2, <3>1, <3>2
  <2> QED
    BY <1>4, <2>1, <2>2
<1>10. ASSUME NEW j \in 1 .. Frames, NEW k \in 1 .. Long(j)
       PROVE  Script[Mark(j - 1) + k] = FramePieces(j)[k]
  <2>1. b[V(j - 1) + k] = FramePieces(j)[k]
    BY FramesLie
  <2>2. V(j - 1) + k \in 1 .. V(Frames) /\ Mark(j - 1) + k = h + (V(j - 1) + k)
    <3>1. j \in 0 .. Frames /\ j - 1 \in 0 .. Frames /\ Frames \in 0 .. Frames
      BY <1>1
    <3>2. V(j) = V(j - 1) + Long(j) /\ V(j) <= V(Frames)
      BY <3>1, FramesLie
    <3>3. Long(j) \in Nat
      BY FrameIs DEF Long
    <3> DEFINE u == V(j - 1)
               v == V(j)
               w == V(Frames)
               l == Long(j)
               m == Mark(j - 1)
    <3>4. u \in Nat /\ w \in Nat /\ l \in Nat /\ v = u + l /\ v <= w /\ h \in Nat /\ m = h + u
          /\ k \in 1 .. l
      BY <1>2, <1>5, <3>1, <3>2, <3>3
    <3> HIDE DEF h, u, v, w, l, m
    <3>5. u + k \in 1 .. w /\ m + k = h + (u + k)
      BY <3>4
    <3> QED
      BY <3>5 DEF u, w, m
  <2> HIDE DEF b, h
  <2> QED
    BY <1>4, <2>1, <2>2
<1>11. ASSUME NEW p \in 1 .. Len(Script), EndsHead(Script[p])
       PROVE  \E i \in 1 .. Requests : p = H(i - 1) + 2 /\ Script[p][1] = i
  <2>1. CASE p <= h
    <3>1. p \in 1 .. H(Requests) /\ Script[p] = a[p]
      <4>1. p \in 1 .. h
        BY <1>2, <2>1
      <4> QED
        BY <1>4, <4>1
    <3>2. PICK i \in 1 .. Requests : /\ H(i - 1) < p /\ p <= H(i)
                                     /\ a[p] = RequestPieces(i)[p - H(i - 1)]
      BY <3>1, RequestsLie
    <3> DEFINE k == p - H(i - 1)
               n == world.reqs[i].body
    <3>3. k \in 1 .. Len(RequestPieces(i))
      <4>1. H(i) = H(i - 1) + 2 + n /\ n \in Nat /\ H(i - 1) \in Nat /\ Len(RequestPieces(i)) = 2 + n
        <5>1. i - 1 \in 0 .. Requests
          BY <1>1
        <5> QED
          BY <5>1, RequestsLie, WorldTyped, RequestIs
      <4> HIDE DEF n
      <4> QED
        BY <1>2, <1>4, <3>2, <4>1
    <3>4. Script[p] = IF k <= 2 THEN <<i, "head", k>> ELSE <<i, "body", k - 2>>
      BY <3>1, <3>2, <3>3, RequestIs
    <3>5. k <= 2
      <4> HIDE DEF k
      <4> QED
        BY <1>11, <3>4 DEF EndsHead
    <3>6. Script[p] = <<i, "head", k>>
      BY <3>4, <3>5
    <3>7. k = 2 /\ Script[p][1] = i
      <4> HIDE DEF k
      <4> QED
        BY <1>11, <3>6 DEF EndsHead, HeadLen
    <3>8. p = H(i - 1) + 2
      <4>1. H(i - 1) \in Nat /\ p \in Nat
        <5>1. i - 1 \in 0 .. Requests
          BY <1>1
        <5> QED
          BY <5>1, RequestsLie
      <4> QED
        BY <3>7, <4>1
    <3> QED
      BY <3>7, <3>8
  <2>2. CASE p > h
    <3>1. p - h \in 1 .. V(Frames) /\ Script[p] = b[p - h]
      <4> HIDE DEF h, b
      <4> QED
        BY <1>2, <1>4, <2>2
    <3>2. PICK j \in 1 .. Frames : /\ V(j - 1) < p - h /\ p - h <= V(j)
                                   /\ b[p - h] = FramePieces(j)[p - h - V(j - 1)]
      BY <3>1, FramesLie
    <3>3. p - h - V(j - 1) \in 1 .. Len(FramePieces(j))
      <4>1. V(j) = V(j - 1) + Long(j) /\ V(j - 1) \in Nat /\ Len(FramePieces(j)) = Long(j)
            /\ Long(j) \in Nat
        <5>1. j - 1 \in 0 .. Frames
          BY <1>1
        <5> QED
          BY <5>1, FramesLie, FrameIs DEF Long
      <4> HIDE DEF h, b
      <4> QED
        BY <1>2, <3>1, <3>2, <4>1
    <3>4. Script[p][2] # "head"
      BY <3>1, <3>2, <3>3, FrameIs
    <3> QED
      BY <1>11, <3>4 DEF EndsHead
  <2> QED
    BY <1>2, <1>4, <2>1, <2>2
<1> QED
  BY <1>2, <1>4, <1>6, <1>7, <1>8, <1>9, <1>10, <1>11


(***************************************************************************)
(* The invariants.                                                         *)
(***************************************************************************)

Replies == Nat \X {"file", "fcgi", "page", "101"} \X Nat
Session == [state : {"detect", "headers", "body", "handle", "fcgi", "send", "ws"},
            buf : Seq(Pieces), cap : Nat, req : Nat, uri : {"none", "buffer", "route", "wild"},
            header_sent : BOOLEAN, remaining : Nat, file : Nat]
Receiver == [state : Parts, hdr : Seq(Pieces), ext : Seq(Pieces), mask : Seq(Pieces),
             pay : Seq(Pieces), as : Nat]

Asking    == {"detect", "headers"}
Answering == {"body", "handle", "fcgi", "send"}

(* What came and was not read yet; what was read, and what of it before the *)
(* buffer.                                                                  *)
Unread == pending \o FlattenSeq(net)
Taken  == sent - Len(Unread)
Base   == Taken - Len(sess.buf)

SessionOK(s, fs) ==
  /\ s \in Session /\ s.req <= Requests /\ s.remaining <= FileSize /\ Len(s.buf) <= s.cap
  /\ fs = IF s.file = 0 THEN {} ELSE {s.file}
  /\ s.state \in Answering => s.req # 0
  /\ s.file # 0 => s.state = "send"
  /\ s.state \in {"detect", "ws"} => s.buf = <<>>
  /\ Without({"grown"}) => s.uri # "wild"

ReceiverOK(r) == r \in Receiver /\ r.as <= Frames /\ (r.state # "hdr" => r.as # 0)

(* The types of TypeOK and of what it leaves out, and what goes with a      *)
(* state of the session or of the receiver.                                *)
TypeInv ==
  /\ world \in World
  /\ pc \in {"parked", "run", "closed"} /\ rearm \in {0, 2, 3}
  /\ SessionOK(sess, files)
  /\ ReceiverOK(recv) /\ delivered \in Seq(Seq(Pieces))
  /\ sess.state # "ws" => recv = NoFrame /\ delivered = <<>>
  /\ net \in Seq(Seq(Pieces)) /\ pending \in Seq(Pieces)
  /\ ~world.tls => pending = <<>>
  /\ sent \in 0 .. Len(Script) /\ left \in BOOLEAN
  /\ wire \in Seq(Replies)

(* Nothing is lost, doubled or turned round on the way to the buffer.      *)
Flow ==
  /\ Taken >= 0 /\ Unread = SubSeq(Script, Taken + 1, sent)
  /\ pc # "closed" /\ sess.state # "ws" =>
       Base >= 0 /\ sess.buf = SubSeq(Script, Base + 1, Taken)

(* A request that was answered lies before the buffer; the one being       *)
(* answered was not answered before.                                       *)
Order ==
  pc # "closed" =>
    /\ sess.state \in Asking =>
         \A k \in DOMAIN wire : wire[k][1] \in 1 .. Requests /\ H(wire[k][1] - 1) + 2 <= Base
    /\ sess.state \in Answering =>
         /\ HeaderEnd(sess.buf) > 0 /\ Base + HeaderEnd(sess.buf) = H(sess.req - 1) + 2
         /\ \A k \in DOMAIN wire : /\ wire[k][1] \in 1 .. sess.req
                                   /\ wire[k][1] = sess.req => sess.state = "send"
         /\ sess.state # "body" => ~BodyMissing

(* The client waits for the answer, unless it does not.                    *)
Waits(i) == IF i = Requests THEN ~Can("early") ELSE ~Can("pipelined")
Limit == \A i \in 1 .. Requests : ~Answered(i) /\ Waits(i) => sent <= H(i)

(* A connection that was closed has no request.                            *)
Ended == pc = "closed" => sess.state \in {"detect", "ws"}

FlowInv == Flow /\ Order /\ Limit /\ Ended

(* The buffer begins with a request and has nothing of the next one.       *)
RequestInv ==
  Without({"undeclared", "pipelined"}) /\ pc # "closed" =>
    /\ sess.state \in Asking => (\E k \in 0 .. Requests - 1 : Base = H(k)) \/ Base >= H(Requests)
    /\ sess.state \in Answering =>
         Base = H(sess.req - 1) /\ (sess.req < Requests => Taken <= H(sess.req))

(* What was written, w, ends with the answer of the k-th request.          *)
Done(w, k) ==
  IF w = <<>> THEN k = 0
  ELSE w[Len(w)][1] = k /\ w[Len(w)][3] = Size(w[Len(w)][2])

Whole(w) ==
  /\ w # <<>> => w[1][1] = 1 /\ w[1][3] = 1
  /\ \A k \in 1 .. Len(w) - 1 : Follows(w[k], w[k + 1])

(* A session that asks, with its buffer from b on, has answered what came   *)
(* before; one that answers has answered all before and of its own request *)
(* what it has sent of the file.                                           *)
SoFar(s, w, b) ==
  /\ s.state \in Asking => \A k \in 0 .. Requests - 1 : b = H(k) => Done(w, k)
  /\ s.state \in Answering =>
       IF s.state = "send" /\ s.header_sent
       THEN w # <<>> /\ w[Len(w)] = <<s.req, "file", 1 + FileSize - s.remaining>>
       ELSE Done(w, s.req - 1) /\ (s.state = "send" => s.remaining = FileSize)

Sound == Without({"pipelined", "undeclared", "backend", "shrunk"})

AnswerInv == Sound => Whole(wire) /\ (pc # "closed" => SoFar(sess, wire, Base))

(* How far the frame being received is; d were dispatched.                 *)
Filled(r, d) ==
  /\ r.state = "hdr" => Len(r.hdr) < 2 /\ r.ext = <<>> /\ r.mask = <<>> /\ r.pay = <<>>
  /\ r.state # "hdr" => d < Frames /\ r.as = d + 1 /\ Len(r.hdr) = 2
  /\ r.state = "ext" => Len(r.ext) < Announced(r).ext /\ r.mask = <<>> /\ r.pay = <<>>
  /\ r.state = "mask" => Len(r.ext) = Announced(r).ext /\ Len(r.mask) < 2 /\ r.pay = <<>>
  /\ r.state = "pay" => /\ Len(r.ext) = Announced(r).ext /\ Len(r.mask) = 2
                        /\ Len(r.pay) < Announced(r).pay

Ordered(ds) == \A k \in 1 .. Len(ds) : k <= Frames /\ ds[k] = FramePieces(k)

(* After d frames the receiver r has the next of the client's bytes, up to t. *)
InStep(r, d, t) ==
  /\ d <= Frames /\ Filled(r, d)
  /\ t = Mark(d) + Len(Bytes(r))
  /\ Bytes(r) = SubSeq(Script, Mark(d) + 1, t)

FrameInv ==
  Without({"early", "undeclared"}) =>
    /\ Ordered(delivered)
    /\ pc # "closed" /\ sess.state = "ws" => InStep(recv, Len(delivered), Taken)


(* Nothing that is said of the client's script changes. *)
LEMMA Steady ==
  ASSUME world' = world
  PROVE  /\ Script' = Script /\ Requests' = Requests /\ Frames' = Frames
         /\ \A i : H(i)' = H(i)
         /\ \A i : Mark(i)' = Mark(i)
         /\ \A i : FramePieces(i)' = FramePieces(i)
         /\ \A fs : Without(fs)' = Without(fs)
<1>1. \A i : RequestPieces(i)' = RequestPieces(i)
  BY DEF RequestPieces, Part
<1>2. \A i : FramePieces(i)' = FramePieces(i)
  BY DEF FramePieces, Part
<1>3. \A n : HttpScript(n)' = HttpScript(n)
  BY <1>1 DEF HttpScript
<1>4. \A n : WsScript(n)' = WsScript(n)
  BY <1>2 DEF WsScript
<1>5. Requests' = Requests /\ Frames' = Frames /\ Len(world.frames)' = Len(world.frames)
  BY DEF Requests, Frames
<1>6. Script' = Script
  BY <1>3, <1>4, <1>5 DEF Script
<1>7. \A i : H(i)' = H(i)
  BY <1>3 DEF H
<1>8. \A i : Mark(i)' = Mark(i)
  BY <1>4, <1>5, <1>7 DEF Mark
<1> QED
  BY <1>2, <1>5, <1>6, <1>7, <1>8 DEF Without

LEMMA TypeJoin ==
  ASSUME world' = world, world \in World,
         pc' \in {"parked", "run", "closed"}, rearm' \in {0, 2, 3},
         SessionOK(sess', files'), ReceiverOK(recv'), delivered' \in Seq(Seq(Pieces)),
         sess'.state # "ws" => recv' = NoFrame /\ delivered' = <<>>,
         net' \in Seq(Seq(Pieces)), pending' \in Seq(Pieces), ~world.tls => pending' = <<>>,
         sent' \in 0 .. Len(Script), left' \in BOOLEAN, wire' \in Seq(Replies)
  PROVE  TypeInv'
<1>1. SessionOK(sess, files)'
  BY Steady DEF SessionOK
<1>2. ReceiverOK(recv)'
  BY Steady DEF ReceiverOK
<1>3. Script' = Script
  BY Steady
<1> QED
  BY <1>1, <1>2, <1>3 DEF TypeInv, NoFrame

LEMMA TypeInit == Init => TypeInv
<1> SUFFICES ASSUME Init PROVE TypeInv
  OBVIOUS
<1>1. SessionOK(sess, files)
  BY Sizes, WorldTyped DEF Init, HttpInit, SessionOK, Session, NewSession, Answering
<1>2. ReceiverOK(recv)
  BY WorldTyped DEF Init, HttpInit, ReceiverOK, Receiver, NoFrame, Parts
<1>3. sent \in 0 .. Len(Script)
  BY ScriptLies DEF Init, HttpInit
<1>4. /\ world \in World /\ pc = "parked" /\ rearm = 2 /\ left = FALSE /\ recv = NoFrame
      /\ net = <<>> /\ pending = <<>> /\ wire = <<>> /\ delivered = <<>>
  BY DEF Init, HttpInit
<1>5. net \in Seq(Seq(Pieces)) /\ pending \in Seq(Pieces) /\ wire \in Seq(Replies)
      /\ delivered \in Seq(Seq(Pieces))
  <2> HIDE DEF Pieces, Replies
  <2>1. \A S : <<>> \in Seq(S)
    OBVIOUS
  <2> QED
    BY <1>4, <2>1
<1>6. /\ pc \in {"parked", "run", "closed"} /\ rearm \in {0, 2, 3} /\ left \in BOOLEAN
      /\ (~world.tls => pending = <<>>)
      /\ (sess.state # "ws" => recv = NoFrame /\ delivered = <<>>)
  BY <1>4
<1> QED
  <2> HIDE DEF SessionOK, ReceiverOK, Script
  <2> QED
    BY <1>1, <1>2, <1>3, <1>4, <1>5, <1>6 DEF TypeInv

LEMMA TypeProvides ==
  ASSUME TypeInv
  PROVE  TypeOK
BY WorldTyped DEF TypeInv, TypeOK, SessionOK, Session, ReceiverOK, Receiver, Frames


(***************************************************************************)
(* Reading.                                                                *)
(***************************************************************************)

(* A part of a sequence as its elements. *)
LEMMA Slice ==
  ASSUME NEW L, NEW s \in Seq(L), NEW m \in Nat, NEW n \in Nat, n <= Len(s)
  PROVE  /\ SubSeq(s, m + 1, n) \in Seq(L)
         /\ Len(SubSeq(s, m + 1, n)) = IF m <= n THEN n - m ELSE 0
         /\ \A i \in 1 .. n - m : SubSeq(s, m + 1, n)[i] = s[m + i]
<1> DEFINE k == m + 1
<1>1. k \in Int /\ n \in Int /\ \A i \in k .. n : s[i] \in L
  OBVIOUS
<1>2. k = m + 1
  OBVIOUS
<1> HIDE DEF k
<1>3. /\ SubSeq(s, k, n) \in Seq(L)
      /\ Len(SubSeq(s, k, n)) = IF k <= n THEN n - k + 1 ELSE 0
      /\ \A i \in 1 .. n - k + 1 : SubSeq(s, k, n)[i] = s[k + i - 1]
  BY <1>1, SubSeqProperties
<1>4. Len(SubSeq(s, k, n)) = IF m <= n THEN n - m ELSE 0
  BY <1>2, <1>3
<1>5. ASSUME NEW i \in 1 .. n - m PROVE SubSeq(s, k, n)[i] = s[m + i]
  <2>1. i \in 1 .. n - k + 1 /\ k + i - 1 = m + i
    BY <1>2
  <2> QED
    BY <1>3, <2>1
<1> QED
  BY <1>3, <1>4, <1>5 DEF k

(* Two parts that meet. *)
LEMMA SlicesMeet ==
  ASSUME NEW L, NEW s \in Seq(L), NEW a \in Nat, NEW b \in Nat, NEW c \in Nat,
         a <= b, b <= c, c <= Len(s)
  PROVE  SubSeq(s, a + 1, b) \o SubSeq(s, b + 1, c) = SubSeq(s, a + 1, c)
<1> DEFINE x == SubSeq(s, a + 1, b)
           y == SubSeq(s, b + 1, c)
           z == SubSeq(s, a + 1, c)
<1>1. x \in Seq(L) /\ Len(x) = b - a /\ \A i \in 1 .. b - a : x[i] = s[a + i]
  BY Slice
<1>2. y \in Seq(L) /\ Len(y) = c - b /\ \A i \in 1 .. c - b : y[i] = s[b + i]
  BY Slice
<1>3. z \in Seq(L) /\ Len(z) = c - a /\ \A i \in 1 .. c - a : z[i] = s[a + i]
  BY Slice
<1> HIDE DEF x, y, z
<1>4. /\ x \o y \in Seq(L) /\ Len(x \o y) = Len(x) + Len(y)
      /\ \A k \in 1 .. Len(x) : (x \o y)[k] = x[k]
      /\ \A k \in 1 .. Len(x \o y) : k > Len(x) => (x \o y)[k] = y[k - Len(x)]
  <2>1. x \in Seq(L) /\ y \in Seq(L)
    BY <1>1, <1>2
  <2> QED
    BY <2>1, ConcatIs
<1>5. Len(x \o y) = Len(z)
  BY <1>1, <1>2, <1>3, <1>4
<1>6. ASSUME NEW k \in 1 .. Len(x \o y) PROVE (x \o y)[k] = z[k]
  <2>0. k \in 1 .. c - a
    BY <1>1, <1>2, <1>4
  <2>1. CASE k <= b - a
    <3>1. k \in 1 .. Len(x) /\ k \in 1 .. b - a
      BY <1>1, <2>0, <2>1
    <3> QED
      BY <1>1, <1>3, <1>4, <2>0, <3>1
  <2>2. CASE k > b - a
    <3>1. k - (b - a) \in 1 .. c - b /\ b + (k - (b - a)) = a + k /\ k > Len(x)
      BY <1>1, <2>0, <2>2
    <3>2. (x \o y)[k] = y[k - (b - a)]
      BY <1>1, <1>4, <3>1
    <3>3. y[k - (b - a)] = s[a + k]
      BY <1>2, <3>1
    <3> QED
      BY <1>3, <2>0, <3>2, <3>3
  <2> QED
    BY <2>0, <2>1, <2>2
<1>7. x \o y = z
  BY <1>3, <1>4, <1>5, <1>6, SeqEqual
<1> QED
  BY <1>7 DEF x, y, z

(* What is cut off the front of a part of s, and what is left: m elements   *)
(* of r, with which the part from a to b begins.                           *)
FrontOf(L, s, r, t, a, b, m) ==
  /\ SubSeq(r, 1, m) \in Seq(L) /\ Len(SubSeq(r, 1, m)) = m /\ a + m <= b
  /\ SubSeq(r, 1, m) = SubSeq(s, a + 1, a + m)
  /\ SubSeq(r, m + 1, Len(r)) \in Seq(L)
  /\ SubSeq(r, m + 1, Len(r)) \o t = SubSeq(s, a + m + 1, b)
  /\ Len(SubSeq(r, m + 1, Len(r)) \o t) = b - (a + m)

LEMMA Cut ==
  ASSUME NEW L, NEW s \in Seq(L), NEW r \in Seq(L), NEW t \in Seq(L),
         NEW a \in Nat, NEW b \in Nat, NEW m \in Nat, a <= b, b <= Len(s), m <= Len(r)
  PROVE  r \o t = SubSeq(s, a + 1, b) => FrontOf(L, s, r, t, a, b, m)
<1>0. /\ Len(r \o t) = Len(r) + Len(t) /\ Len(t) \in Nat
      /\ \A k \in 1 .. Len(r) : (r \o t)[k] = r[k]
      /\ \A k \in 1 .. Len(t) : (r \o t)[Len(r) + k] = t[k]
  BY ConcatIs
<1> HAVE r \o t = SubSeq(s, a + 1, b)
<1> DEFINE n == Len(r)
           x == SubSeq(r, 1, m)
           y == SubSeq(r, m + 1, n)
           u == SubSeq(s, a + 1, b)
<1>1. n \in Nat /\ m <= n
  OBVIOUS
<1>2. x \in Seq(L) /\ Len(x) = m /\ \A i \in 1 .. m : x[i] = r[i]
  <2> DEFINE z == 0
  <2>1. z \in Nat /\ z = 0 /\ z + 1 = 1 /\ m - z = m /\ \A i \in 1 .. m : z + i = i
    OBVIOUS
  <2> HIDE DEF z
  <2>2. /\ SubSeq(r, z + 1, m) \in Seq(L)
        /\ Len(SubSeq(r, z + 1, m)) = IF z <= m THEN m - z ELSE 0
        /\ \A i \in 1 .. m - z : SubSeq(r, z + 1, m)[i] = r[z + i]
    BY <1>1, <2>1, Slice
  <2> QED
    BY <2>1, <2>2
<1>3. y \in Seq(L) /\ Len(y) = n - m /\ \A i \in 1 .. n - m : y[i] = r[m + i]
  <2> HIDE DEF n
  <2>1. n <= Len(r)
    BY DEF n
  <2> QED
    BY <1>1, <2>1, Slice
<1>4. u \in Seq(L) /\ Len(u) = b - a /\ \A i \in 1 .. b - a : u[i] = s[a + i]
  BY Slice
<1>5. /\ Len(r \o t) = n + Len(t) /\ Len(t) \in Nat
      /\ \A k \in 1 .. n : (r \o t)[k] = r[k]
      /\ \A k \in 1 .. Len(t) : (r \o t)[n + k] = t[k]
  BY <1>0
<1>6. n + Len(t) = b - a /\ a + m \in Nat /\ a + m <= b
  <2>1. Len(r \o t) = b - a
    BY <1>4
  <2>2. Len(r \o t) = n + Len(t) /\ Len(t) \in Nat
    BY <1>5
  <2> DEFINE j == Len(t)
             l == Len(r \o t)
  <2>3. l = b - a /\ l = n + j /\ j \in Nat
    BY <2>1, <2>2
  <2> HIDE DEF u, n, j, l
  <2>4. n + j = b - a /\ a + m \in Nat /\ a + m <= b
    BY <1>1, <2>3
  <2> QED
    BY <2>4 DEF j
<1> DEFINE c == a + m
           v == SubSeq(s, a + 1, c)
           w == SubSeq(s, c + 1, b)
<1>7. v \in Seq(L) /\ Len(v) = m /\ \A i \in 1 .. m : v[i] = s[a + i]
  <2>1. c \in Nat /\ c <= Len(s) /\ c - a = m /\ a <= c
    BY <1>6
  <2> HIDE DEF c
  <2>2. /\ v \in Seq(L) /\ Len(v) = (IF a <= c THEN c - a ELSE 0)
        /\ \A i \in 1 .. c - a : v[i] = s[a + i]
    BY <2>1, Slice
  <2> QED
    BY <2>1, <2>2
<1>8. w \in Seq(L) /\ Len(w) = b - c /\ \A i \in 1 .. b - c : w[i] = s[c + i]
  <2>1. c \in Nat /\ c <= b
    BY <1>6
  <2> HIDE DEF c
  <2> QED
    BY <2>1, Slice
<1> HIDE DEF u, v, w, x, y
<1>9. x = v
  <2>1. ASSUME NEW i \in 1 .. m PROVE x[i] = v[i]
    <3>1. i \in 1 .. n /\ i \in 1 .. b - a
      BY <1>1, <1>6, <1>5
    <3> QED
      BY <1>2, <1>4, <1>5, <1>7, <3>1 DEF u
  <2> QED
    BY <1>2, <1>7, <2>1, SeqEqual
<1>10. /\ y \o t \in Seq(L) /\ Len(y \o t) = Len(y) + Len(t)
       /\ \A k \in 1 .. Len(y) : (y \o t)[k] = y[k]
       /\ \A k \in 1 .. Len(y \o t) : k > Len(y) => (y \o t)[k] = t[k - Len(y)]
  BY <1>3, ConcatIs
<1>11. Len(y \o t) = b - c
  <2> HIDE DEF n
  <2> QED
    BY <1>1, <1>3, <1>5, <1>6, <1>10
<1>12. ASSUME NEW k \in 1 .. Len(y \o t) PROVE (y \o t)[k] = w[k]
  <2>0. k \in 1 .. b - c /\ m + k \in 1 .. b - a /\ a + (m + k) = c + k
    BY <1>6, <1>11
  <2>1. w[k] = u[m + k]
    BY <1>4, <1>8, <2>0
  <2>2. CASE k <= n - m
    <3>1. k \in 1 .. Len(y) /\ k \in 1 .. n - m /\ m + k \in 1 .. n
      <4> HIDE DEF n, c
      <4> QED
        BY <1>1, <1>3, <2>0, <2>2
    <3> HIDE DEF n, c
    <3>2. (y \o t)[k] = r[m + k]
      BY <1>3, <1>10, <3>1
    <3> QED
      BY <1>5, <2>1, <3>1, <3>2 DEF u
  <2>3. CASE k > n - m
    <3>1. k - (n - m) \in 1 .. Len(t) /\ n + (k - (n - m)) = m + k /\ k > Len(y)
      <4> HIDE DEF n, c
      <4> QED
        BY <1>1, <1>3, <1>5, <1>10, <2>0, <2>3
    <3> HIDE DEF n, c
    <3>2. (y \o t)[k] = t[k - (n - m)]
      BY <1>3, <1>10, <3>1
    <3>3. (r \o t)[m + k] = t[k - (n - m)]
      BY <1>5, <3>1
    <3> QED
      BY <2>1, <3>2, <3>3 DEF u
  <2>4. k <= n - m \/ k > n - m
    <3> DEFINE e == b - c
    <3>1. n \in Nat /\ m \in Nat /\ k \in 1 .. e
      BY <1>1, <2>0
    <3> HIDE DEF n, e
    <3>2. k \in Nat /\ n - m \in Int
      BY <3>1
    <3> QED
      BY <3>2
  <2> QED
    BY <2>2, <2>3, <2>4
<1>13. y \o t = w
  BY <1>8, <1>10, <1>11, <1>12, SeqEqual
<1> QED
  BY <1>2, <1>3, <1>6, <1>9, <1>11, <1>13 DEF x, y, v, w, FrontOf

(* Everything that came is a sequence of pieces. *)
LEMMA UnreadTyped ==
  ASSUME TypeInv
  PROVE  /\ FlattenSeq(net) \in Seq(Pieces) /\ Unread \in Seq(Pieces) /\ Len(Unread) \in Nat
         /\ Taken \in Int /\ Readable \in Seq(Pieces)
<1>1. net \in Seq(Seq(Pieces)) /\ pending \in Seq(Pieces) /\ sent \in Nat /\ world.tls \in BOOLEAN
  BY ScriptLies, WorldTyped DEF TypeInv
<1> HIDE DEF Pieces
<1>2. FlattenSeq(net) \in Seq(Pieces)
  BY <1>1, FlattenTyped
<1>3. Unread \in Seq(Pieces) /\ Len(Unread) \in Nat
  BY <1>1, <1>2, ConcatIs DEF Unread
<1>4. Taken \in Int
  <2> DEFINE u == Len(Unread)
  <2> HIDE DEF u
  <2> QED
    BY <1>1, <1>3 DEF Taken, u
<1>5. net # <<>> => Head(net) \in Seq(Pieces)
  BY <1>1
<1> QED
  BY <1>1, <1>2, <1>3, <1>4, <1>5 DEF Readable

(* Where what recv takes comes from: the front of what was not read. *)
LEMMA RecvSplits ==
  ASSUME TypeInv, NEW room \in Int, Recv(room)
  PROVE  LET rest == SubSeq(Readable, Len(Took(room)) + 1, Len(Readable))
         IN  rest \in Seq(Pieces) =>
             \E tail \in Seq(Pieces) :
               /\ Unread = Readable \o tail /\ Unread' = rest \o tail
               /\ net' \in Seq(Seq(Pieces)) /\ pending' \in Seq(Pieces)
               /\ ~world.tls => pending' = <<>>
<1> DEFINE rest == SubSeq(Readable, Len(Took(room)) + 1, Len(Readable))
<1> SUFFICES ASSUME rest \in Seq(Pieces)
             PROVE  \E tail \in Seq(Pieces) :
                      /\ Unread = Readable \o tail /\ Unread' = rest \o tail
                      /\ net' \in Seq(Seq(Pieces)) /\ pending' \in Seq(Pieces)
                      /\ ~world.tls => pending' = <<>>
  OBVIOUS
<1>1. /\ Took(room) # <<>>
      /\ pending' = IF world.tls THEN rest ELSE <<>>
      /\ net' = IF ~world.tls THEN IF rest = <<>> THEN <<>> ELSE <<rest>>
                ELSE IF pending = <<>> THEN Tail(net) ELSE net
  BY DEF Recv
<1>2. /\ net \in Seq(Seq(Pieces)) /\ pending \in Seq(Pieces) /\ world.tls \in BOOLEAN
      /\ ~world.tls => pending = <<>>
  BY WorldTyped DEF TypeInv
<1>3. FlattenSeq(net) \in Seq(Pieces) /\ Readable \in Seq(Pieces)
  BY UnreadTyped
<1>4. \A S : <<>> \in Seq(S) /\ \A x \in Seq(S) : <<>> \o x = x /\ x \o <<>> = x /\ <<x>> \in Seq(Seq(S))
  OBVIOUS
<1>5. CASE ~world.tls
  <2> HIDE DEF rest, Pieces
  <2>1. Readable = FlattenSeq(net) /\ Unread = <<>> \o FlattenSeq(net)
    BY <1>2, <1>5 DEF Readable, Unread
  <2>2. Unread = Readable \o <<>>
    BY <1>3, <1>4, <2>1
  <2>3. pending' = <<>> /\ FlattenSeq(net)' = rest /\ net' \in Seq(Seq(Pieces))
    <3>1. CASE rest = <<>>
      BY <1>1, <1>4, <1>5, <3>1, FlattenNone
    <3>2. CASE rest # <<>>
      BY <1>1, <1>4, <1>5, <3>2, FlattenOne
    <3> QED
      BY <3>1, <3>2
  <2>4. Unread' = rest \o <<>>
    BY <1>4, <2>3 DEF Unread
  <2> QED
    BY <1>4, <2>2, <2>3, <2>4
<1>6. CASE world.tls /\ pending # <<>>
  <2> HIDE DEF rest, Pieces
  <2>1. Readable = pending /\ pending' = rest /\ net' = net
    BY <1>1, <1>6 DEF Readable
  <2>2. Unread = Readable \o FlattenSeq(net) /\ Unread' = rest \o FlattenSeq(net)
    BY <2>1 DEF Unread
  <2> QED
    BY <1>2, <1>3, <1>6, <2>1, <2>2
<1>7. CASE world.tls /\ pending = <<>>
  <2>1. net # <<>>
    <3> SUFFICES ASSUME net = <<>> PROVE FALSE
      OBVIOUS
    <3>1. Readable = <<>>
      BY <1>7 DEF Readable
    <3>2. Took(room) = <<>>
      BY <3>1 DEF Took
    <3> QED
      BY <1>1, <3>2
  <2> HIDE DEF rest, Pieces
  <2>2. Readable = Head(net) /\ pending' = rest /\ net' = Tail(net)
    BY <1>1, <1>7, <2>1 DEF Readable
  <2>3. /\ Tail(net) \in Seq(Seq(Pieces)) /\ FlattenSeq(net) = Head(net) \o FlattenSeq(Tail(net))
        /\ FlattenSeq(Tail(net)) \in Seq(Pieces)
    <3>1. /\ Tail(net) \in Seq(Seq(Pieces))
          /\ FlattenSeq(net) = Head(net) \o FlattenSeq(Tail(net))
      BY <1>2, <2>1, FlattenHead
    <3> QED
      BY <3>1, FlattenTyped
  <2>4. Unread = FlattenSeq(net)
    BY <1>3, <1>4, <1>7 DEF Unread
  <2>5. Unread = Readable \o FlattenSeq(Tail(net)) /\ Unread' = rest \o FlattenSeq(Tail(net))
    BY <2>2, <2>3, <2>4 DEF Unread
  <2> QED
    BY <1>7, <2>2, <2>3, <2>5
<1> QED
  BY <1>2, <1>5, <1>6, <1>7

(* Recv gives at least one piece, and what it gives and leaves is typed. *)
LEMMA RecvTypes ==
  ASSUME TypeInv, NEW room \in Int, Recv(room)
  PROVE  /\ Took(room) \in Seq(Pieces) /\ Len(Took(room)) \in 1 .. room
         /\ Len(Took(room)) <= Len(Readable)
         /\ Took(room) = SubSeq(Readable, 1, Len(Took(room)))
         /\ SubSeq(Readable, Len(Took(room)) + 1, Len(Readable)) \in Seq(Pieces)
         /\ net' \in Seq(Seq(Pieces)) /\ pending' \in Seq(Pieces)
         /\ ~world.tls => pending' = <<>>
<1> DEFINE r == Readable
           l == Len(r)
           m == IF l < room THEN l ELSE room
           t == SubSeq(r, 1, m)
<1>1. r \in Seq(Pieces) /\ l \in Nat
  BY UnreadTyped
<1>2. t # <<>> /\ Took(room) = t
  BY DEF Recv, Took
<1> HIDE DEF r
<1>3. m \in Int /\ m <= l /\ m <= room
  BY <1>1
<1>4. m \in Nat /\ m >= 1
  <2> SUFFICES ASSUME m < 1 PROVE FALSE
    BY <1>3
  <2> DEFINE one == 1
  <2>1. one \in Int /\ m < one
    BY <1>3
  <2> HIDE DEF one, m
  <2>2. SubSeq(r, one, m) = <<>>
    BY <1>3, <2>1, SubSeqEmpty
  <2> QED
    BY <1>2, <2>2 DEF one
<1> HIDE DEF m
<1>5. t \in Seq(Pieces) /\ Len(t) = m
  <2> DEFINE z == 0
  <2>1. z \in Nat /\ z + 1 = 1 /\ z <= m /\ m - z = m /\ m \in Nat /\ m <= Len(r)
    BY <1>3, <1>4
  <2> HIDE DEF z, Pieces
  <2>2. /\ SubSeq(r, z + 1, m) \in Seq(Pieces)
        /\ Len(SubSeq(r, z + 1, m)) = IF z <= m THEN m - z ELSE 0
    BY <1>1, <2>1, Slice
  <2> QED
    BY <2>1, <2>2
<1>6. SubSeq(r, m + 1, l) \in Seq(Pieces)
  <2>1. m \in Nat /\ l \in Nat /\ l <= Len(r)
    BY <1>1, <1>4
  <2> HIDE DEF l, Pieces
  <2> QED
    BY <1>1, <2>1, Slice
<1> HIDE DEF t
<1>7. /\ Took(room) \in Seq(Pieces) /\ Len(Took(room)) = m /\ m \in 1 .. room /\ m <= Len(Readable)
      /\ SubSeq(Readable, Len(Took(room)) + 1, Len(Readable)) \in Seq(Pieces)
      /\ Took(room) = SubSeq(Readable, 1, m)
  <2>1. m \in 1 .. room
    BY <1>3, <1>4
  <2> QED
    BY <1>2, <1>3, <1>5, <1>6, <2>1 DEF r, t
<1>8. net' \in Seq(Seq(Pieces)) /\ pending' \in Seq(Pieces) /\ (~world.tls => pending' = <<>>)
  BY <1>7, RecvSplits
<1> QED
  BY <1>7, <1>8

(* What it gives is the next of the client's script. *)
LEMMA RecvTakes ==
  ASSUME TypeInv, NEW room \in Int, Recv(room), world' = world, sent' = sent,
         Taken >= 0, Unread = SubSeq(Script, Taken + 1, sent)
  PROVE  /\ Taken' = Taken + Len(Took(room)) /\ Taken' <= sent
         /\ Took(room) = SubSeq(Script, Taken + 1, Taken')
         /\ Unread' = SubSeq(Script, Taken' + 1, sent)
<1> DEFINE r == Readable
           m == Len(Took(room))
           rest == SubSeq(r, m + 1, Len(r))
           a == Taken
           b == sent
<1>1. /\ Took(room) \in Seq(Pieces) /\ m \in 1 .. room /\ m \in Nat /\ m <= Len(r)
      /\ Took(room) = SubSeq(r, 1, m) /\ rest \in Seq(Pieces) /\ r \in Seq(Pieces)
  BY RecvTypes, UnreadTyped
<1>2. PICK tail \in Seq(Pieces) : Unread = r \o tail /\ Unread' = rest \o tail
  BY <1>1, RecvSplits
<1>3. a \in Nat /\ b \in Nat /\ b <= Len(Script) /\ Script \in Seq(Pieces)
  BY UnreadTyped, ScriptLies DEF TypeInv
<1>4. a <= b
  BY <1>3, UnreadTyped DEF Taken
<1> HIDE DEF r, m, a, b, Pieces
<1>5. r \o tail = SubSeq(Script, a + 1, b)
  BY <1>2 DEF a, b
<1>6. /\ a + m <= b
      /\ SubSeq(r, 1, m) = SubSeq(Script, a + 1, a + m)
      /\ rest \o tail = SubSeq(Script, a + m + 1, b)
      /\ Len(rest \o tail) = b - (a + m)
  <2>1. m \in Nat /\ m <= Len(r) /\ r \in Seq(Pieces)
    BY <1>1
  <2> DEFINE S == Script
  <2>2. S \in Seq(Pieces) /\ b <= Len(S) /\ r \o tail = SubSeq(S, a + 1, b)
    BY <1>3, <1>5
  <2> HIDE DEF S
  <2>3. S \in Seq(Pieces) /\ r \in Seq(Pieces) /\ tail \in Seq(Pieces) /\ a \in Nat /\ b \in Nat
        /\ m \in Nat /\ a <= b /\ b <= Len(S) /\ m <= Len(r)
    BY <1>3, <1>4, <2>1, <2>2
  <2>4. r \o tail = SubSeq(S, a + 1, b) => FrontOf(Pieces, S, r, tail, a, b, m)
    BY <2>3, Cut
  <2> QED
    BY <2>2, <2>4 DEF S, FrontOf
<1>7. Taken' = a + m
  <2> DEFINE l == Len(Unread')
  <2>1. l = b - (a + m)
    BY <1>2, <1>6
  <2>2. Taken' = b - l
    BY DEF Taken, b
  <2> HIDE DEF l
  <2> QED
    BY <1>1, <1>3, <2>1, <2>2
<1> HIDE DEF rest
<1>8. Took(room) = SubSeq(Script, a + 1, a + m) /\ Unread' = SubSeq(Script, a + m + 1, b)
  BY <1>1, <1>2, <1>6
<1> QED
  BY <1>6, <1>7, <1>8 DEF a, b, m


(***************************************************************************)
(* The end of a header.                                                    *)
(***************************************************************************)

(* It is the first piece that ends one. *)
LEMMA HeaderEndIs ==
  ASSUME NEW b \in Seq(Pieces)
  PROVE  /\ HeaderEnd(b) \in 0 .. Len(b)
         /\ HeaderEnd(b) > 0 => EndsHead(b[HeaderEnd(b)])
         /\ \A k \in 1 .. Len(b) : EndsHead(b[k]) => HeaderEnd(b) > 0 /\ HeaderEnd(b) <= k
<1> DEFINE I == {i \in 1 .. Len(b) : EndsHead(b[i])}
<1>1. Len(b) \in Nat
  OBVIOUS
<1>2. HeaderEnd(b) = IF I # {} THEN Min(I) ELSE 0
  BY DEF HeaderEnd, SelectInSeq
<1>3. CASE I = {}
  <2>1. HeaderEnd(b) = 0
    BY <1>2, <1>3
  <2> QED
    BY <1>1, <1>3, <2>1
<1>4. CASE I # {}
  <2>1. I \in SUBSET Nat
    OBVIOUS
  <2>2. HeaderEnd(b) = Min(I)
    BY <1>2, <1>4
  <2>3. Min(I) \in I /\ \A k \in I : Min(I) <= k
    <3> HIDE DEF I
    <3>1. \E x \in I : \A y \in I : x <= y
      BY <1>4, <2>1, LeastNumber
    <3> QED
      BY <3>1 DEF Min
  <2> DEFINE h == HeaderEnd(b)
  <2>4. h \in I /\ \A k \in I : h <= k
    BY <2>2, <2>3
  <2> HIDE DEF h
  <2>5. h \in 1 .. Len(b) /\ EndsHead(b[h]) /\ \A k \in 1 .. Len(b) : EndsHead(b[k]) => h <= k
    BY <2>4
  <2>6. h \in 0 .. Len(b) /\ h > 0
    BY <1>1, <2>5
  <2> QED
    BY <2>5, <2>6 DEF h
<1> QED
  BY <1>3, <1>4

(* More does not move it. *)
LEMMA HeaderStays ==
  ASSUME NEW b \in Seq(Pieces), NEW t \in Seq(Pieces), HeaderEnd(b) > 0
  PROVE  HeaderEnd(b \o t) = HeaderEnd(b)
<1> DEFINE h == HeaderEnd(b)
           c == b \o t
           g == HeaderEnd(c)
<1>1. /\ c \in Seq(Pieces) /\ Len(c) = Len(b) + Len(t) /\ Len(b) \in Nat /\ Len(t) \in Nat
      /\ \A k \in 1 .. Len(b) : c[k] = b[k]
  <2> HIDE DEF Pieces
  <2> QED
    BY ConcatIs
<1> HIDE DEF c, Pieces
<1>2. h \in 1 .. Len(b) /\ EndsHead(b[h]) /\ \A k \in 1 .. Len(b) : EndsHead(b[k]) => h <= k
  <2>1. /\ h \in 0 .. Len(b) /\ h > 0 /\ EndsHead(b[h])
        /\ \A k \in 1 .. Len(b) : EndsHead(b[k]) => h <= k
    BY HeaderEndIs
  <2> HIDE DEF h
  <2> QED
    BY <1>1, <2>1
<1> HIDE DEF h
<1>3. h \in 1 .. Len(c) /\ EndsHead(c[h])
  BY <1>1, <1>2
<1>4. g \in 0 .. Len(c) /\ g > 0 /\ g <= h /\ EndsHead(c[g])
  BY <1>1, <1>3, HeaderEndIs
<1> HIDE DEF g
<1>5. g \in 1 .. Len(b) /\ EndsHead(b[g])
  BY <1>1, <1>2, <1>4
<1>6. g = h
  BY <1>1, <1>2, <1>4, <1>5
<1> QED
  BY <1>6 DEF c, g, h

(* In a part of the script it ends the header of a request: the first there *)
(* if the part begins where a request does.                                 *)
LEMMA HeaderPlace ==
  ASSUME world \in World, NEW base \in Nat, NEW top \in Nat, NEW b \in Seq(Pieces),
         base <= top, top <= Len(Script), b = SubSeq(Script, base + 1, top), HeaderEnd(b) > 0
  PROVE  /\ b[HeaderEnd(b)][1] \in 1 .. Requests
         /\ base + HeaderEnd(b) = H(b[HeaderEnd(b)][1] - 1) + 2
         /\ Len(b) = top - base
         /\ \A k \in 0 .. Requests - 1 : base = H(k) => b[HeaderEnd(b)][1] = k + 1
         /\ H(b[HeaderEnd(b)][1] - 1) \in Nat
<1> DEFINE h == HeaderEnd(b)
           i == b[h][1]
           S == Script
<1>1. Script \in Seq(Pieces) /\ Len(Script) \in Nat
  BY ScriptLies DEF Mark
<1>2. Len(b) = top - base /\ \A k \in 1 .. top - base : b[k] = S[base + k]
  <2>1. S \in Seq(Pieces) /\ top <= Len(S) /\ b = SubSeq(S, base + 1, top)
    BY <1>1
  <2> HIDE DEF S, Pieces
  <2> QED
    BY <2>1, Slice
<1>3. h \in 1 .. top - base /\ EndsHead(b[h]) /\ \A k \in 1 .. top - base : EndsHead(b[k]) => h <= k
  <2>1. /\ h \in 0 .. Len(b) /\ h > 0 /\ EndsHead(b[h])
        /\ \A k \in 1 .. Len(b) : EndsHead(b[k]) => h <= k
    BY HeaderEndIs
  <2>2. Len(b) = top - base
    BY <1>2
  <2> DEFINE n == Len(b)
  <2>3. h \in 0 .. n /\ h > 0 /\ n = top - base
    BY <2>1, <2>2
  <2> HIDE DEF h, n
  <2>4. h \in 1 .. top - base
    BY <2>3
  <2> QED
    BY <2>1, <2>2, <2>4
<1> HIDE DEF h
<1>4. b[h] = S[base + h] /\ base + h \in 1 .. Len(S)
  BY <1>1, <1>2, <1>3
<1>5. PICK j \in 1 .. Requests : base + h = H(j - 1) + 2 /\ S[base + h][1] = j
  <2> DEFINE p == base + h
  <2> HIDE DEF p
  <2>1. p \in 1 .. Len(Script) /\ EndsHead(Script[p])
    BY <1>3, <1>4 DEF p
  <2>2. \E j \in 1 .. Requests : p = H(j - 1) + 2 /\ Script[p][1] = j
    BY <2>1, ScriptLies
  <2> QED
    BY <2>2 DEF p
<1>6. i = j
  BY <1>4, <1>5
<1>7. Requests \in Nat /\ \A n \in 0 .. Requests : H(n) \in Nat
  BY WorldTyped, RequestsLie
<1>8. ASSUME NEW k \in 0 .. Requests - 1, base = H(k) PROVE j = k + 1
  <2>1. H(j) = H(j - 1) + 2 + world.reqs[j].body /\ world.reqs[j].body \in Nat
    BY RequestsLie, WorldTyped
  <2>2. j - 1 \in 0 .. Requests /\ j \in 0 .. Requests /\ k \in 0 .. Requests /\ k + 1 \in 1 .. Requests
        /\ k + 1 \in 0 .. Requests /\ (k + 1) - 1 = k
    BY <1>7
  <2>3. H(j - 1) \in Nat /\ H(j) \in Nat /\ H(k) \in Nat /\ H(k + 1) \in Nat
    BY <1>7, <2>2
  <2> DEFINE hj == H(j)
             hp == H(j - 1)
             hk == H(k)
             hn == H(k + 1)
             bj == world.reqs[j].body
             bk == world.reqs[k + 1].body
  <2>4. H(k + 1) = H(k) + 2 + world.reqs[k + 1].body /\ world.reqs[k + 1].body \in Nat
    BY <2>2, RequestsLie, WorldTyped
  <2>7. /\ hj \in Nat /\ hp \in Nat /\ hk \in Nat /\ hn \in Nat /\ bj \in Nat /\ bk \in Nat
        /\ hj = hp + 2 + bj /\ hn = hk + 2 + bk /\ base = hk /\ base + h = hp + 2
        /\ h \in Int /\ 1 <= h /\ h <= top - base
    <3>1. h \in Int /\ 1 <= h /\ h <= top - base
      <4>1. h \in 1 .. top - base
        BY <1>3
      <4> QED
        BY <4>1
    <3>2. hj \in Nat /\ hp \in Nat /\ hk \in Nat /\ hn \in Nat /\ bj \in Nat /\ bk \in Nat
      BY <2>1, <2>3, <2>4
    <3>3. hj = hp + 2 + bj /\ hn = hk + 2 + bk
      BY <2>1, <2>4
    <3>4. base = hk
      BY <1>8
    <3>5. base + h = hp + 2
      BY <1>5
    <3> HIDE DEF hj, hp, hk, hn, bj, bk
    <3> QED
      BY <3>1, <3>2, <3>3, <3>4, <3>5
  <2>5. ~ (j <= k)
    <3> SUFFICES ASSUME j <= k PROVE FALSE
      OBVIOUS
    <3>1. H(j) <= H(k)
      BY <2>2, RequestsLie
    <3>2. hj <= hk
      BY <3>1
    <3> HIDE DEF hj, hp, hk, hn, bj, bk
    <3> QED
      BY <2>7, <3>2
  <2>6. ~ (k + 1 <= j - 1)
    <3> SUFFICES ASSUME k + 1 <= j - 1 PROVE FALSE
      OBVIOUS
    <3>1. H(k + 1) <= H(j - 1)
      <4>1. k + 1 \in 0 .. j - 1
        BY <2>2
      <4> QED
        BY <2>2, <4>1, RequestsLie
    <3>2. h > 2 /\ 2 \in 1 .. top - base
      <4>1. hn <= hp
        BY <3>1
      <4> HIDE DEF hj, hp, hk, hn, bj, bk
      <4> QED
        BY <2>7, <4>1
    <3>3. Script[H((k + 1) - 1) + 2] = RequestPieces(k + 1)[2] /\ RequestPieces(k + 1)[2] = <<k + 1, "head", 2>>
      <4>1. 2 \in 1 .. 2 + world.reqs[k + 1].body
        BY <2>4
      <4>2. Script[H((k + 1) - 1) + 2] = RequestPieces(k + 1)[2]
        BY <2>2, <4>1, ScriptLies
      <4>3. Len(RequestPieces(k + 1)) = 2 + world.reqs[k + 1].body
        BY <2>2, RequestIs
      <4>4. 2 \in 1 .. Len(RequestPieces(k + 1))
        BY <4>1, <4>3
      <4> DEFINE n == k + 1
                 two == 2
      <4>6. n \in 1 .. Requests /\ two \in 1 .. Len(RequestPieces(n)) /\ two <= 2 /\ two = 2
        BY <2>2, <4>4
      <4> HIDE DEF n, two
      <4>7. RequestPieces(n)[two] = IF two <= 2 THEN <<n, "head", two>> ELSE <<n, "body", two - 2>>
        BY <4>6, RequestIs
      <4>5. RequestPieces(n)[2] = <<n, "head", 2>>
        BY <4>6, <4>7
      <4> QED
        BY <4>2, <4>5 DEF n
    <3>4. EndsHead(b[2])
      <4>1. b[2] = Script[base + 2]
        BY <1>2, <3>2
      <4>2. b[2] = <<k + 1, "head", 2>>
        BY <1>8, <2>2, <3>3, <4>1
      <4>3. <<k + 1, "head", 2>>[2] = "head" /\ <<k + 1, "head", 2>>[3] = 2
        OBVIOUS
      <4> QED
        BY <4>2, <4>3 DEF EndsHead, HeadLen
    <3> QED
      BY <1>3, <3>2, <3>4
  <2> QED
    BY <1>7, <2>2, <2>5, <2>6
<1>9. H(j - 1) \in Nat
  BY <1>7
<1> QED
  BY <1>2, <1>5, <1>6, <1>8, <1>9 DEF h


(***************************************************************************)
(* What a step may do to the history and the types.                        *)
(***************************************************************************)

LEMMA ReplyIs ==
  ASSUME NEW i \in Nat, NEW p \in {"file", "fcgi", "page", "101"}, NEW n \in Nat
  PROVE  /\ Part(i, p, n) \in Seq(Replies) /\ Len(Part(i, p, n)) = n
         /\ \A k \in 1 .. n : Part(i, p, n)[k] = <<i, p, k>>
BY DEF Part, Replies

LEMMA AppendIs ==
  ASSUME NEW r \in Replies
  PROVE  Append(wire, r) = wire \o <<r>> /\ <<r>> \in Seq(Replies)
BY DEF Replies

LEMMA Fields ==
  ASSUME TypeInv
  PROVE  /\ world \in World /\ sess \in Session /\ sess.req \in 0 .. Requests /\ sess.req \in Nat
         /\ sess.state \in {"detect", "headers", "body", "handle", "fcgi", "send", "ws"}
         /\ sess.buf \in Seq(Pieces) /\ sess.cap \in Nat /\ Len(sess.buf) \in Nat
         /\ Len(sess.buf) <= sess.cap /\ Room \in Nat
         /\ sess.header_sent \in BOOLEAN /\ sess.remaining \in 0 .. FileSize /\ sess.file \in Nat
         /\ wire \in Seq(Replies) /\ sent \in Nat /\ sent <= Len(Script)
         /\ Requests \in Nat \ {0}
<1>1. /\ world \in World /\ sess \in Session /\ sess.req <= Requests /\ sess.remaining <= FileSize
      /\ Len(sess.buf) <= sess.cap /\ wire \in Seq(Replies) /\ sent \in 0 .. Len(Script)
  BY DEF TypeInv, SessionOK
<1>2. /\ sess.state \in {"detect", "headers", "body", "handle", "fcgi", "send", "ws"}
      /\ sess.buf \in Seq(Pieces) /\ sess.cap \in Nat /\ sess.req \in Nat
      /\ sess.header_sent \in BOOLEAN /\ sess.remaining \in Nat /\ sess.file \in Nat
  <2> HIDE DEF Pieces
  <2> QED
    BY <1>1 DEF Session
<1>3. Requests \in Nat \ {0} /\ FileSize \in Nat
  BY <1>1, WorldTyped, Sizes
<1>4. sess.req \in 0 .. Requests /\ sess.remaining \in 0 .. FileSize
  BY <1>1, <1>2, <1>3
<1>5. Len(sess.buf) \in Nat
  <2> HIDE DEF Pieces
  <2> QED
    BY <1>2
<1>6. Room \in Nat
  <2> DEFINE c == sess.cap
             l == Len(sess.buf)
  <2>1. c \in Nat /\ l \in Nat /\ l <= c
    BY <1>1, <1>2, <1>5
  <2> HIDE DEF c, l
  <2>2. c - l \in Nat
    BY <2>1
  <2> QED
    BY <2>2 DEF Room, c, l
<1>7. sent \in Nat /\ sent <= Len(Script)
  BY <1>1, ScriptLies
<1> QED
  BY <1>1, <1>2, <1>3, <1>4, <1>5, <1>6, <1>7

(* Reading gives the session a buffer of pieces. *)
LEMMA BufferIs ==
  ASSUME TypeInv, Recv(Room)
  PROVE  /\ sess.buf \o Took(Room) \in Seq(Pieces)
         /\ Len(sess.buf \o Took(Room)) = Len(sess.buf) + Len(Took(Room))
         /\ Len(Took(Room)) \in Nat \ {0}
         /\ Len(sess.buf \o Took(Room)) <= sess.cap
<1>1. /\ sess.buf \in Seq(Pieces) /\ sess.cap \in Nat /\ Len(sess.buf) \in Nat /\ Room \in Nat
  BY Fields
<1>2. Took(Room) \in Seq(Pieces) /\ Len(Took(Room)) \in 1 .. Room
  BY <1>1, RecvTypes
<1> DEFINE x == sess.buf
           y == Took(Room)
           c == sess.cap
           l == Len(x)
           m == Len(y)
<1>3. x \o y \in Seq(Pieces) /\ Len(x \o y) = Len(x) + Len(y)
  <2>1. x \in Seq(Pieces) /\ y \in Seq(Pieces)
    BY <1>1, <1>2
  <2> HIDE DEF x, y, Pieces
  <2> QED
    BY <2>1, ConcatIs
<1>4. m \in Nat \ {0} /\ l + m <= c
  <2>1. l \in Nat /\ c \in Nat /\ m \in 1 .. (c - l)
    BY <1>1, <1>2 DEF Room
  <2> HIDE DEF l, m, c
  <2> QED
    BY <2>1
<1> QED
  BY <1>3, <1>4

(* What is written of a page: nothing, or its beginning. *)
LEMMA PageOutIs ==
  ASSUME NEW i \in Nat, NEW w \in PageOut(i), wire \in Seq(Replies)
  PROVE  w = wire \/ \E n \in 1 .. 2 : w = wire \o Part(i, "page", n)
<1> DEFINE ns == IF Can("full") THEN 0 .. 2 ELSE {2}
<1>1. w \in {wire \o Part(i, "page", n) : n \in ns}
  BY DEF PageOut
<1>2. PICK n \in ns : w = wire \o Part(i, "page", n)
  BY <1>1, Zenon
<1>3. n = 0 \/ n \in 1 .. 2
  OBVIOUS
<1>4. Part(i, "page", 0) = <<>>
  BY DEF Part
<1>5. wire \o <<>> = wire
  <2> HIDE DEF Replies
  <2> QED
    BY ConcatEmptySeq
<1> QED
  BY <1>2, <1>3, <1>4, <1>5

LEMMA WorldStays ==
  ASSUME Next
  PROVE  world' = world
BY DEF Next, WsStep, WsRetries, WsEnds, Receive, WsQuiet, HttpStep, ClientStep, ClientLeaves,
       ClientSends, Reports, Quiet, Read, Detect, DetectRetries, Grow, ReadHeaders, ReadBody,
       BodyComplete, ReadRetries, ReadEnds, Handle, HandleUpgrade, HandleFcgi, HandlePage,
       HandleNoAccess, HandleFile, Respond, FcgiCompletes, FcgiFails, SendRetries, SendFails,
       SendShrunk, SendDone, SendSome

LEMMA WireGrows ==
  ASSUME TypeInv, Next
  PROVE  \E x \in Seq(Replies) : wire' = wire \o x
<1>1. wire \in Seq(Replies) /\ sess.req \in Nat /\ FileSize \in Nat
  BY Fields, Sizes
<1>2. <<>> \in Seq(Replies) /\ wire = wire \o <<>>
  <2> HIDE DEF Replies
  <2> QED
    BY <1>1
<1>3. ASSUME wire' = wire PROVE \E x \in Seq(Replies) : wire' = wire \o x
  BY <1>2, <1>3
<1>4. ASSUME NEW i \in Nat, \E w \in PageOut(i) : wire' = w
      PROVE  \E x \in Seq(Replies) : wire' = wire \o x
  <2>1. wire' = wire \/ \E n \in 1 .. 2 : wire' = wire \o Part(i, "page", n)
    BY <1>1, <1>4, PageOutIs
  <2>2. ASSUME NEW n \in 1 .. 2 PROVE Part(i, "page", n) \in Seq(Replies)
    <3>1. n \in Nat
      OBVIOUS
    <3> QED
      BY <3>1, ReplyIs
  <2> QED
    BY <1>3, <2>1, <2>2
<1>5. CASE ReadHeaders
  <2> DEFINE b == sess.buf \o Took(Room)
             h == HeaderEnd(b)
  <2>1. b \in Seq(Pieces)
    BY <1>5, BufferIs DEF ReadHeaders
  <2>2. h > 0 => b[h][1] \in Nat
    <3> HIDE DEF b
    <3>1. h \in 0 .. Len(b) /\ Len(b) \in Nat
      BY <2>1, HeaderEndIs
    <3>2. h > 0 => h \in 1 .. Len(b)
      BY <3>1
    <3>3. h > 0 => b[h] \in Pieces
      <4> HIDE DEF Pieces, h
      <4> QED
        BY <2>1, <3>2
    <3> QED
      BY <3>3 DEF Pieces
  <2>3. \/ wire' = wire
        \/ h > 0 /\ \E w \in PageOut(b[h][1]) : wire' = w
    BY <1>5 DEF ReadHeaders, Parse
  <2> HIDE DEF b, h
  <2> QED
    BY <1>3, <1>4, <2>2, <2>3
<1>6. CASE HandleUpgrade
  <2>1. <<sess.req, "101", 1>> \in Replies
    BY <1>1 DEF Replies
  <2>2. wire' = wire \/ wire' = wire \o <<<<sess.req, "101", 1>>>>
    BY <1>6, <2>1, AppendIs DEF HandleUpgrade
  <2> QED
    BY <1>3, <2>1, <2>2, AppendIs
<1>7. CASE HandlePage
  BY <1>1, <1>4, <1>7 DEF HandlePage
<1>8. CASE FcgiCompletes
  BY <1>1, <1>8, ReplyIs DEF FcgiCompletes
<1>9. CASE FcgiFails
  <2>1. PICK n \in 0 .. 1 :
          wire' = wire \o Part(sess.req, "fcgi", n)
                       \o (IF sess.header_sent THEN <<>> ELSE Part(sess.req, "page", 2))
    BY <1>9 DEF FcgiFails
  <2> DEFINE x == Part(sess.req, "fcgi", n)
             y == IF sess.header_sent THEN <<>> ELSE Part(sess.req, "page", 2)
  <2>2. x \in Seq(Replies)
    <3>1. n \in Nat
      OBVIOUS
    <3> QED
      BY <1>1, <3>1, ReplyIs
  <2>3. y \in Seq(Replies)
    BY <1>1, <1>2, ReplyIs
  <2> HIDE DEF x, y, Replies
  <2>4. x \o y \in Seq(Replies) /\ (wire \o x) \o y = wire \o (x \o y)
    BY <1>1, <2>2, <2>3, ConcatAssociative
  <2> QED
    BY <2>1, <2>4 DEF x, y
<1>10. CASE \E n \in 1 .. 1 + FileSize : SendSome(n)
  <2>1. PICK n \in 1 .. 1 + FileSize : SendSome(n)
    BY <1>10
  <2> DEFINE first == 1 + FileSize - Unsent
             x == [k \in 1 .. n |-> <<sess.req, "file", first + k>>]
  <2>2. first \in Nat
    BY Fields, Sizes DEF Unsent
  <2>3. x \in Seq(Replies)
    <3> HIDE DEF first
    <3>1. \A k \in 1 .. n : <<sess.req, "file", first + k>> \in Replies
      BY <1>1, <2>2 DEF Replies
    <3>2. n \in Nat
      BY <1>1
    <3> QED
      BY <3>1, <3>2
  <2> QED
    BY <2>1, <2>3 DEF SendSome
<1>11. CASE WsStep
  BY <1>3, <1>11 DEF WsStep, WsRetries, WsEnds, Receive, WsQuiet
<1>12. CASE ClientStep
  BY <1>3, <1>12 DEF ClientStep, ClientLeaves, ClientSends
<1>13. CASE Reports \/ Detect \/ DetectRetries \/ Grow \/ ReadBody \/ BodyComplete \/ ReadRetries \/ ReadEnds
  BY <1>3, <1>13 DEF Reports, Detect, DetectRetries, Grow, ReadBody, BodyComplete, ReadRetries,
                     ReadEnds, Quiet
<1>14. CASE HandleFcgi \/ HandleNoAccess \/ HandleFile \/ SendRetries \/ SendFails \/ SendShrunk \/ SendDone
  BY <1>3, <1>14 DEF HandleFcgi, HandleNoAccess, HandleFile, SendRetries, SendFails, SendShrunk,
                     SendDone, Quiet
<1> QED
  BY <1>5, <1>6, <1>7, <1>8, <1>9, <1>10, <1>11, <1>12, <1>13, <1>14
     DEF Next, HttpStep, Read, Handle, Respond

(* What reading adds to the buffer, and where a header in it lies. *)
LEMMA ReadIs ==
  ASSUME TypeInv, Flow, Recv(Room), pc # "closed", sess.state # "ws", world' = world, sent' = sent
  PROVE  LET b == sess.buf \o Took(Room)
             h == HeaderEnd(b)
             i == b[h][1]
         IN  /\ b \in Seq(Pieces) /\ b = SubSeq(Script, Base + 1, Taken') /\ Len(b) = Taken' - Base
             /\ Base \in Nat /\ Taken \in Nat /\ Taken' \in Nat /\ Taken < Taken' /\ Taken' <= sent
             /\ Base <= Taken
             /\ Unread' = SubSeq(Script, Taken' + 1, sent)
             /\ h > 0 => /\ i \in 1 .. Requests /\ Base + h = H(i - 1) + 2 /\ H(i - 1) \in Nat
                         /\ \A k \in 0 .. Requests - 1 : Base = H(k) => i = k + 1
<1> DEFINE b == sess.buf \o Took(Room)
           h == HeaderEnd(b)
           i == b[h][1]
           S == Script
           t == Took(Room)
           l == Len(sess.buf)
           m == Len(t)
<1>1. /\ world \in World /\ S \in Seq(Pieces) /\ Taken \in Int /\ l \in Nat
      /\ sent \in Nat /\ sent <= Len(S) /\ Room \in Int /\ sess.buf \in Seq(Pieces)
  <2>1. Room \in Int
    BY Fields
  <2> QED
    BY <2>1, Fields, UnreadTyped, ScriptLies
<1>2. /\ Taken >= 0 /\ Unread = SubSeq(S, Taken + 1, sent) /\ Base >= 0
      /\ sess.buf = SubSeq(S, Base + 1, Taken) /\ Base = Taken - l
  BY DEF Flow, Base
<1>3. /\ Taken' = Taken + m /\ Taken' <= sent /\ t = SubSeq(S, Taken + 1, Taken')
      /\ Unread' = SubSeq(S, Taken' + 1, sent)
  BY <1>1, <1>2, RecvTakes
<1>4. b \in Seq(Pieces) /\ m \in Nat \ {0} /\ Len(b) = l + m
  BY BufferIs
<1> HIDE DEF S, t, l, m
<1>5. /\ Base \in Nat /\ Taken \in Nat /\ Taken' \in Nat /\ Taken < Taken' /\ Base <= Taken
      /\ Taken' <= Len(S) /\ l + m = Taken' - Base
  BY <1>1, <1>2, <1>3, <1>4
<1>6. b = SubSeq(S, Base + 1, Taken')
  <2> DEFINE x == Base
             y == Taken
             z == Taken'
  <2>1. x \in Nat /\ y \in Nat /\ z \in Nat /\ x <= y /\ y <= z /\ z <= Len(S) /\ S \in Seq(Pieces)
    BY <1>1, <1>5
  <2> HIDE DEF x, y, z, Pieces
  <2>2. SubSeq(S, x + 1, y) \o SubSeq(S, y + 1, z) = SubSeq(S, x + 1, z)
    BY <2>1, SlicesMeet
  <2> QED
    BY <1>2, <1>3, <2>2 DEF x, y, z, t
<1>7. ASSUME h > 0
      PROVE  /\ i \in 1 .. Requests /\ Base + h = H(i - 1) + 2 /\ H(i - 1) \in Nat
             /\ \A k \in 0 .. Requests - 1 : Base = H(k) => i = k + 1
  <2> DEFINE x == Base
             z == Taken'
  <2>1. /\ world \in World /\ x \in Nat /\ z \in Nat /\ b \in Seq(Pieces) /\ x <= z
        /\ z <= Len(Script) /\ b = SubSeq(Script, x + 1, z) /\ HeaderEnd(b) > 0
    BY <1>1, <1>4, <1>5, <1>6, <1>7 DEF S
  <2> HIDE DEF x, z, b
  <2>2. /\ b[HeaderEnd(b)][1] \in 1 .. Requests
        /\ x + HeaderEnd(b) = H(b[HeaderEnd(b)][1] - 1) + 2
        /\ H(b[HeaderEnd(b)][1] - 1) \in Nat
        /\ \A k \in 0 .. Requests - 1 : x = H(k) => b[HeaderEnd(b)][1] = k + 1
    BY <2>1, HeaderPlace
  <2> QED
    BY <2>2 DEF x
<1> HIDE DEF b, h, i
<1>8. Len(b) = Taken' - Base
  BY <1>4, <1>5
<1> QED
  BY <1>1, <1>3, <1>4, <1>5, <1>6, <1>7, <1>8 DEF b, h, i, S

(* The session's fields, as the operations of the code leave them. *)
LEMMA NewOK ==
  ASSUME TypeInv
  PROVE  /\ SessionOK(NewSession, {}) /\ NewSession.state = "detect"
         /\ SessionOK([NewSession EXCEPT !.state = "ws"], {})
         /\ SessionOK(ResetSession, {}) /\ ResetSession.state = "headers"
         /\ NewSession.file = 0 /\ NewSession.req = 0 /\ NewSession.buf = <<>>
         /\ ResetSession.req = 0 /\ ResetSession.buf = <<>>
         /\ [NewSession EXCEPT !.state = "ws"].buf = <<>>
<1>1. <<>> \in Seq(Pieces)
  <2> HIDE DEF Pieces
  <2> QED
    OBVIOUS
<1> HIDE DEF Pieces
<1>2. sess.cap \in Nat /\ sess.header_sent \in BOOLEAN /\ Requests \in Nat /\ FileSize \in Nat /\ Capacity \in Nat
  BY Fields, Sizes
<1> DEFINE n == NewSession
           w == [NewSession EXCEPT !.state = "ws"]
           r == ResetSession
<1>3. n \in Session /\ n.state = "detect" /\ n.buf = <<>> /\ n.cap = Capacity /\ n.req = 0
      /\ n.uri = "none" /\ n.remaining = 0 /\ n.file = 0
  BY <1>1, <1>2 DEF NewSession, Session
<1>4. w \in Session /\ w.state = "ws" /\ w.buf = <<>> /\ w.cap = Capacity /\ w.req = 0
      /\ w.uri = "none" /\ w.remaining = 0 /\ w.file = 0
  BY <1>1, <1>2 DEF NewSession, Session
<1>5. r \in Session /\ r.state = "headers" /\ r.buf = <<>> /\ r.cap = sess.cap /\ r.req = 0
      /\ r.uri = "none" /\ r.remaining = 0 /\ r.file = 0
  BY <1>1, <1>2 DEF NewSession, ResetSession, Session
<1> HIDE DEF n, w, r
<1>6. SessionOK(n, {}) /\ SessionOK(w, {}) /\ SessionOK(r, {})
  BY <1>2, <1>3, <1>4, <1>5 DEF SessionOK, Answering
<1> QED
  BY <1>3, <1>4, <1>5, <1>6 DEF n, w, r

LEMMA FilesGone ==
  ASSUME TypeInv
  PROVE  files \ {sess.file} = {} /\ (sess.file = 0 => files = {})
BY DEF TypeInv, SessionOK

(* It is closed, or goes on to the next request. *)
LEMMA CloseOK ==
  ASSUME TypeInv, Close
  PROVE  /\ pc' = "closed" /\ rearm' = 0 /\ sess' = NewSession /\ SessionOK(sess', files')
         /\ sess'.state # "ws"
BY NewOK, FilesGone DEF Close

LEMMA NextOK ==
  ASSUME TypeInv, NextRequest
  PROVE  /\ pc' \in {"parked", "closed"} /\ rearm' \in {0, 2}
         /\ SessionOK(sess', files') /\ sess'.state # "ws"
         /\ pc' = "closed" \/ (Req.keep /\ sess' = ResetSession)
<1>1. CASE Req.keep
  BY <1>1, NewOK, FilesGone DEF NextRequest, Park
<1>2. CASE ~Req.keep
  BY <1>2, CloseOK DEF NextRequest
<1> QED
  BY <1>1, <1>2

(* A step of the session keeps the types when it keeps the session's. *)
LEMMA TypeKept ==
  ASSUME TypeInv, world' = world, recv' = recv, delivered' = delivered, sent' = sent, left' = left,
         pc' \in {"parked", "run", "closed"}, rearm' \in {0, 2, 3},
         SessionOK(sess', files'), sess'.state # "ws" => sess.state # "ws",
         wire' \in Seq(Replies),
         net' \in Seq(Seq(Pieces)), pending' \in Seq(Pieces), ~world.tls => pending' = <<>>
  PROVE  TypeInv'
<1>1. /\ world \in World /\ ReceiverOK(recv') /\ delivered' \in Seq(Seq(Pieces))
      /\ sess.state # "ws" => recv' = NoFrame /\ delivered' = <<>>
      /\ sent' \in 0 .. Len(Script) /\ left' \in BOOLEAN
  BY DEF TypeInv
<1> QED
  BY <1>1, TypeJoin

LEMMA SocketTyped ==
  ASSUME TypeInv, net' = net, pending' = pending
  PROVE  net' \in Seq(Seq(Pieces)) /\ pending' \in Seq(Pieces) /\ (~world.tls => pending' = <<>>)
BY DEF TypeInv

LEMMA WireTyped ==
  ASSUME TypeInv, Next
  PROVE  wire' \in Seq(Replies)
<1>1. PICK x \in Seq(Replies) : wire' = wire \o x
  BY WireGrows
<1>2. wire \in Seq(Replies)
  BY Fields
<1> HIDE DEF Replies
<1> QED
  BY <1>1, <1>2

(* The session while it reads. *)
LEMMA ReadOK ==
  ASSUME TypeInv, Flow, Read, Next
  PROVE  /\ SessionOK(sess', files') /\ sess'.state # "ws"
         /\ pc' \in {"parked", "run", "closed"} /\ rearm' \in {0, 2, 3}
         /\ net' \in Seq(Seq(Pieces)) /\ pending' \in Seq(Pieces) /\ (~world.tls => pending' = <<>>)
         /\ sent' = sent /\ left' = left
<1>1. /\ sess \in Session /\ sess.req \in 0 .. Requests /\ Requests \in Nat \ {0} /\ sess.cap \in Nat
      /\ sess.buf \in Seq(Pieces) /\ Len(sess.buf) \in Nat /\ Len(sess.buf) <= sess.cap
      /\ sess.remaining \in 0 .. FileSize /\ Room \in Int
  <2>1. Room \in Int
    BY Fields
  <2> QED
    BY <2>1, Fields
<1>2. SessionOK(sess, files) /\ pc \in {"parked", "run", "closed"} /\ rearm \in {0, 2, 3}
  BY DEF TypeInv
<1>3. sess.state \in {"detect", "headers", "body"}
  BY DEF Read, Detect, DetectRetries, Grow, ReadHeaders, ReadBody, BodyComplete, ReadRetries,
         ReadEnds, Waiting, InState
<1> HIDE DEF Pieces
<1>4. CASE Detect
  <2>1. CASE Close
    BY <1>4, <2>1, CloseOK, SocketTyped DEF Detect, Quiet
  <2>2. CASE sess' = [sess EXCEPT !.state = "headers"] /\ Stay /\ UNCHANGED files
    <3>1. SessionOK(sess', files') /\ sess'.state = "headers"
      BY <1>2, <1>4, <2>2 DEF Detect, InState, SessionOK, Session, Answering
    <3> QED
      BY <1>2, <1>4, <2>2, <3>1, SocketTyped DEF Detect, Quiet, Stay
  <2> QED
    BY <1>4, <2>1, <2>2 DEF Detect
<1>5. CASE DetectRetries \/ ReadRetries
  BY <1>2, <1>3, <1>5, SocketTyped DEF DetectRetries, ReadRetries, Quiet, Park
<1>6. CASE ReadEnds
  BY <1>6, CloseOK, SocketTyped DEF ReadEnds, Quiet
<1>7. CASE Grow
  <2>1. sess.cap <= 2 * sess.cap /\ 2 * sess.cap \in Nat
    BY <1>1
  <2> DEFINE c == 2 * sess.cap
  <2>2. c \in Nat /\ Len(sess.buf) <= c
    BY <1>1, <2>1
  <2> HIDE DEF c
  <2>3. \/ sess' = [sess EXCEPT !.cap = c]
        \/ Can("grown") /\ sess' = [sess EXCEPT !.cap = c, !.uri = ShiftUri(@)]
    BY <1>7 DEF Grow, c
  <2>4. files' = files /\ pc' = pc /\ rearm' = rearm
    BY <1>7 DEF Grow, Stay
  <2>5. SessionOK(sess', files') /\ sess'.state = sess.state
    BY <1>2, <2>2, <2>3, <2>4 DEF SessionOK, Session, ShiftUri, Can, Without
  <2> QED
    BY <1>2, <1>3, <1>7, <2>4, <2>5, SocketTyped DEF Grow, Quiet
<1>8. CASE BodyComplete
  <2>1. SessionOK(sess', files') /\ sess'.state = "handle"
    BY <1>2, <1>8 DEF BodyComplete, InState, SessionOK, Session, Answering
  <2> QED
    BY <1>2, <1>8, <2>1, SocketTyped DEF BodyComplete, Quiet, Stay
<1>9. CASE ReadBody
  <2>1. Recv(Room)
    BY <1>9 DEF ReadBody
  <2> DEFINE b == sess.buf \o Took(Room)
  <2>2. b \in Seq(Pieces) /\ Len(b) <= sess.cap
    BY <2>1, BufferIs
  <2>3. sess' = [sess EXCEPT !.buf = b] /\ files' = files
    BY <1>9 DEF ReadBody
  <2> HIDE DEF b
  <2>4. SessionOK(sess', files') /\ sess'.state = "body"
    BY <1>2, <1>9, <2>2, <2>3 DEF ReadBody, InState, SessionOK, Session, Answering
  <2>5. net' \in Seq(Seq(Pieces)) /\ pending' \in Seq(Pieces) /\ (~world.tls => pending' = <<>>)
    BY <1>1, <2>1, RecvTypes
  <2> QED
    BY <1>2, <1>9, <2>4, <2>5 DEF ReadBody, Stay
<1>10. CASE ReadHeaders
  <2>1. Recv(Room) /\ sess.state = "headers" /\ pc = "run" /\ sent' = sent /\ left' = left
    BY <1>10 DEF ReadHeaders, InState
  <2>2. world' = world
    BY WorldStays
  <2> DEFINE b == sess.buf \o Took(Room)
             h == HeaderEnd(b)
             i == b[h][1]
             r == world.reqs[i]
  <2>3. b \in Seq(Pieces) /\ Len(b) <= sess.cap
    BY <2>1, BufferIs
  <2>4. h > 0 => i \in 1 .. Requests
    BY <2>1, <2>2, ReadIs
  <2>5. net' \in Seq(Seq(Pieces)) /\ pending' \in Seq(Pieces) /\ (~world.tls => pending' = <<>>)
    BY <1>1, <2>1, RecvTypes
  <2>6. \/ h > 0 /\ sess' = [sess EXCEPT !.buf = b, !.req = i,
                                 !.uri = IF r.routed THEN "route" ELSE "buffer",
                                 !.state = IF r.declared > 0 THEN "body" ELSE "handle"]
                 /\ Stay /\ files' = files
        \/ Close
        \/ sess' = [sess EXCEPT !.buf = b] /\ Stay /\ files' = files
    BY <1>10 DEF ReadHeaders, Parse
  <2> DEFINE u == IF r.routed THEN "route" ELSE "buffer"
             st == IF r.declared > 0 THEN "body" ELSE "handle"
  <2>7. u \in {"none", "buffer", "route", "wild"} /\ u # "wild" /\ st \in {"body", "handle"}
    OBVIOUS
  <2> HIDE DEF b, h, i, r, u, st
  <2>8. CASE Close
    BY <2>1, <2>5, <2>8, CloseOK
  <2>9. CASE sess' = [sess EXCEPT !.buf = b] /\ Stay /\ files' = files
    <3>1. SessionOK(sess', files') /\ sess'.state = "headers"
      BY <1>2, <2>1, <2>3, <2>9 DEF SessionOK, Session, Answering
    <3> QED
      BY <1>2, <2>1, <2>5, <2>9, <3>1 DEF Stay
  <2>10. CASE h > 0 /\ sess' = [sess EXCEPT !.buf = b, !.req = i, !.uri = u, !.state = st]
                    /\ Stay /\ files' = files
    <3>1. i \in 1 .. Requests /\ i \in Nat /\ i # 0 /\ i <= Requests
      BY <1>1, <2>4, <2>10
    <3>2. SessionOK(sess', files') /\ sess'.state = st
      BY <1>2, <2>1, <2>3, <2>7, <2>10, <3>1 DEF SessionOK, Session, Answering
    <3> QED
      BY <1>2, <2>1, <2>5, <2>7, <2>10, <3>2 DEF Stay
  <2> QED
    BY <2>6, <2>8, <2>9, <2>10 DEF u, st
<1> QED
  BY <1>4, <1>5, <1>6, <1>7, <1>8, <1>9, <1>10 DEF Read

(* The session while it answers. *)
LEMMA HandleOK ==
  ASSUME TypeInv, Handle
  PROVE  /\ SessionOK(sess', files') /\ sess.state = "handle"
         /\ pc' \in {"parked", "run", "closed"} /\ rearm' \in {0, 2, 3}
         /\ net' = net /\ pending' = pending /\ sent' = sent /\ left' = left
<1>1. sess.state = "handle" /\ net' = net /\ pending' = pending /\ sent' = sent /\ left' = left
  BY DEF Handle, HandleUpgrade, HandleFcgi, HandlePage, HandleNoAccess, HandleFile, Routed, InState,
         Quiet
<1>2. SessionOK(sess, files) /\ pc \in {"parked", "run", "closed"} /\ rearm \in {0, 2, 3}
  BY DEF TypeInv
<1>3. sess.file = 0 /\ files = {}
  BY <1>1, <1>2 DEF SessionOK
<1>4. CASE HandleUpgrade
  BY <1>1, <1>3, <1>4, NewOK DEF HandleUpgrade, Park
<1>5. CASE HandleFcgi
  <2>1. SessionOK(sess', files')
    BY <1>1, <1>2, <1>5 DEF HandleFcgi, SessionOK, Session, Answering
  <2> QED
    BY <1>1, <1>5, <2>1 DEF HandleFcgi, Park
<1>6. CASE HandlePage \/ HandleNoAccess
  BY <1>1, <1>6, CloseOK DEF HandlePage, HandleNoAccess
<1>7. CASE HandleFile
  <2> DEFINE f == FreeNumber
  <2>1. f = 1
    <3>1. 1 .. Cardinality(files) + 1 = {1}
      <4>1. Cardinality(files) = 0
        BY <1>3, FS_EmptySet
      <4> QED
        BY <4>1
    <3> QED
      BY <1>3, <3>1 DEF FreeNumber
  <2>2. /\ sess' = [sess EXCEPT !.state = "send", !.file = f, !.remaining = FileSize, !.header_sent = FALSE]
        /\ files' = {f}
    BY <1>3, <1>7 DEF HandleFile
  <2> HIDE DEF f
  <2>3. SessionOK(sess', files')
    <3>1. f \in Nat /\ f # 0 /\ FileSize \in Nat
      BY <2>1, Sizes
    <3>2. sess \in Session /\ sess.req <= Requests /\ sess.req # 0 /\ Len(sess.buf) <= sess.cap
          /\ (Without({"grown"}) => sess.uri # "wild")
      BY <1>1, <1>2 DEF SessionOK, Answering
    <3>3. /\ sess' \in Session /\ sess'.state = "send" /\ sess'.file = f /\ sess'.remaining = FileSize
          /\ sess'.req = sess.req /\ sess'.buf = sess.buf /\ sess'.cap = sess.cap /\ sess'.uri = sess.uri
      <4> HIDE DEF Pieces
      <4> QED
        BY <2>2, <3>1, <3>2 DEF Session
    <3> QED
      BY <2>2, <3>1, <3>2, <3>3 DEF SessionOK, Answering
  <2> QED
    BY <1>1, <1>7, <2>3 DEF HandleFile, Park
<1> QED
  BY <1>1, <1>4, <1>5, <1>6, <1>7 DEF Handle

LEMMA RespondOK ==
  ASSUME TypeInv, Respond
  PROVE  /\ SessionOK(sess', files') /\ sess.state \in {"fcgi", "send"} /\ sess'.state # "ws"
         /\ pc' \in {"parked", "run", "closed"} /\ rearm' \in {0, 2, 3}
         /\ net' = net /\ pending' = pending /\ sent' = sent /\ left' = left
<1>1. /\ sess.state \in {"fcgi", "send"}
      /\ net' = net /\ pending' = pending /\ sent' = sent /\ left' = left
  BY DEF Respond, FcgiCompletes, FcgiFails, SendRetries, SendFails, SendShrunk, SendDone, SendSome,
         InState, Quiet
<1>2. SessionOK(sess, files) /\ pc \in {"parked", "run", "closed"} /\ rearm \in {0, 2, 3}
  BY DEF TypeInv
<1>3. CASE NextRequest
  BY <1>1, <1>3, NextOK
<1>4. CASE Close
  BY <1>1, <1>4, CloseOK
<1>5. CASE SendRetries
  BY <1>1, <1>2, <1>5 DEF SendRetries, ParkToWrite, Park
<1>6. CASE \E n \in 1 .. 1 + FileSize : SendSome(n)
  <2>1. PICK n \in 1 .. 1 + FileSize : SendSome(n)
    BY <1>6
  <2> DEFINE left2 == sess.remaining - n + (IF sess.header_sent THEN 0 ELSE 1)
  <2>2. left2 \in Nat /\ left2 <= FileSize
    <3> DEFINE m == sess.remaining
               g == sess.header_sent
    <3>1. m \in 0 .. FileSize /\ g \in BOOLEAN /\ FileSize \in Nat
      BY Fields, Sizes
    <3>2. n \in 1 .. (IF g THEN 0 ELSE 1) + m
      BY <2>1 DEF SendSome, Unsent
    <3> HIDE DEF m, g
    <3>3. m - n + (IF g THEN 0 ELSE 1) \in 0 .. FileSize
      <4>1. CASE g
        BY <3>1, <3>2, <4>1
      <4>2. CASE ~g
        BY <3>1, <3>2, <4>2
      <4> QED
        BY <4>1, <4>2
    <3> QED
      BY <3>1, <3>3 DEF m, g
  <2>3. sess' = [sess EXCEPT !.header_sent = TRUE, !.remaining = left2] /\ files' = files /\ Stay
        /\ sess.state = "send"
    BY <2>1 DEF SendSome, Advance, InState
  <2> HIDE DEF left2
  <2>4. SessionOK(sess', files') /\ sess'.state = "send"
    BY <1>2, <2>2, <2>3 DEF SessionOK, Session, Answering
  <2> QED
    BY <1>1, <1>2, <2>3, <2>4 DEF Stay
<1> QED
  BY <1>3, <1>4, <1>5, <1>6
     DEF Respond, FcgiCompletes, FcgiFails, SendFails, SendShrunk, SendDone


(* The receiver with more of a part. *)
Adds(part, j, t) == [recv EXCEPT ![part] = @ \o t, !.as = j]

LEMMA AddsIs ==
  ASSUME TypeInv, NEW part \in Parts, NEW j \in Nat, NEW t \in Seq(Pieces)
  PROVE  /\ Adds(part, j, t) \in Receiver /\ Adds(part, j, t).as = j
         /\ Adds(part, j, t).state = recv.state
         /\ Adds(part, j, t)[part] = recv[part] \o t
         /\ recv[part] \in Seq(Pieces) /\ Len(recv[part]) \in Nat
         /\ Len(Adds(part, j, t)[part]) = Len(recv[part]) + Len(t)
         /\ \A q \in Parts : q # part => Adds(part, j, t)[q] = recv[q]
<1>1. recv \in Receiver
  BY DEF TypeInv, ReceiverOK
<1> HIDE DEF Pieces
<1>2. recv[part] \in Seq(Pieces)
  BY <1>1 DEF Receiver, Parts
<1> DEFINE x == recv[part]
           y == x \o t
           r == [recv EXCEPT ![part] = y, !.as = j]
<1>3. y \in Seq(Pieces) /\ Len(x) \in Nat /\ Len(y) = Len(x) + Len(t)
  <2>1. x \in Seq(Pieces)
    BY <1>2
  <2> HIDE DEF x
  <2> QED
    BY <2>1, ConcatIs
<1>4. Adds(part, j, t) = r
  BY DEF Adds
<1> HIDE DEF y
<1>5. /\ r \in Receiver /\ r.as = j /\ r.state = recv.state /\ r[part] = y
      /\ \A q \in Parts : q # part => r[q] = recv[q]
  <2>1. CASE part = "hdr"
    BY <1>1, <1>3, <2>1 DEF Receiver, Parts
  <2>2. CASE part = "ext"
    BY <1>1, <1>3, <2>2 DEF Receiver, Parts
  <2>3. CASE part = "mask"
    BY <1>1, <1>3, <2>3 DEF Receiver, Parts
  <2>4. CASE part = "pay"
    BY <1>1, <1>3, <2>4 DEF Receiver, Parts
  <2> QED
    BY <2>1, <2>2, <2>3, <2>4 DEF Parts
<1> HIDE DEF r, x
<1> QED
  BY <1>2, <1>3, <1>4, <1>5 DEF y, x

LEMMA BytesTyped ==
  ASSUME NEW r \in Receiver
  PROVE  Bytes(r) \in Seq(Pieces) /\ Len(Bytes(r)) = Len(r.hdr) + Len(r.ext) + Len(r.mask) + Len(r.pay)
<1> HIDE DEF Pieces
<1> DEFINE a == r.hdr
           b == r.ext
           c == r.mask
           d == r.pay
<1>1. a \in Seq(Pieces) /\ b \in Seq(Pieces) /\ c \in Seq(Pieces) /\ d \in Seq(Pieces)
  BY DEF Receiver
<1>2. Bytes(r) = a \o b \o c \o d
  BY DEF Bytes
<1> HIDE DEF a, b, c, d
<1>3. a \o b \in Seq(Pieces) /\ Len(a \o b) = Len(a) + Len(b)
  BY <1>1, ConcatIs
<1>4. (a \o b) \o c \in Seq(Pieces) /\ Len((a \o b) \o c) = Len(a) + Len(b) + Len(c)
  BY <1>1, <1>3, ConcatIs
<1>5. ((a \o b) \o c) \o d \in Seq(Pieces) /\ Len(((a \o b) \o c) \o d) = Len(a) + Len(b) + Len(c) + Len(d)
  BY <1>1, <1>4, ConcatIs
<1> QED
  BY <1>2, <1>5 DEF a, b, c, d

(* A frame that a header reads as. *)
LEMMA ReadsAsIs ==
  ASSUME world \in World, NEW hdr, NEW j \in ReadsAs(hdr)
  PROVE  /\ j \in 1 .. Frames
         /\ \A i \in 1 .. Frames : hdr = Part(i, "hdr", 2) => j = i
<1>1. DOMAIN world.frames = 1 .. Frames /\ Frames \in Nat
  <2> DEFINE f == world.frames
  <2>1. f \in Seq(WsFrame)
    BY WorldTyped
  <2> HIDE DEF f
  <2>2. DOMAIN f = 1 .. Len(f)
    BY <2>1
  <2> QED
    BY <2>2, WorldTyped DEF f, Frames
<1>2. ASSUME NEW i \in 1 .. Frames, hdr = Part(i, "hdr", 2)
      PROVE  hdr[1][1] = i
  <2>1. i \in Nat /\ "hdr" \in PartNames
    BY <1>1 DEF PartNames
  <2> DEFINE one == 1
             two == 2
  <2>2. one \in 1 .. two /\ two \in Nat /\ one = 1 /\ two = 2
    OBVIOUS
  <2> HIDE DEF one, two, PartNames
  <2>3. Part(i, "hdr", two)[one] = <<i, "hdr", one>>
    BY <2>1, <2>2, PartIs
  <2>4. hdr[1] = <<i, "hdr", 1>>
    BY <1>2, <2>2, <2>3
  <2> QED
    BY <2>4
<1>3. CASE \E i \in DOMAIN world.frames : hdr = Part(i, "hdr", 2)
  <2>1. PICK i \in 1 .. Frames : hdr = Part(i, "hdr", 2)
    BY <1>1, <1>3
  <2>2. j = hdr[1][1]
    BY <1>3 DEF ReadsAs
  <2> QED
    BY <1>2, <2>1, <2>2
<1>4. CASE ~ \E i \in DOMAIN world.frames : hdr = Part(i, "hdr", 2)
  <2>1. j \in DOMAIN world.frames
    BY <1>4 DEF ReadsAs
  <2> QED
    BY <1>1, <1>4, <2>1
<1> QED
  BY <1>3, <1>4

(* What Receive makes of the part it waits for. *)
Kept(part, r) ==
  /\ ~Complete(r, part)
  /\ recv' = r /\ pc' = "parked" /\ rearm' = 2 /\ delivered' = delivered
Refused(part, r) ==
  /\ Complete(r, part) /\ pc' = "closed" /\ rearm' = 0 /\ recv' = NoFrame /\ delivered' = delivered
Gone(part, r) ==
  /\ Complete(r, part) /\ After(r, part) # "whole"
  /\ recv' = [r EXCEPT !.state = After(r, part)] /\ pc' = pc /\ rearm' = rearm
  /\ delivered' = delivered
Handed(part, r) ==
  /\ Complete(r, part) /\ After(r, part) = "whole"
  /\ delivered' = Append(delivered, Bytes(r)) /\ recv' = NoFrame
  /\ pc' \in {"closed", "parked"} /\ rearm' \in {0, 2}

LEMMA ReceiveIs ==
  ASSUME TypeInv, NEW part \in Parts, Receive(part)
  PROVE  LET missing == Expected(recv, part) - Len(recv[part])
             t == Took(missing)
         IN  /\ pc = "run" /\ sess.state = "ws" /\ recv.state = part
             /\ missing \in Int /\ Expected(recv, part) \in Nat /\ Recv(missing)
             /\ t \in Seq(Pieces) /\ Len(t) \in 1 .. missing
             /\ \E j \in 0 .. Frames :
                  /\ part # "hdr" => j = recv.as /\ j # 0
                  /\ part = "hdr" /\ Len(recv.hdr) + Len(t) = 2 =>
                       j # 0 /\ \A i \in 1 .. Frames : recv.hdr \o t = Part(i, "hdr", 2) => j = i
                  /\ \/ Kept(part, Adds(part, j, t)) \/ Refused(part, Adds(part, j, t))
                     \/ Gone(part, Adds(part, j, t)) \/ Handed(part, Adds(part, j, t))
             /\ sess' = sess /\ files' = files /\ wire' = wire /\ sent' = sent /\ left' = left
             /\ world' = world
<1> DEFINE missing == Expected(recv, part) - Len(recv[part])
           t == Took(missing)
<1>1. /\ pc = "run" /\ sess.state = "ws" /\ recv.state = part /\ Recv(missing)
      /\ files' = files /\ wire' = wire /\ sent' = sent /\ left' = left /\ world' = world
  BY DEF Receive, InState, WsQuiet
<1>2. recv \in Receiver /\ recv.as \in 0 .. Frames /\ (part # "hdr" => recv.as # 0) /\ world \in World
      /\ Frames \in Nat
  BY <1>1, WorldTyped DEF TypeInv, ReceiverOK, Receiver
<1>3. Expected(recv, part) \in Nat
  <2>1. CASE part \in {"hdr", "mask"}
    BY <2>1 DEF Expected
  <2>2. CASE part \in {"ext", "pay"}
    <3>1. world.frames[recv.as] \in WsFrame
      BY <1>2, <2>2, WorldTyped
    <3> QED
      BY <2>2, <3>1 DEF Expected, Announced, WsFrame
  <2> QED
    BY <2>1, <2>2 DEF Parts
<1>4. missing \in Int
  <2> DEFINE a == Expected(recv, part)
             b == Len(recv[part])
  <2>1. a \in Nat /\ b \in Nat
    <3>1. \A x \in Seq(Pieces) : Len(x) \in Nat
      <4> HIDE DEF Pieces
      <4> QED
        OBVIOUS
    <3>2. recv[part] \in Seq(Pieces)
      <4> HIDE DEF Pieces
      <4> QED
        BY <1>2 DEF Receiver, Parts
    <3> QED
      BY <1>3, <3>1, <3>2
  <2> HIDE DEF a, b
  <2>2. a - b \in Int
    BY <2>1
  <2> QED
    BY <2>2 DEF a, b
<1> HIDE DEF missing
<1>5. t \in Seq(Pieces) /\ Len(t) \in 1 .. missing
  BY <1>1, <1>4, RecvTypes
<1> HIDE DEF t
<1>6. PICK j \in IF part = "hdr" /\ Len(t) = missing THEN ReadsAs(recv.hdr \o t) ELSE {recv.as} :
          LET r == Adds(part, j, t)
          IN  \/ /\ ~Complete(r, part)
                 /\ recv' = Keep(r) /\ Again /\ UNCHANGED delivered
              \/ /\ Complete(r, part) /\ Rejected(r, part)
                 /\ WsClose /\ UNCHANGED delivered
              \/ /\ Complete(r, part) /\ ~Rejected(r, part) /\ After(r, part) # "whole"
                 /\ recv' = [r EXCEPT !.state = After(r, part)]
                 /\ Stay /\ UNCHANGED <<sess, delivered>>
              \/ /\ Complete(r, part) /\ ~Rejected(r, part) /\ After(r, part) = "whole"
                 /\ Deliver(r)
  BY DEF Receive, Adds, missing, t
<1>7. j \in 0 .. Frames /\ (part # "hdr" => j = recv.as /\ j # 0)
  <2>1. CASE part = "hdr" /\ Len(t) = missing
    <3>1. j \in 1 .. Frames
      BY <1>2, <1>6, <2>1, ReadsAsIs
    <3> QED
      BY <1>2, <2>1, <3>1
  <2>2. CASE ~ (part = "hdr" /\ Len(t) = missing)
    BY <1>2, <1>6, <2>2
  <2> QED
    BY <2>1, <2>2
<1>8. ASSUME part = "hdr", Len(recv.hdr) + Len(t) = 2
      PROVE  j # 0 /\ \A i \in 1 .. Frames : recv.hdr \o t = Part(i, "hdr", 2) => j = i
  <2>1. Len(t) = missing
    <3> DEFINE a == Len(recv.hdr)
               b == Len(t)
    <3>1. missing = 2 - a /\ a + b = 2
      BY <1>8 DEF missing, Expected
    <3>2. a \in Nat /\ b \in Int
      <4>1. recv.hdr \in Seq(Pieces)
        <5> HIDE DEF Pieces
        <5> QED
          BY <1>2 DEF Receiver
      <4> HIDE DEF Pieces
      <4> QED
        BY <1>5, <4>1
    <3> HIDE DEF a, b
    <3>3. b = missing
      BY <3>1, <3>2
    <3> QED
      BY <3>3 DEF b
  <2>2. j \in ReadsAs(recv.hdr \o t)
    BY <1>6, <1>8, <2>1
  <2>3. /\ j \in 1 .. Frames
        /\ \A i \in 1 .. Frames : recv.hdr \o t = Part(i, "hdr", 2) => j = i
    BY <1>2, <2>2, ReadsAsIs
  <2> QED
    BY <2>3
<1> DEFINE r == Adds(part, j, t)
<1>9. (Kept(part, r) \/ Refused(part, r) \/ Gone(part, r) \/ Handed(part, r)) /\ sess' = sess
  <2> HIDE DEF r
  <2>0. \/ /\ ~Complete(r, part)
           /\ recv' = Keep(r) /\ Again /\ UNCHANGED delivered
        \/ /\ Complete(r, part) /\ Rejected(r, part)
           /\ WsClose /\ UNCHANGED delivered
        \/ /\ Complete(r, part) /\ ~Rejected(r, part) /\ After(r, part) # "whole"
           /\ recv' = [r EXCEPT !.state = After(r, part)]
           /\ Stay /\ UNCHANGED <<sess, delivered>>
        \/ /\ Complete(r, part) /\ ~Rejected(r, part) /\ After(r, part) = "whole"
           /\ Deliver(r)
    BY <1>6 DEF r
  <2>1. CASE ~Complete(r, part) /\ recv' = Keep(r) /\ Again /\ UNCHANGED delivered
    BY <2>1 DEF Kept, Keep, Again, Park
  <2>2. CASE Complete(r, part) /\ Rejected(r, part) /\ WsClose /\ UNCHANGED delivered
    BY <2>2 DEF Refused, WsClose
  <2>3. CASE /\ Complete(r, part) /\ ~Rejected(r, part) /\ After(r, part) # "whole"
             /\ recv' = [r EXCEPT !.state = After(r, part)]
             /\ Stay /\ UNCHANGED <<sess, delivered>>
    BY <2>3 DEF Gone, Stay
  <2>4. CASE /\ Complete(r, part) /\ ~Rejected(r, part) /\ After(r, part) = "whole"
             /\ Deliver(r)
    BY <2>4 DEF Handed, Deliver, WsClose, Again, Park
  <2> QED
    BY <2>0, <2>1, <2>2, <2>3, <2>4
<1> HIDE DEF r
<1> QED
  BY <1>1, <1>3, <1>4, <1>5, <1>7, <1>8, <1>9 DEF r, missing, t

LEMMA WsOK ==
  ASSUME TypeInv, WsStep
  PROVE  /\ ReceiverOK(recv') /\ delivered' \in Seq(Seq(Pieces))
         /\ pc' \in {"parked", "run", "closed"} /\ rearm' \in {0, 2, 3}
         /\ net' \in Seq(Seq(Pieces)) /\ pending' \in Seq(Pieces) /\ (~world.tls => pending' = <<>>)
         /\ sess.state = "ws" /\ sess' = sess /\ files' = files /\ sent' = sent /\ left' = left
         /\ wire' = wire
<1>1. /\ ReceiverOK(recv) /\ recv \in Receiver /\ delivered \in Seq(Seq(Pieces)) /\ world \in World
      /\ pc \in {"parked", "run", "closed"} /\ rearm \in {0, 2, 3}
  BY DEF TypeInv, ReceiverOK
<1>2. ReceiverOK(NoFrame)
  <2>1. <<>> \in Seq(Pieces)
    <3> HIDE DEF Pieces
    <3> QED
      OBVIOUS
  <2> HIDE DEF Pieces
  <2> QED
    BY <1>1, <2>1, WorldTyped DEF ReceiverOK, Receiver, NoFrame, Parts
<1>3. CASE WsRetries
  BY <1>1, <1>3, SocketTyped DEF WsRetries, Again, Park, WsQuiet, InState
<1>4. CASE WsEnds
  BY <1>1, <1>2, <1>4, SocketTyped DEF WsEnds, WsClose, WsQuiet, InState
<1>5. ASSUME NEW part \in Parts, Receive(part)
      PROVE  /\ ReceiverOK(recv') /\ delivered' \in Seq(Seq(Pieces))
             /\ pc' \in {"parked", "run", "closed"} /\ rearm' \in {0, 2, 3}
             /\ net' \in Seq(Seq(Pieces)) /\ pending' \in Seq(Pieces) /\ (~world.tls => pending' = <<>>)
             /\ sess.state = "ws" /\ sess' = sess /\ files' = files /\ sent' = sent /\ left' = left
             /\ wire' = wire
  <2> DEFINE missing == Expected(recv, part) - Len(recv[part])
             t == Took(missing)
  <2>1. /\ pc = "run" /\ sess.state = "ws" /\ recv.state = part
        /\ missing \in Int /\ Recv(missing) /\ t \in Seq(Pieces) /\ Len(t) \in 1 .. missing
        /\ \E j \in 0 .. Frames :
             /\ part # "hdr" => j = recv.as /\ j # 0
             /\ part = "hdr" /\ Len(recv.hdr) + Len(t) = 2 => j # 0
             /\ \/ Kept(part, Adds(part, j, t)) \/ Refused(part, Adds(part, j, t))
                \/ Gone(part, Adds(part, j, t)) \/ Handed(part, Adds(part, j, t))
        /\ sess' = sess /\ files' = files /\ wire' = wire /\ sent' = sent /\ left' = left
    BY <1>5, ReceiveIs
  <2> HIDE DEF missing, t
  <2>2. net' \in Seq(Seq(Pieces)) /\ pending' \in Seq(Pieces) /\ (~world.tls => pending' = <<>>)
    BY <2>1, RecvTypes
  <2>3. PICK j \in 0 .. Frames :
             /\ part # "hdr" => j = recv.as /\ j # 0
             /\ part = "hdr" /\ Len(recv.hdr) + Len(t) = 2 => j # 0
             /\ \/ Kept(part, Adds(part, j, t)) \/ Refused(part, Adds(part, j, t))
                \/ Gone(part, Adds(part, j, t)) \/ Handed(part, Adds(part, j, t))
    BY <2>1
  <2> DEFINE r == Adds(part, j, t)
  <2>4. j \in Nat /\ j <= Frames
    BY <1>1, WorldTyped
  <2>5. /\ r \in Receiver /\ r.as = j /\ r.state = part
        /\ Len(r[part]) = Len(recv[part]) + Len(t)
    BY <2>1, <2>4, AddsIs
  <2>6. Bytes(r) \in Seq(Pieces)
    BY <2>5, BytesTyped
  <2> HIDE DEF r
  <2>7. CASE Kept(part, r)
    <3>1. ReceiverOK(r)
      BY <2>3, <2>4, <2>5 DEF ReceiverOK
    <3> QED
      BY <1>1, <2>1, <2>2, <2>7, <3>1 DEF Kept
  <2>8. CASE Refused(part, r)
    BY <1>1, <1>2, <2>1, <2>2, <2>8 DEF Refused
  <2>9. CASE Gone(part, r)
    <3>1. j # 0
      <4>1. CASE part = "hdr"
        <5>1. Len(recv.hdr) + Len(t) = 2
          BY <2>5, <2>9, <4>1 DEF Gone, Complete, Expected
        <5> QED
          BY <2>3, <4>1, <5>1
      <4> QED
        BY <2>3, <4>1
    <3> DEFINE s == After(r, part)
    <3>2. s \in Parts
      BY <2>9 DEF Gone, After, Parts
    <3>3. recv' = [r EXCEPT !.state = s]
      BY <2>9 DEF Gone
    <3> HIDE DEF s
    <3>4. ReceiverOK(recv')
      <4> HIDE DEF Pieces
      <4> QED
        BY <2>4, <2>5, <3>1, <3>2, <3>3 DEF ReceiverOK, Receiver
    <3> QED
      BY <1>1, <2>1, <2>2, <2>9, <3>4 DEF Gone
  <2>10. CASE Handed(part, r)
    <3> DEFINE x == Bytes(r)
               S == Seq(Pieces)
    <3>1. x \in S /\ delivered \in Seq(S) /\ delivered' = Append(delivered, x)
      BY <1>1, <2>6, <2>10 DEF Handed
    <3> HIDE DEF x, S
    <3>2. delivered' \in Seq(S)
      BY <3>1
    <3>3. /\ recv' = NoFrame /\ pc' \in {"parked", "run", "closed"} /\ rearm' \in {0, 2, 3}
      BY <2>10 DEF Handed
    <3> QED
      BY <1>2, <2>1, <2>2, <3>2, <3>3 DEF S
  <2> QED
    BY <2>3, <2>7, <2>8, <2>9, <2>10 DEF r
<1> QED
  BY <1>3, <1>4, <1>5 DEF WsStep

(* When the client goes on. *)
LEMMA Awaits ==
  ASSUME world \in World
  PROVE  /\ AwaitedRequests \in 1 .. Requests
         /\ Allowed <= Len(Script) /\ Allowed \in Nat
         /\ ~Can("pipelined") => /\ \A i \in 1 .. AwaitedRequests - 1 : Answered(i)
                                 /\ AwaitedRequests = Requests \/ ~Answered(AwaitedRequests)
<1> DEFINE P(n) == /\ \A i \in 1 .. n - 1 : Answered(i)
                   /\ n = Requests \/ ~Answered(n)
           S == {n \in 1 .. Requests : n = Requests \/ ~Answered(n)}
<1>1. Requests \in Nat \ {0}
  BY WorldTyped
<1>2. \E n \in 1 .. Requests : P(n)
  <2>1. S \in SUBSET Nat /\ S # {}
    <3>1. Requests \in S
      BY <1>1
    <3> QED
      BY <3>1
  <2>2. PICK n \in S : \A m \in S : n <= m
    <3> HIDE DEF S
    <3> QED
      BY <2>1, LeastNumber
  <2>3. ASSUME NEW i \in 1 .. n - 1 PROVE Answered(i)
    <3>1. i \in 1 .. Requests /\ ~ (n <= i)
      BY <1>1
    <3>2. i \notin S
      BY <2>2, <3>1
    <3> QED
      BY <3>1, <3>2
  <2> QED
    BY <2>2, <2>3
<1> DEFINE a == CHOOSE n \in 1 .. Requests : P(n)
<1>3. a \in 1 .. Requests /\ P(a)
  <2> HIDE DEF P
  <2> QED
    BY <1>2
<1>4. AwaitedRequests = IF Can("pipelined") THEN Requests ELSE a
  BY DEF AwaitedRequests
<1> HIDE DEF a
<1>5. AwaitedRequests \in 1 .. Requests
  BY <1>1, <1>3, <1>4
<1>6. Allowed <= Len(Script) /\ Allowed \in Nat
  <2> DEFINE n == AwaitedRequests
  <2>1. n \in 0 .. Requests /\ Requests \in 0 .. Requests
    BY <1>1, <1>5
  <2> HIDE DEF n
  <2>2. /\ H(n) \in Nat /\ H(n) <= H(Requests) /\ H(Requests) <= Len(Script) /\ H(Requests) \in Nat
        /\ Len(Script) \in Nat
    BY <2>1, RequestsLie, ScriptLies DEF Mark
  <2>3. Allowed = Len(Script) \/ Allowed = H(n)
    BY DEF Allowed, H, n
  <2> QED
    BY <2>2, <2>3
<1> QED
  BY <1>3, <1>4, <1>5, <1>6

(* The client sends the next of its script. *)
LEMMA SendsIs ==
  ASSUME TypeInv, Taken >= 0, Unread = SubSeq(Script, Taken + 1, sent), NEW n \in Nat, ClientSends(n)
  PROVE  /\ sent' = sent + n /\ sent' \in 0 .. Len(Script) /\ sent' <= Allowed
         /\ net' \in Seq(Seq(Pieces)) /\ pending' = pending
         /\ Taken' = Taken /\ Unread' = SubSeq(Script, Taken + 1, sent')
<1> DEFINE S == Script
           x == SubSeq(S, sent + 1, sent + n)
           a == Taken
           b == sent
           c == sent + n
           u == Unread
           f == FlattenSeq(net)
<1>1. /\ S \in Seq(Pieces) /\ Len(S) \in Nat /\ a \in Int /\ b \in Nat /\ u \in Seq(Pieces)
      /\ Len(u) \in Nat /\ f \in Seq(Pieces) /\ world \in World /\ pending \in Seq(Pieces)
      /\ net \in Seq(Seq(Pieces)) /\ Allowed \in Nat /\ Allowed <= Len(S)
  <2>1. world \in World /\ b \in Nat /\ pending \in Seq(Pieces) /\ net \in Seq(Seq(Pieces))
    BY Fields DEF TypeInv
  <2>2. Len(S) \in Nat /\ S \in Seq(Pieces)
    BY <2>1, ScriptLies DEF Mark
  <2> QED
    BY <2>1, <2>2, UnreadTyped, Awaits
<1>2. /\ c <= Allowed /\ net' = Append(net, x) /\ sent' = c /\ pending' = pending
  BY DEF ClientSends
<1>3. c \in Nat /\ c <= Len(S) /\ b <= c /\ a \in Nat /\ a <= b
  <2>1. a = b - Len(u) /\ a >= 0
    BY DEF Taken
  <2> DEFINE l == Len(u)
             k == Len(S)
             w == Allowed
  <2>2. l \in Nat /\ a = b - l /\ b \in Nat /\ k \in Nat /\ w \in Nat /\ w <= k /\ a >= 0 /\ c <= w
        /\ c = b + n
    BY <1>1, <1>2, <2>1
  <2> HIDE DEF a, b, l, k, w, c
  <2>3. c \in Nat /\ c <= k /\ b <= c /\ a \in Nat /\ a <= b
    BY <2>2
  <2> QED
    BY <2>3 DEF k
<1>4. u = SubSeq(S, a + 1, b)
  OBVIOUS
<1> HIDE DEF S, a, b, c, Pieces
<1>5. x \in Seq(Pieces) /\ Len(x) = c - b
  <2>1. SubSeq(S, b + 1, c) \in Seq(Pieces) /\ Len(SubSeq(S, b + 1, c)) = IF b <= c THEN c - b ELSE 0
    BY <1>1, <1>3, Slice
  <2> QED
    BY <1>3, <2>1 DEF b, c
<1>6. x = SubSeq(S, b + 1, c)
  BY DEF b, c
<1> HIDE DEF x, u, f
<1>7. FlattenSeq(net') = f \o x
  BY <1>1, <1>2, <1>5, FlattenAppend DEF f
<1>8. Unread' = u \o x
  <2>1. Unread' = pending \o (f \o x) /\ u = pending \o f
    BY <1>2, <1>7 DEF Unread, u, f
  <2>2. pending \o (f \o x) = (pending \o f) \o x
    <3>1. pending \in Seq(Pieces) /\ f \in Seq(Pieces) /\ x \in Seq(Pieces)
      BY <1>1, <1>5
    <3>2. (pending \o f) \o x = pending \o (f \o x)
      BY <3>1, ConcatAssociative
    <3> QED
      BY <3>2
  <2> QED
    BY <2>1, <2>2
<1>9. u \o x = SubSeq(S, a + 1, c)
  <2>1. SubSeq(S, a + 1, b) \o SubSeq(S, b + 1, c) = SubSeq(S, a + 1, c)
    BY <1>1, <1>3, SlicesMeet
  <2> QED
    BY <1>4, <1>6, <2>1
<1>10. Len(u \o x) = Len(u) + Len(x)
  BY <1>1, <1>5, ConcatIs
<1>11. Taken' = a
  <2>1. Taken' = c - Len(u \o x) /\ a = b - Len(u)
    BY <1>2, <1>8 DEF Taken, a, b, u
  <2> DEFINE l == Len(u)
             k == Len(x)
  <2>2. l \in Nat /\ k = c - b /\ Taken' = c - (l + k) /\ a = b - l
    BY <1>1, <1>5, <1>10, <2>1
  <2> HIDE DEF l, k
  <2> QED
    BY <1>1, <1>3, <2>2
<1>12. net' \in Seq(Seq(Pieces))
  <2> DEFINE T == Seq(Pieces)
  <2>1. x \in T /\ net \in Seq(T)
    BY <1>1, <1>5
  <2> HIDE DEF T
  <2>2. Append(net, x) \in Seq(T)
    BY <2>1
  <2> QED
    BY <1>2, <2>2 DEF T
<1>13. sent' = sent + n /\ c = sent + n
  BY <1>2 DEF c
<1> QED
  BY <1>1, <1>2, <1>3, <1>8, <1>9, <1>11, <1>12, <1>13 DEF a, S

(* Every step keeps the types. *)
LEMMA TypeStep ==
  ASSUME TypeInv, Flow, [Next]_vars
  PROVE  TypeInv'
<1>1. CASE UNCHANGED vars
  <2>1. /\ pc' = pc /\ rearm' = rearm /\ sess' = sess /\ files' = files /\ net' = net
        /\ pending' = pending /\ wire' = wire /\ sent' = sent /\ left' = left /\ world' = world
        /\ recv' = recv /\ delivered' = delivered
    BY <1>1 DEF vars, httpVars
  <2>2. /\ pc \in {"parked", "run", "closed"} /\ rearm \in {0, 2, 3} /\ SessionOK(sess, files)
        /\ wire \in Seq(Replies)
    BY DEF TypeInv
  <2> QED
    BY <2>1, <2>2, SocketTyped, TypeKept
<1>2. CASE Next
  <2>1. world' = world /\ wire' \in Seq(Replies)
    BY <1>2, WorldStays, WireTyped
  <2>2. CASE WsStep
    <3>1. world \in World /\ sent \in 0 .. Len(Script) /\ left \in BOOLEAN /\ SessionOK(sess, files)
      BY DEF TypeInv
    <3> QED
      BY <2>1, <2>2, <3>1, WsOK, TypeJoin
  <2>3. CASE ClientStep /\ UNCHANGED <<recv, delivered>>
    <3>1. /\ pc' = pc /\ rearm' = rearm /\ sess' = sess /\ files' = files
          /\ recv' = recv /\ delivered' = delivered
      BY <2>3 DEF ClientStep, ClientLeaves, ClientSends
    <3>2. /\ pc \in {"parked", "run", "closed"} /\ rearm \in {0, 2, 3} /\ SessionOK(sess, files)
          /\ world \in World /\ sent \in 0 .. Len(Script) /\ left \in BOOLEAN
          /\ ReceiverOK(recv) /\ delivered \in Seq(Seq(Pieces))
          /\ (sess.state # "ws" => recv = NoFrame /\ delivered = <<>>)
      BY DEF TypeInv
    <3>3. CASE ClientLeaves
      <4>1. net' = net /\ pending' = pending /\ sent' = sent /\ left' = TRUE
        BY <3>3 DEF ClientLeaves
      <4> QED
        BY <2>1, <3>1, <3>2, <4>1, SocketTyped, TypeJoin
    <3>4. CASE \E n \in 1 .. Len(Script) : ClientSends(n)
      <4>1. PICK n \in 1 .. Len(Script) : ClientSends(n)
        BY <3>4
      <4>2. sent' \in 0 .. Len(Script) /\ net' \in Seq(Seq(Pieces)) /\ pending' = pending
        <5>1. n \in Nat
          OBVIOUS
        <5> QED
          BY <4>1, <5>1, SendsIs DEF Flow
      <4>3. left' = left
        BY <4>1 DEF ClientSends
      <4>4. pending \in Seq(Pieces) /\ (~world.tls => pending = <<>>)
        BY DEF TypeInv
      <4> QED
        BY <2>1, <3>1, <3>2, <4>2, <4>3, <4>4, TypeJoin
    <3> QED
      BY <2>3, <3>3, <3>4 DEF ClientStep
  <2>4. CASE HttpStep /\ UNCHANGED <<recv, delivered>>
    <3>1. recv' = recv /\ delivered' = delivered
      BY <2>4
    <3>2. CASE Read
      <4>1. sess.state # "ws"
        BY <3>2 DEF Read, Detect, DetectRetries, Grow, ReadHeaders, ReadBody, BodyComplete,
                    ReadRetries, ReadEnds, Waiting, InState
      <4> QED
        BY <1>2, <2>1, <3>1, <3>2, <4>1, ReadOK, TypeKept
    <3>3. CASE Handle
      BY <2>1, <3>1, <3>3, HandleOK, SocketTyped, TypeKept
    <3>4. CASE Respond
      BY <2>1, <3>1, <3>4, RespondOK, SocketTyped, TypeKept
    <3>5. CASE Reports
      <4>1. /\ pc' = "run" /\ rearm' = rearm /\ sess' = sess /\ files' = files /\ net' = net
            /\ pending' = pending /\ sent' = sent /\ left' = left
        BY <3>5 DEF Reports, Quiet
      <4>2. rearm \in {0, 2, 3} /\ SessionOK(sess, files)
        BY DEF TypeInv
      <4> QED
        BY <2>1, <3>1, <4>1, <4>2, SocketTyped, TypeKept
    <3> QED
      BY <2>4, <3>2, <3>3, <3>4, <3>5 DEF HttpStep
  <2> QED
    BY <1>2, <2>2, <2>3, <2>4 DEF Next
<1> QED
  BY <1>1, <1>2


(***************************************************************************)
(* The flow of the bytes.                                                  *)
(***************************************************************************)

(* The bytes in the buffer are not touched. *)
LEMMA FlowKept ==
  ASSUME TypeInv, Flow, world' = world, sent' = sent, net' = net, pending' = pending,
         pc' # "closed" /\ sess'.state # "ws" =>
           sess'.buf = <<>> \/ (sess'.buf = sess.buf /\ pc # "closed" /\ sess.state # "ws")
  PROVE  Flow' /\ Taken' = Taken /\ Unread' = Unread
<1>1. Unread' = Unread /\ Taken' = Taken /\ Script' = Script
  BY Steady DEF Unread, Taken
<1>2. Taken \in Int /\ Taken >= 0 /\ Unread = SubSeq(Script, Taken + 1, sent)
  BY UnreadTyped DEF Flow
<1>3. ASSUME pc' # "closed", sess'.state # "ws"
      PROVE  Base' >= 0 /\ sess'.buf = SubSeq(Script, Base' + 1, Taken)
  <2>1. CASE sess'.buf = <<>>
    <3>1. Base' = Taken
      BY <1>1, <1>2, <2>1 DEF Base
    <3>2. SubSeq(Script, Taken + 1, Taken) = <<>>
      <4> DEFINE a == Taken
                 c == a + 1
      <4>1. a \in Int /\ c \in Int /\ a < c
        BY <1>2
      <4> HIDE DEF a, c
      <4>2. SubSeq(Script, c, a) = <<>>
        BY <4>1, SubSeqEmpty
      <4> QED
        BY <4>2 DEF a, c
    <3> QED
      BY <1>2, <2>1, <3>1, <3>2
  <2>2. CASE sess'.buf = sess.buf /\ pc # "closed" /\ sess.state # "ws"
    <3>1. Base' = Base
      BY <1>1, <2>2 DEF Base
    <3> QED
      BY <2>2, <3>1 DEF Flow
  <2> QED
    BY <1>3, <2>1, <2>2
<1> QED
  BY <1>1, <1>2, <1>3 DEF Flow

(* What Recv takes goes to the end of the buffer, or out of it. *)
LEMMA FlowRead ==
  ASSUME TypeInv, Flow, Recv(Room), pc # "closed", sess.state # "ws", world' = world, sent' = sent,
         pc' # "closed" => sess'.buf = sess.buf \o Took(Room)
  PROVE  Flow' /\ (pc' # "closed" => Base' = Base)
<1> DEFINE b == sess.buf \o Took(Room)
<1>1. /\ b \in Seq(Pieces) /\ b = SubSeq(Script, Base + 1, Taken') /\ Len(b) = Taken' - Base
      /\ Base \in Nat /\ Taken' \in Nat /\ Unread' = SubSeq(Script, Taken' + 1, sent)
  BY ReadIs
<1> HIDE DEF b
<1>2. Script' = Script
  BY Steady
<1>3. ASSUME pc' # "closed" PROVE Base' = Base /\ sess'.buf = b
  <2>1. sess'.buf = b
    BY <1>3 DEF b
  <2>2. Base' = Taken' - Len(b)
    BY <2>1 DEF Base
  <2> DEFINE l == Len(b)
             t == Taken'
             a == Base
  <2>3. l = t - a /\ a \in Nat /\ t \in Nat /\ Base' = t - l
    BY <1>1, <2>2
  <2> HIDE DEF l, t, a
  <2>4. Base' = a
    BY <2>3
  <2> QED
    BY <2>1, <2>4 DEF a
<1>4. Flow'
  <2>1. Taken' >= 0 /\ Unread' = SubSeq(Script', Taken' + 1, sent')
    BY <1>1, <1>2
  <2>2. pc' # "closed" => Base' >= 0 /\ sess'.buf = SubSeq(Script', Base' + 1, Taken')
    BY <1>1, <1>2, <1>3
  <2> QED
    BY <2>1, <2>2 DEF Flow
<1> QED
  BY <1>3, <1>4

LEMMA FlowStep ==
  ASSUME TypeInv, Flow, Next
  PROVE  Flow'
<1>1. world' = world
  BY WorldStays
<1>2. CASE ReadHeaders
  <2>1. Recv(Room) /\ pc # "closed" /\ sess.state # "ws" /\ sent' = sent
    BY <1>2 DEF ReadHeaders, InState
  <2>2. pc' # "closed" => sess'.buf = sess.buf \o Took(Room)
    <3> DEFINE b == sess.buf \o Took(Room)
    <3>1. sess \in Session
      BY Fields
    <3>2. \/ \E i, u, s : sess' = [sess EXCEPT !.buf = b, !.req = i, !.uri = u, !.state = s]
          \/ pc' = "closed"
          \/ sess' = [sess EXCEPT !.buf = b]
      BY <1>2 DEF ReadHeaders, Parse, Close
    <3> HIDE DEF b
    <3>3. pc' # "closed" => sess'.buf = b
      BY <3>1, <3>2 DEF Session
    <3> QED
      BY <3>3 DEF b
  <2> QED
    BY <1>1, <2>1, <2>2, FlowRead
<1>3. CASE ReadBody
  <2>1. Recv(Room) /\ pc # "closed" /\ sess.state # "ws" /\ sent' = sent
    BY <1>3 DEF ReadBody, InState
  <2>2. sess'.buf = sess.buf \o Took(Room)
    BY <1>3, Fields DEF ReadBody, Session
  <2> QED
    BY <1>1, <2>1, <2>2, FlowRead
<1>4. CASE Read /\ ~ReadHeaders /\ ~ReadBody
  <2>1. sess.state # "ws" /\ pc # "closed" /\ sent' = sent /\ net' = net /\ pending' = pending
    BY <1>4 DEF Read, Detect, DetectRetries, Grow, BodyComplete, ReadRetries, ReadEnds, Waiting,
                InState, Quiet
  <2>2. pc' # "closed" => sess'.buf = sess.buf
    BY <1>4, Fields DEF Read, Detect, DetectRetries, Grow, BodyComplete, ReadRetries, ReadEnds, Close, Session
  <2> QED
    BY <1>1, <2>1, <2>2, FlowKept
<1>5. CASE Handle
  <2>1. sess.state # "ws" /\ pc # "closed" /\ sent' = sent /\ net' = net /\ pending' = pending
    BY <1>5, HandleOK DEF Handle, HandleUpgrade, HandleFcgi, HandlePage, HandleNoAccess, HandleFile,
                          Routed, InState
  <2>2. pc' # "closed" => sess'.buf = <<>> \/ sess'.buf = sess.buf
    BY <1>5, Fields, NewOK DEF Handle, HandleUpgrade, HandleFcgi, HandlePage, HandleNoAccess, HandleFile,
                               Close, Session
  <2> QED
    BY <1>1, <2>1, <2>2, FlowKept
<1>6. CASE Respond
  <2>1. sess.state # "ws" /\ pc # "closed" /\ sent' = sent /\ net' = net /\ pending' = pending
    BY <1>6, RespondOK DEF Respond, FcgiCompletes, FcgiFails, SendRetries, SendFails, SendShrunk,
                           SendDone, SendSome, InState
  <2>2. pc' # "closed" => sess'.buf = <<>> \/ sess'.buf = sess.buf
    <3>1. CASE NextRequest
      BY <3>1, NextOK, NewOK
    <3>2. CASE ~NextRequest
      BY <1>6, <3>2, Fields DEF Respond, FcgiCompletes, FcgiFails, SendRetries, SendFails, SendShrunk,
                                SendDone, SendSome, Close, Advance, Session
    <3> QED
      BY <3>1, <3>2
  <2> QED
    BY <1>1, <2>1, <2>2, FlowKept
<1>7. CASE Reports \/ ClientLeaves
  <2>1. /\ sent' = sent /\ net' = net /\ pending' = pending /\ sess' = sess
        /\ pc' # "closed" => pc # "closed"
    BY <1>7 DEF Reports, ClientLeaves, Quiet
  <2> QED
    BY <1>1, <2>1, FlowKept
<1>8. CASE \E n \in 1 .. Len(Script) : ClientSends(n)
  <2>1. PICK n \in 1 .. Len(Script) : ClientSends(n)
    BY <1>8
  <2>2. n \in Nat
    OBVIOUS
  <2>3. Taken' = Taken /\ Unread' = SubSeq(Script, Taken + 1, sent')
    BY <2>1, <2>2, SendsIs DEF Flow
  <2>4. pc' = pc /\ sess' = sess /\ Script' = Script
    BY <1>1, <2>1, Steady DEF ClientSends
  <2>5. Base' = Base
    BY <2>3, <2>4 DEF Base
  <2> QED
    BY <2>3, <2>4, <2>5 DEF Flow
<1>9. CASE WsStep
  <2>1. sess.state = "ws" /\ sess' = sess /\ sent' = sent
    BY <1>9, WsOK
  <2>2. CASE WsRetries \/ WsEnds
    <3>1. net' = net /\ pending' = pending
      BY <2>2 DEF WsRetries, WsEnds
    <3> QED
      BY <1>1, <2>1, <3>1, FlowKept
  <2>3. CASE \E part \in Parts : Receive(part)
    <3>1. PICK part \in Parts : Receive(part)
      BY <2>3
    <3> DEFINE missing == Expected(recv, part) - Len(recv[part])
    <3>2. missing \in Int /\ Recv(missing)
      BY <3>1, ReceiveIs
    <3> HIDE DEF missing
    <3>3. Taken' = Taken + Len(Took(missing)) /\ Unread' = SubSeq(Script, Taken' + 1, sent)
      BY <1>1, <2>1, <3>2, RecvTakes DEF Flow
    <3>4. Len(Took(missing)) \in 1 .. missing
      BY <3>2, RecvTypes
    <3>5. Taken' >= 0
      <4> DEFINE l == Len(Took(missing))
                 t == Taken
      <4>1. t \in Int /\ t >= 0 /\ l \in 1 .. missing /\ Taken' = t + l
        BY <3>3, <3>4, UnreadTyped DEF Flow
      <4> HIDE DEF l, t
      <4> QED
        BY <3>2, <4>1
    <3> QED
      BY <1>1, <2>1, <3>3, <3>5, Steady DEF Flow
  <2> QED
    BY <1>9, <2>2, <2>3 DEF WsStep
<1> QED
  BY <1>2, <1>3, <1>4, <1>5, <1>6, <1>7, <1>8, <1>9 DEF Next, HttpStep, ClientStep

LEMMA FlowInit == Init => Flow
<1> SUFFICES ASSUME Init PROVE Flow
  OBVIOUS
<1>1. /\ net = <<>> /\ pending = <<>> /\ sent = 0 /\ sess = NewSession /\ pc = "parked"
  BY DEF Init, HttpInit
<1>2. Unread = <<>>
  BY <1>1, FlattenNone DEF Unread
<1>3. Taken = 0 /\ Base = 0 /\ sess.buf = <<>>
  <2>1. sess.buf = <<>>
    BY <1>1 DEF NewSession
  <2>2. Len(Unread) = 0 /\ Len(sess.buf) = 0
    BY <1>2, <2>1
  <2> DEFINE m == Len(Unread)
             n == Len(sess.buf)
  <2>3. Taken = sent - m /\ Base = Taken - n /\ m = 0 /\ n = 0 /\ sent = 0
    BY <1>1, <2>2 DEF Taken, Base
  <2> HIDE DEF m, n
  <2>4. Taken = 0 /\ Base = 0
    BY <2>3
  <2> QED
    BY <2>1, <2>4
<1>4. SubSeq(Script, 0 + 1, 0) = <<>>
  <2> DEFINE z == 0
             one == 0 + 1
  <2>1. z \in Int /\ one \in Int /\ z < one
    OBVIOUS
  <2> HIDE DEF z, one
  <2>2. SubSeq(Script, one, z) = <<>>
    BY <2>1, SubSeqEmpty
  <2> QED
    BY <2>2 DEF z, one
<1> QED
  BY <1>1, <1>2, <1>3, <1>4 DEF Flow



(***************************************************************************)
(* The order of requests, answers and what the client waits for.           *)
(***************************************************************************)

(* What is written, the connection being kept, is for the request at hand. *)
LEMMA NewReplies ==
  ASSUME TypeInv, Next, pc' # "closed"
  PROVE  /\ \A k \in DOMAIN wire' :
              (k \in DOMAIN wire /\ wire'[k] = wire[k]) \/ wire'[k][1] = sess.req
         /\ sess.state \notin {"handle", "fcgi", "send"} => wire' = wire
         /\ sess.state = "handle" => wire' = wire \/ sess'.state = "ws"
<1>1. /\ wire \in Seq(Replies) /\ sess.req \in Nat /\ FileSize \in Nat
      /\ sess.state \in {"detect", "headers", "body", "handle", "fcgi", "send", "ws"}
  BY Fields, Sizes
<1> DEFINE Goal ==
  \A k \in DOMAIN wire' : (k \in DOMAIN wire /\ wire'[k] = wire[k]) \/ wire'[k][1] = sess.req
<1>2. ASSUME NEW x \in Seq(Replies), wire' = wire \o x, \A k \in 1 .. Len(x) : x[k][1] = sess.req
      PROVE  Goal
  <2> HIDE DEF Replies
  <2>1. /\ wire' \in Seq(Replies) /\ Len(wire') = Len(wire) + Len(x) /\ Len(wire) \in Nat
        /\ Len(x) \in Nat
        /\ \A k \in 1 .. Len(wire) : wire'[k] = wire[k]
        /\ \A k \in 1 .. Len(wire') : k > Len(wire) => wire'[k] = x[k - Len(wire)]
    BY <1>1, <1>2, ConcatIs
  <2> SUFFICES ASSUME NEW k \in DOMAIN wire'
               PROVE  (k \in DOMAIN wire /\ wire'[k] = wire[k]) \/ wire'[k][1] = sess.req
    OBVIOUS
  <2>2. k \in 1 .. Len(wire') /\ DOMAIN wire = 1 .. Len(wire)
    BY <1>1, <2>1
  <2>3. CASE k <= Len(wire)
    <3>1. k \in 1 .. Len(wire)
      BY <2>1, <2>2, <2>3
    <3> QED
      BY <2>1, <2>2, <3>1
  <2>4. CASE k > Len(wire)
    <3> DEFINE l == Len(wire)
               m == Len(x)
               n == Len(wire')
    <3>1. l \in Nat /\ m \in Nat /\ n = l + m /\ k \in 1 .. n /\ k > l
      BY <2>1, <2>2, <2>4
    <3> HIDE DEF l, m, n
    <3>2. k - l \in 1 .. m
      BY <3>1
    <3>3. x[k - l][1] = sess.req
      BY <1>2, <3>2 DEF m
    <3> QED
      BY <2>1, <2>2, <2>4, <3>3 DEF l
  <2> QED
    BY <2>1, <2>2, <2>3, <2>4
<1>3. ASSUME wire' = wire PROVE Goal
  BY <1>3
<1>4. CASE WsStep \/ ClientStep \/ Reports \/ Read
  <2>1. wire' = wire
    BY <1>4 DEF WsStep, WsRetries, WsEnds, Receive, WsQuiet, ClientStep, ClientLeaves,
       ClientSends, Reports, Quiet, Read, Detect, DetectRetries, Grow, ReadHeaders, Parse, ReadBody,
       BodyComplete, ReadRetries, ReadEnds, Close
  <2> QED
    BY <1>3, <2>1
<1>5. CASE Handle
  <2>1. sess.state = "handle"
    BY <1>5, HandleOK
  <2>2. CASE wire' = wire
    BY <1>3, <2>1, <2>2
  <2>3. CASE wire' # wire
    <3>1. wire' = Append(wire, <<sess.req, "101", 1>>) /\ sess' = [NewSession EXCEPT !.state = "ws"]
      BY <1>5, <2>3 DEF Handle, HandleUpgrade, HandleFcgi, HandlePage, HandleNoAccess, HandleFile,
                        Close, Quiet
    <3> DEFINE x == <<<<sess.req, "101", 1>>>>
    <3>2. x \in Seq(Replies) /\ wire' = wire \o x
      <4>1. <<sess.req, "101", 1>> \in Replies
        BY <1>1 DEF Replies
      <4> QED
        BY <3>1, <4>1, AppendIs
    <3>3. \A k \in 1 .. Len(x) : x[k][1] = sess.req
      OBVIOUS
    <3> HIDE DEF x
    <3>4. Goal
      BY <1>2, <3>2, <3>3
    <3>5. sess'.state = "ws"
      BY <3>1 DEF NewSession
    <3> QED
      BY <2>1, <3>4, <3>5
  <2> QED
    BY <2>2, <2>3
<1>6. CASE Respond
  <2>1. sess.state \in {"fcgi", "send"}
    BY <1>6, RespondOK
  <2>2. CASE wire' = wire
    BY <1>3, <2>1, <2>2
  <2>3. CASE FcgiCompletes
    <3> DEFINE x == Part(sess.req, "fcgi", 2)
    <3>1. x \in Seq(Replies) /\ wire' = wire \o x
      BY <1>1, <2>3, ReplyIs DEF FcgiCompletes
    <3>2. \A k \in 1 .. Len(x) : x[k][1] = sess.req
      BY <1>1, ReplyIs DEF Part
    <3> HIDE DEF x
    <3>3. Goal
      BY <1>2, <3>1, <3>2
    <3> QED
      BY <2>1, <3>3
  <2>4. CASE FcgiFails
    <3>1. PICK n \in 0 .. 1 :
            wire' = wire \o Part(sess.req, "fcgi", n)
                         \o (IF sess.header_sent THEN <<>> ELSE Part(sess.req, "page", 2))
      BY <2>4 DEF FcgiFails
    <3> DEFINE x == Part(sess.req, "fcgi", n)
               y == IF sess.header_sent THEN <<>> ELSE Part(sess.req, "page", 2)
    <3>2. x \in Seq(Replies) /\ \A k \in 1 .. Len(x) : x[k][1] = sess.req
      <4>1. n \in Nat
        OBVIOUS
      <4> QED
        BY <1>1, <4>1, ReplyIs DEF Part
    <3>3. y \in Seq(Replies) /\ \A k \in 1 .. Len(y) : y[k][1] = sess.req
      <4>1. <<>> \in Seq(Replies) /\ Len(<<>>) = 0
        <5> HIDE DEF Replies
        <5> QED
          OBVIOUS
      <4>2. /\ Part(sess.req, "page", 2) \in Seq(Replies)
            /\ \A k \in 1 .. Len(Part(sess.req, "page", 2)) : Part(sess.req, "page", 2)[k][1] = sess.req
        BY <1>1, ReplyIs DEF Part
      <4> QED
        BY <4>1, <4>2
    <3> HIDE DEF x, y, Replies
    <3>4. /\ x \o y \in Seq(Replies) /\ Len(x \o y) = Len(x) + Len(y) /\ Len(x) \in Nat /\ Len(y) \in Nat
          /\ \A k \in 1 .. Len(x) : (x \o y)[k] = x[k]
          /\ \A k \in 1 .. Len(x \o y) : k > Len(x) => (x \o y)[k] = y[k - Len(x)]
      BY <3>2, <3>3, ConcatIs
    <3>5. ASSUME NEW k \in 1 .. Len(x \o y) PROVE (x \o y)[k][1] = sess.req
      <4>1. CASE k <= Len(x)
        <5>1. k \in 1 .. Len(x)
          BY <3>4, <4>1
        <5> QED
          BY <3>2, <3>4, <5>1
      <4>2. CASE k > Len(x)
        <5> DEFINE l == Len(x)
                   m == Len(y)
                   o == Len(x \o y)
        <5>1. l \in Nat /\ m \in Nat /\ o = l + m /\ k \in 1 .. o /\ k > l
          BY <3>4, <4>2
        <5> HIDE DEF l, m, o
        <5>2. k - l \in 1 .. m
          BY <5>1
        <5>3. y[k - l][1] = sess.req
          BY <3>3, <5>2 DEF m
        <5> QED
          BY <3>4, <4>2, <5>3 DEF l
      <4> QED
        BY <3>4, <4>1, <4>2
    <3>6. wire' = wire \o (x \o y)
      <4>1. wire \in Seq(Replies) /\ x \in Seq(Replies) /\ y \in Seq(Replies)
        BY <1>1, <3>2, <3>3
      <4>2. (wire \o x) \o y = wire \o (x \o y)
        BY <4>1, ConcatAssociative
      <4> QED
        BY <3>1, <4>2 DEF x, y
    <3>7. Goal
      BY <1>2, <3>4, <3>5, <3>6
    <3> QED
      BY <2>1, <3>7
  <2>5. CASE \E n \in 1 .. 1 + FileSize : SendSome(n)
    <3>1. PICK n \in 1 .. 1 + FileSize : SendSome(n)
      BY <2>5
    <3> DEFINE first == 1 + FileSize - Unsent
               x == [k \in 1 .. n |-> <<sess.req, "file", first + k>>]
    <3>2. first \in Nat /\ n \in Nat
      BY Fields, Sizes DEF Unsent
    <3> HIDE DEF first
    <3>3. x \in Seq(Replies) /\ \A k \in 1 .. Len(x) : x[k][1] = sess.req
      <4>1. \A k \in 1 .. n : <<sess.req, "file", first + k>> \in Replies
        BY <1>1, <3>2 DEF Replies
      <4>2. x \in Seq(Replies) /\ Len(x) = n
        BY <3>2, <4>1
      <4> QED
        BY <4>2
    <3>4. wire' = wire \o x
      BY <3>1 DEF SendSome, first
    <3> HIDE DEF x
    <3>5. Goal
      BY <1>2, <3>3, <3>4
    <3> QED
      BY <2>1, <3>5
  <2> QED
    BY <1>6, <2>2, <2>3, <2>4, <2>5
       DEF Respond, SendRetries, SendFails, SendShrunk, SendDone, Quiet
<1> QED
  BY <1>4, <1>5, <1>6 DEF Next, HttpStep

(* The request stays the one it is. *)
Continues ==
  /\ sess'.buf = sess.buf /\ sess'.req = sess.req /\ Taken' = Taken /\ Base' = Base
  /\ sess.state = "send" \/ wire' = wire
  /\ \/ sess'.state = sess.state
     \/ sess.state = "detect" /\ sess'.state = "headers"
     \/ sess.state = "body" /\ sess'.state = "handle" /\ ~BodyMissing
     \/ sess.state = "handle" /\ sess'.state \in {"fcgi", "send"}

(* It is done, the next one is read. *)
Restarts ==
  /\ sess.state \in {"fcgi", "send"} /\ sess' = ResetSession /\ sess'.state = "headers"
  /\ sess'.buf = <<>> /\ Taken' = Taken /\ Base' = Taken
  /\ FcgiCompletes \/ FcgiFails \/ SendShrunk \/ SendDone

LEMMA Moves ==
  ASSUME TypeInv, Flow, Next, pc' # "closed", sess'.state # "ws"
  PROVE  /\ pc # "closed" /\ sess.state # "ws"
         /\ ReadHeaders \/ ReadBody \/ Continues \/ Restarts
<1>1. world' = world /\ sess \in Session /\ Taken \in Int
  BY WorldStays, Fields, UnreadTyped
<1>2. ASSUME sent' = sent, net' = net, pending' = pending, sess'.buf = sess.buf, pc # "closed",
             sess.state # "ws"
      PROVE  Taken' = Taken /\ Base' = Base
  <2>1. Taken' = Taken
    BY <1>1, <1>2, FlowKept
  <2> QED
    BY <1>2, <2>1 DEF Base
<1>3. CASE Read /\ ~ReadHeaders /\ ~ReadBody
  <2>1. sess.state # "ws" /\ pc # "closed" /\ sent' = sent /\ net' = net /\ pending' = pending
    BY <1>3 DEF Read, Detect, DetectRetries, Grow, BodyComplete, ReadRetries, ReadEnds, Waiting,
                InState, Quiet
  <2>2. /\ sess'.buf = sess.buf /\ sess'.req = sess.req
        /\ \/ sess'.state = sess.state
           \/ sess.state = "detect" /\ sess'.state = "headers"
           \/ sess.state = "body" /\ sess'.state = "handle" /\ ~BodyMissing
    BY <1>1, <1>3 DEF Read, Detect, DetectRetries, Grow, BodyComplete, ReadRetries, ReadEnds, Close,
                      Session, InState
  <2>3. wire' = wire
    BY <1>3 DEF Read, Detect, DetectRetries, Grow, BodyComplete, ReadRetries, ReadEnds, Quiet
  <2> QED
    BY <1>2, <2>1, <2>2, <2>3 DEF Continues
<1>4. CASE Handle
  <2>1. sess.state = "handle" /\ pc # "closed" /\ sent' = sent /\ net' = net /\ pending' = pending
    BY <1>4, HandleOK DEF Handle, HandleUpgrade, HandleFcgi, HandlePage, HandleNoAccess, HandleFile,
                          Routed, InState
  <2>2. /\ sess'.buf = sess.buf /\ sess'.req = sess.req /\ sess'.state \in {"fcgi", "send"}
        /\ wire' = wire
    <3>1. ~HandleUpgrade
      BY NewOK DEF HandleUpgrade, NewSession
    <3> QED
      BY <1>1, <1>4, <3>1 DEF Handle, HandleFcgi, HandlePage, HandleNoAccess, HandleFile, Close,
                              Session, Quiet
  <2> QED
    BY <1>2, <2>1, <2>2 DEF Continues
<1>5. CASE Respond
  <2>1. sess.state \in {"fcgi", "send"} /\ pc # "closed" /\ sent' = sent /\ net' = net /\ pending' = pending
    BY <1>5, RespondOK DEF Respond, FcgiCompletes, FcgiFails, SendRetries, SendFails, SendShrunk,
                           SendDone, SendSome, InState
  <2>2. CASE NextRequest /\ (FcgiCompletes \/ FcgiFails \/ SendShrunk \/ SendDone)
    <3>1. sess' = ResetSession /\ sess'.state = "headers" /\ sess'.buf = <<>>
      BY <2>2, NextOK, NewOK
    <3>2. Taken' = Taken
      BY <1>1, <2>1, <3>1, FlowKept
    <3>3. Base' = Taken
      <4>1. Len(sess'.buf) = 0
        BY <3>1
      <4> DEFINE l == Len(sess'.buf)
      <4>2. l = 0 /\ Base' = Taken' - l
        BY <4>1 DEF Base
      <4> HIDE DEF l
      <4> QED
        BY <1>1, <3>2, <4>2
    <3> QED
      BY <2>1, <2>2, <3>1, <3>2, <3>3 DEF Restarts
  <2>3. CASE SendRetries \/ \E n \in 1 .. 1 + FileSize : SendSome(n)
    <3>1. /\ sess'.buf = sess.buf /\ sess'.req = sess.req /\ sess'.state = sess.state
          /\ sess.state = "send"
      BY <1>1, <2>3 DEF SendRetries, SendSome, Advance, Session, InState
    <3> QED
      BY <1>2, <2>1, <3>1 DEF Continues
  <2> QED
    BY <1>5, <2>1, <2>2, <2>3 DEF Respond, FcgiCompletes, FcgiFails, SendFails, SendShrunk, SendDone, Close
<1>6. CASE Reports \/ ClientLeaves
  <2>1. /\ sent' = sent /\ net' = net /\ pending' = pending /\ sess' = sess /\ pc # "closed"
        /\ wire' = wire
    BY <1>6 DEF Reports, ClientLeaves, Quiet
  <2> QED
    BY <1>2, <2>1 DEF Continues
<1>7. CASE \E n \in 1 .. Len(Script) : ClientSends(n)
  <2>1. PICK n \in 1 .. Len(Script) : ClientSends(n)
    BY <1>7
  <2>2. n \in Nat
    OBVIOUS
  <2>3. Taken' = Taken /\ pc # "closed" /\ sess' = sess /\ wire' = wire
    BY <2>1, <2>2, SendsIs DEF Flow, ClientSends
  <2> QED
    BY <2>3 DEF Continues, Base
<1>8. CASE WsStep
  BY <1>8, WsOK
<1>9. CASE ReadHeaders \/ ReadBody
  BY <1>9 DEF ReadHeaders, ReadBody, InState
<1> QED
  BY <1>3, <1>4, <1>5, <1>6, <1>7, <1>8, <1>9 DEF Next, HttpStep, ClientStep, Read

(* What a session that answers has read. *)
LEMMA AnsweringIs ==
  ASSUME TypeInv, Flow, Order, pc # "closed", sess.state \in Answering
  PROVE  /\ sess.req \in 1 .. Requests /\ H(sess.req - 1) \in Nat /\ H(sess.req) \in Nat
         /\ Base \in Nat /\ Taken \in Nat /\ Len(sess.buf) = Taken - Base
         /\ HeaderEnd(sess.buf) \in 1 .. Len(sess.buf)
         /\ Base + HeaderEnd(sess.buf) = H(sess.req - 1) + 2
         /\ H(sess.req) = H(sess.req - 1) + 2 + Req.body /\ Req.body \in Nat /\ Req.declared \in Nat
         /\ Taken >= H(sess.req - 1) + 2
         /\ sess.state # "body" => Taken >= H(sess.req - 1) + 2 + Req.declared
<1>1. /\ world \in World /\ sess.req \in 1 .. Requests /\ sess.buf \in Seq(Pieces)
      /\ Taken \in Int /\ Len(sess.buf) \in Nat
  <2>1. sess.req # 0 /\ sess.req \in 0 .. Requests /\ Requests \in Nat
    BY Fields DEF TypeInv, SessionOK
  <2> QED
    BY <2>1, Fields, UnreadTyped
<1>2. /\ Taken >= 0 /\ Base >= 0 /\ HeaderEnd(sess.buf) > 0
      /\ Base + HeaderEnd(sess.buf) = H(sess.req - 1) + 2
      /\ (sess.state # "body" => ~BodyMissing)
  BY DEF Flow, Order, Answering
<1>3. HeaderEnd(sess.buf) \in 0 .. Len(sess.buf)
  BY <1>1, HeaderEndIs
<1>4. /\ H(sess.req - 1) \in Nat /\ H(sess.req) \in Nat
      /\ H(sess.req) = H(sess.req - 1) + 2 + world.reqs[sess.req].body
  <2>1. sess.req - 1 \in 0 .. Requests /\ sess.req \in 0 .. Requests
    BY <1>1, WorldTyped
  <2> QED
    BY <1>1, <2>1, RequestsLie
<1>5. Req.body \in Nat /\ Req.declared \in Nat
  BY <1>1, WorldTyped DEF Req, Request
<1> DEFINE h == HeaderEnd(sess.buf)
           l == Len(sess.buf)
           d == Req.declared
           p == H(sess.req - 1)
           t == Taken
           a == Base
<1>6. /\ a = t - l /\ t \in Int /\ l \in Nat /\ h \in 0 .. l /\ h > 0 /\ t >= 0 /\ a >= 0
      /\ a + h = p + 2 /\ p \in Nat /\ d \in Nat
  BY <1>1, <1>2, <1>3, <1>4, <1>5 DEF Base
<1>7. sess.state # "body" => ~ (l - h < d)
  BY <1>2 DEF BodyMissing, Received
<1> HIDE DEF h, l, d, p, t, a
<1>8. /\ a \in Nat /\ t \in Nat /\ l = t - a /\ h \in 1 .. l /\ t >= p + 2
  BY <1>6
<1>9. sess.state # "body" => t >= p + 2 + d
  BY <1>6, <1>7
<1> QED
  BY <1>1, <1>2, <1>4, <1>5, <1>8, <1>9 DEF h, l, d, p, t, a, Req

(* The requests lie one after the other. *)
LEMMA HeadsApart ==
  ASSUME world \in World, NEW i \in 1 .. Requests, NEW j \in 1 .. Requests
  PROVE  /\ H(i - 1) \in Nat /\ H(j - 1) \in Nat /\ H(i) \in Nat /\ H(j) \in Nat
         /\ i <= j => H(i - 1) <= H(j - 1) /\ H(i) <= H(j)
         /\ i < j => H(i - 1) + 2 <= H(j - 1) /\ H(i) <= H(j - 1)
         /\ H(i - 1) < H(j - 1) => i < j
<1>1. i \in Int /\ j \in Int /\ Requests \in Nat
  BY WorldTyped
<1>2. i - 1 \in 0 .. Requests /\ j - 1 \in 0 .. Requests /\ i \in 0 .. Requests /\ j \in 0 .. Requests
  BY <1>1
<1>3. /\ H(i - 1) \in Nat /\ H(j - 1) \in Nat /\ H(i) \in Nat /\ H(j) \in Nat
      /\ H(i) = H(i - 1) + 2 + world.reqs[i].body /\ world.reqs[i].body \in Nat
  BY <1>2, RequestsLie, WorldTyped
<1>4. ASSUME i <= j PROVE H(i - 1) <= H(j - 1) /\ H(i) <= H(j)
  <2>1. i - 1 \in 0 .. j - 1 /\ i \in 0 .. j
    BY <1>1, <1>4
  <2> QED
    BY <1>2, <2>1, RequestsLie
<1>5. ASSUME i < j PROVE H(i - 1) + 2 <= H(j - 1) /\ H(i) <= H(j - 1)
  <2>1. i \in 0 .. j - 1
    BY <1>1, <1>5
  <2>2. H(i) <= H(j - 1)
    BY <1>2, <2>1, RequestsLie
  <2> DEFINE a == H(i)
             b == H(i - 1)
             c == H(j - 1)
             d == world.reqs[i].body
  <2>3. a \in Nat /\ b \in Nat /\ c \in Nat /\ d \in Nat /\ a = b + 2 + d /\ a <= c
    BY <1>3, <2>2
  <2> HIDE DEF a, b, c, d
  <2>4. b + 2 <= c /\ a <= c
    BY <2>3
  <2> QED
    BY <2>4 DEF a, b, c
<1>6. ASSUME H(i - 1) < H(j - 1) PROVE i < j
  <2> SUFFICES ASSUME j <= i PROVE FALSE
    BY <1>1
  <2>1. j - 1 \in 0 .. i - 1
    BY <1>1, <1>2
  <2>2. H(j - 1) <= H(i - 1)
    BY <1>2, <2>1, RequestsLie
  <2> QED
    BY <1>3, <1>6, <2>2
<1> QED
  BY <1>3, <1>4, <1>5, <1>6

(* The header is not there yet, or begins a request. *)
LEMMA HeadersIs ==
  ASSUME TypeInv, Flow, ReadHeaders, Next, pc' # "closed"
  PROVE  /\ pc = "run" /\ sess.state = "headers" /\ wire' = wire /\ sent' = sent
         /\ Base' = Base /\ Base \in Nat /\ Taken' \in Nat /\ Taken' <= sent
         /\ \/ sess'.state = "headers"
            \/ /\ sess'.state \in {"body", "handle"} /\ sess'.req \in 1 .. Requests
               /\ HeaderEnd(sess'.buf) \in Nat \ {0}
               /\ Base + HeaderEnd(sess'.buf) = H(sess'.req - 1) + 2
               /\ \A k \in 0 .. Requests - 1 : Base = H(k) => sess'.req = k + 1
               /\ sess'.state # "body" => ~BodyMissing'
<1>1. world' = world /\ sess \in Session /\ world \in World
  BY WorldStays, Fields
<1>2. /\ pc = "run" /\ sess.state = "headers" /\ sent' = sent /\ Recv(Room)
  BY DEF ReadHeaders, InState
<1> DEFINE b == sess.buf \o Took(Room)
           h == HeaderEnd(b)
           i == b[h][1]
           r == world.reqs[i]
           u == IF r.routed THEN "route" ELSE "buffer"
           s == IF r.declared > 0 THEN "body" ELSE "handle"
<1>3. /\ b \in Seq(Pieces) /\ Base \in Nat /\ Taken' \in Nat /\ Taken' <= sent
      /\ h > 0 => /\ i \in 1 .. Requests /\ Base + h = H(i - 1) + 2
                  /\ \A k \in 0 .. Requests - 1 : Base = H(k) => i = k + 1
  BY <1>1, <1>2, ReadIs
<1>4. \/ h > 0 /\ sess' = [sess EXCEPT !.buf = b, !.req = i, !.uri = u, !.state = s] /\ wire' = wire
      \/ sess' = [sess EXCEPT !.buf = b] /\ wire' = wire
  BY DEF ReadHeaders, Parse, Close
<1>5. h \in 0 .. Len(b) /\ Len(b) \in Nat
  <2> HIDE DEF b
  <2> QED
    BY <1>3, HeaderEndIs
<1>6. h > 0 => r.declared \in Nat
  BY <1>1, <1>3, WorldTyped DEF Request
<1> HIDE DEF b, h, i, r, u, s
<1>7. sess'.buf = b
  BY <1>1, <1>4 DEF Session
<1>8. Base' = Base
  BY <1>1, <1>2, <1>7, FlowRead DEF b
<1>9. CASE sess' = [sess EXCEPT !.buf = b] /\ wire' = wire
  <2>1. sess'.state = "headers"
    BY <1>1, <1>2, <1>9 DEF Session
  <2> QED
    BY <1>2, <1>3, <1>8, <1>9, <2>1
<1>10. CASE h > 0 /\ sess' = [sess EXCEPT !.buf = b, !.req = i, !.uri = u, !.state = s] /\ wire' = wire
  <2>1. sess'.state = s /\ sess'.req = i
    BY <1>1, <1>10 DEF Session
  <2>2. s \in {"body", "handle"} /\ (s # "body" => ~ (r.declared > 0))
    BY DEF s
  <2>3. HeaderEnd(sess'.buf) = h /\ h \in Nat \ {0}
    BY <1>5, <1>7, <1>10 DEF h
  <2>4. s # "body" => ~BodyMissing'
    <3> SUFFICES ASSUME s # "body" PROVE ~BodyMissing'
      OBVIOUS
    <3>1. Req' = r
      BY <1>1, <2>1 DEF Req, r
    <3>2. Received' = Len(b) - h
      BY <1>7, <2>3 DEF Received
    <3> DEFINE d == r.declared
               l == Len(b)
    <3>3. d \in Nat /\ ~ (d > 0) /\ l \in Nat /\ h \in 0 .. l
      BY <1>5, <1>6, <1>10, <2>2
    <3>4. Req'.declared = d /\ Received' = l - h
      BY <3>1, <3>2
    <3>5. BodyMissing' <=> Received' < Req'.declared
      BY DEF BodyMissing
    <3> HIDE DEF d, l
    <3> QED
      BY <3>3, <3>4, <3>5
  <2> QED
    BY <1>2, <1>3, <1>8, <1>10, <2>1, <2>2, <2>3, <2>4
<1> QED
  BY <1>4, <1>9, <1>10

(* More of a body. *)
LEMMA BodyIs ==
  ASSUME TypeInv, Flow, ReadBody, Next, pc' # "closed"
  PROVE  /\ pc = "run" /\ sess.state = "body" /\ wire' = wire /\ sent' = sent
         /\ sess'.state = "body" /\ sess'.req = sess.req
         /\ Base' = Base /\ Base \in Nat /\ Taken' \in Nat /\ Taken' <= sent
         /\ HeaderEnd(sess.buf) > 0 => HeaderEnd(sess'.buf) = HeaderEnd(sess.buf)
<1>1. world' = world /\ sess \in Session /\ world \in World /\ sess.buf \in Seq(Pieces) /\ Room \in Int
  <2>1. Room \in Int
    BY Fields
  <2> QED
    BY <2>1, WorldStays, Fields
<1>2. /\ pc = "run" /\ sess.state = "body" /\ sent' = sent /\ Recv(Room) /\ wire' = wire
  BY DEF ReadBody, InState
<1>3. /\ Base \in Nat /\ Taken' \in Nat /\ Taken' <= sent
  BY <1>1, <1>2, ReadIs
<1>4. sess' = [sess EXCEPT !.buf = sess.buf \o Took(Room)]
  BY DEF ReadBody
<1>5. sess'.buf = sess.buf \o Took(Room) /\ sess'.state = "body" /\ sess'.req = sess.req
  BY <1>1, <1>2, <1>4 DEF Session
<1>6. Base' = Base
  BY <1>1, <1>2, <1>5, FlowRead
<1>7. Took(Room) \in Seq(Pieces)
  BY <1>1, <1>2, RecvTypes
<1>8. HeaderEnd(sess.buf) > 0 => HeaderEnd(sess'.buf) = HeaderEnd(sess.buf)
  <2> DEFINE x == sess.buf
             y == Took(Room)
  <2>1. x \in Seq(Pieces) /\ y \in Seq(Pieces)
    BY <1>1, <1>7
  <2> HIDE DEF x, y
  <2>2. HeaderEnd(x) > 0 => HeaderEnd(x \o y) = HeaderEnd(x)
    BY <2>1, HeaderStays
  <2> QED
    BY <1>5, <2>2 DEF x, y
<1> QED
  BY <1>2, <1>3, <1>5, <1>6, <1>8

LEMMA EndedStep ==
  ASSUME TypeInv, Ended, Next
  PROVE  Ended'
<1> SUFFICES ASSUME pc' = "closed" PROVE sess'.state \in {"detect", "ws"}
  BY DEF Ended
<1>1. CASE Close
  BY <1>1, CloseOK DEF NewSession
<1>2. CASE WsStep
  BY <1>2, WsOK
<1>3. CASE ClientStep
  BY <1>3 DEF ClientStep, ClientLeaves, ClientSends, Ended
<1>4. CASE NextRequest /\ ~Close
  BY <1>4 DEF NextRequest, Park
<1>5. CASE Read /\ ~Close
  BY <1>5 DEF Read, Detect, DetectRetries, Grow, ReadHeaders, Parse, ReadBody, BodyComplete,
              ReadRetries, ReadEnds, Waiting, InState, Stay, Park
<1>6. CASE Handle /\ ~Close
  BY <1>6 DEF Handle, HandleUpgrade, HandleFcgi, HandlePage, HandleNoAccess, HandleFile, Park
<1>7. CASE Respond /\ ~Close /\ ~NextRequest
  BY <1>7 DEF Respond, FcgiCompletes, FcgiFails, SendRetries, SendFails, SendShrunk, SendDone,
              SendSome, InState, Stay, ParkToWrite, Park
<1>8. CASE Reports
  BY <1>8 DEF Reports
<1> QED
  BY <1>1, <1>2, <1>3, <1>4, <1>5, <1>6, <1>7, <1>8 DEF Next, HttpStep

LEMMA OrderStep ==
  ASSUME TypeInv, Flow, Order, Next
  PROVE  Order'
<1> SUFFICES ASSUME pc' # "closed" PROVE Order'
  BY DEF Order
<1> DEFINE n == Requests
<1>1. world' = world /\ world \in World /\ n \in Nat \ {0}
      /\ Requests' = n /\ \A i : H(i)' = H(i)
  BY WorldStays, Fields, Steady
<1> HIDE DEF n
<1>2. CASE sess'.state \notin Asking \cup Answering
  BY <1>2 DEF Order
<1>3. CASE sess'.state \in Asking \cup Answering
  <2>1. /\ pc # "closed" /\ sess.state # "ws"
        /\ ReadHeaders \/ ReadBody \/ Continues \/ Restarts
    BY <1>3, Moves DEF Asking, Answering
  <2>2. CASE ReadHeaders
    <3>1. sess.state \in Asking /\ wire' = wire /\ Base' = Base /\ Base \in Nat
          /\ \/ sess'.state = "headers"
             \/ /\ sess'.state \in {"body", "handle"} /\ sess'.req \in 1 .. n
                /\ HeaderEnd(sess'.buf) \in Nat \ {0}
                /\ Base + HeaderEnd(sess'.buf) = H(sess'.req - 1) + 2
                /\ sess'.state # "body" => ~BodyMissing'
      BY <2>2, HeadersIs DEF Asking, n
    <3>2. \A k \in DOMAIN wire : wire[k][1] \in 1 .. n /\ H(wire[k][1] - 1) + 2 <= Base
      BY <2>1, <3>1 DEF Order, n
    <3>3. CASE sess'.state = "headers"
      <4>1. \A k \in DOMAIN wire' : wire'[k][1] \in 1 .. Requests' /\ H(wire'[k][1] - 1) + 2 <= Base'
        BY <1>1, <3>1, <3>2
      <4>2. sess'.state \notin Answering
        BY <3>3 DEF Answering
      <4> QED
        BY <1>1, <4>1, <4>2 DEF Order
    <3>4. CASE /\ sess'.state \in {"body", "handle"} /\ sess'.req \in 1 .. n
               /\ HeaderEnd(sess'.buf) \in Nat \ {0}
               /\ Base + HeaderEnd(sess'.buf) = H(sess'.req - 1) + 2
               /\ sess'.state # "body" => ~BodyMissing'
      <4>1. ASSUME NEW k \in DOMAIN wire
            PROVE  wire[k][1] \in 1 .. sess'.req /\ wire[k][1] # sess'.req
        <5> DEFINE w == wire[k][1]
                   q == sess'.req
                   h == HeaderEnd(sess'.buf)
                   a == H(w - 1)
                   b == H(q - 1)
                   c == Base
        <5>1. w \in 1 .. n /\ q \in 1 .. n /\ a + 2 <= c /\ c + h = b + 2 /\ h \in Nat \ {0} /\ c \in Nat
          BY <3>1, <3>2, <3>4
        <5>2. a \in Nat /\ b \in Nat /\ (a < b => w < q)
          BY <1>1, <5>1, HeadsApart DEF n
        <5> HIDE DEF w, q, h, a, b, c
        <5>3. w < q
          BY <5>1, <5>2
        <5>4. w \in 1 .. q /\ w # q
          BY <1>1, <5>1, <5>3
        <5> QED
          BY <5>4 DEF w, q
      <4>2. HeaderEnd(sess'.buf) > 0 /\ Base' + HeaderEnd(sess'.buf) = H(sess'.req - 1) + 2
        BY <1>1, <3>1, <3>4
      <4>3. \A k \in DOMAIN wire' : /\ wire'[k][1] \in 1 .. sess'.req
                                    /\ wire'[k][1] = sess'.req => sess'.state = "send"
        BY <3>1, <4>1
      <4>4. sess'.state \notin Asking
        BY <3>4 DEF Asking
      <4> QED
        BY <1>1, <3>4, <4>2, <4>3, <4>4 DEF Order
    <3> QED
      BY <3>1, <3>3, <3>4
  <2>3. CASE ReadBody
    <3>1. /\ sess.state = "body" /\ wire' = wire /\ sess'.state = "body" /\ sess'.req = sess.req
          /\ Base' = Base
          /\ HeaderEnd(sess.buf) > 0 => HeaderEnd(sess'.buf) = HeaderEnd(sess.buf)
      BY <2>3, BodyIs
    <3>2. /\ HeaderEnd(sess.buf) > 0 /\ Base + HeaderEnd(sess.buf) = H(sess.req - 1) + 2
          /\ \A k \in DOMAIN wire : /\ wire[k][1] \in 1 .. sess.req
                                    /\ wire[k][1] = sess.req => sess.state = "send"
      BY <2>1, <3>1 DEF Order, Answering
    <3>3. /\ HeaderEnd(sess'.buf) > 0 /\ Base' + HeaderEnd(sess'.buf) = H(sess'.req - 1) + 2
          /\ \A k \in DOMAIN wire' : /\ wire'[k][1] \in 1 .. sess'.req
                                     /\ wire'[k][1] = sess'.req => sess'.state = "send"
      BY <1>1, <3>1, <3>2
    <3> QED
      BY <1>1, <3>1, <3>3 DEF Order, Asking
  <2>4. CASE Continues
    <3>1. CASE sess'.state \in Asking
      <4>1. sess.state \in Asking /\ wire' = wire /\ Base' = Base
        BY <2>4, <3>1 DEF Continues, Asking
      <4>2. \A k \in DOMAIN wire' : wire'[k][1] \in 1 .. Requests' /\ H(wire'[k][1] - 1) + 2 <= Base'
        BY <1>1, <2>1, <4>1 DEF Order, n
      <4> QED
        BY <1>1, <3>1, <4>2 DEF Order, Asking, Answering
    <3>2. CASE sess'.state \in Answering
      <4>1. sess.state \in Answering /\ sess'.buf = sess.buf /\ sess'.req = sess.req /\ Base' = Base
        BY <2>4, <3>2 DEF Continues, Answering
      <4>2. /\ HeaderEnd(sess.buf) > 0 /\ Base + HeaderEnd(sess.buf) = H(sess.req - 1) + 2
            /\ \A k \in DOMAIN wire : /\ wire[k][1] \in 1 .. sess.req
                                      /\ wire[k][1] = sess.req => sess.state = "send"
            /\ sess.state # "body" => ~BodyMissing
        BY <2>1, <4>1 DEF Order
      <4>3. HeaderEnd(sess'.buf) > 0 /\ Base' + HeaderEnd(sess'.buf) = H(sess'.req - 1) + 2
        BY <1>1, <4>1, <4>2
      <4>4. sess'.state # "body" => ~BodyMissing'
        <5>1. BodyMissing' <=> BodyMissing
          BY <1>1, <4>1 DEF BodyMissing, Received, Req
        <5> QED
          BY <2>4, <4>2, <5>1 DEF Continues
      <4>5. ASSUME NEW k \in DOMAIN wire'
            PROVE  wire'[k][1] \in 1 .. sess'.req /\ (wire'[k][1] = sess'.req => sess'.state = "send")
        <5>1. CASE wire' = wire
          <6>1. wire[k][1] = sess.req => sess.state = "send"
            BY <4>2, <5>1
          <6>2. sess.state = "send" => sess'.state = "send"
            BY <2>4 DEF Continues
          <6> QED
            BY <4>1, <4>2, <5>1, <6>1, <6>2
        <5>2. CASE wire' # wire
          <6>1. sess'.state = "send"
            BY <2>4, <5>2 DEF Continues
          <6>2. (k \in DOMAIN wire /\ wire'[k] = wire[k]) \/ wire'[k][1] = sess.req
            BY NewReplies
          <6>3. sess.req \in 1 .. sess.req
            <7>1. sess.req \in 1 .. Requests
              BY <2>1, <4>1, AnsweringIs
            <7> QED
              BY <7>1
          <6> QED
            BY <4>1, <4>2, <6>1, <6>2, <6>3
        <5> QED
          BY <5>1, <5>2
      <4> QED
        BY <1>1, <3>2, <4>3, <4>4, <4>5 DEF Order, Asking, Answering
    <3> QED
      BY <1>3, <3>1, <3>2
  <2>5. CASE Restarts
    <3>1. /\ sess.state \in Answering /\ sess'.state = "headers" /\ Base' = Taken
      BY <2>5 DEF Restarts, Answering
    <3>2. sess.req \in 1 .. n /\ H(sess.req - 1) \in Nat /\ Taken \in Nat /\ Taken >= H(sess.req - 1) + 2
      BY <2>1, <3>1, AnsweringIs DEF n
    <3>3. \A k \in DOMAIN wire : wire[k][1] \in 1 .. sess.req
      BY <2>1, <3>1 DEF Order
    <3>4. ASSUME NEW k \in DOMAIN wire'
          PROVE  wire'[k][1] \in 1 .. n /\ H(wire'[k][1] - 1) + 2 <= Taken
      <4> DEFINE w == wire'[k][1]
                 q == sess.req
                 a == H(w - 1)
                 b == H(q - 1)
                 t == Taken
      <4>1. w \in 1 .. q /\ q \in 1 .. n
        <5>1. (k \in DOMAIN wire /\ wire'[k] = wire[k]) \/ w = q
          BY NewReplies
        <5>2. q \in 1 .. q
          BY <3>2
        <5> QED
          BY <3>2, <3>3, <5>1, <5>2
      <4>2. w \in 1 .. n /\ w <= q
        BY <1>1, <4>1
      <4>3. a \in Nat /\ b \in Nat /\ a <= b
        BY <1>1, <4>1, <4>2, HeadsApart DEF n
      <4>4. t \in Nat /\ t >= b + 2
        BY <3>2
      <4> HIDE DEF w, q, a, b, t
      <4>5. a + 2 <= t
        BY <4>3, <4>4
      <4> QED
        BY <4>2, <4>5 DEF w, a, t
    <3>5. \A k \in DOMAIN wire' : wire'[k][1] \in 1 .. Requests' /\ H(wire'[k][1] - 1) + 2 <= Base'
      BY <1>1, <3>1, <3>4
    <3> QED
      BY <1>1, <3>1, <3>5 DEF Order, Answering
  <2> QED
    BY <2>1, <2>2, <2>3, <2>4, <2>5
<1> QED
  BY <1>2, <1>3


LEMMA OrderInit == Init => Order /\ Limit /\ Ended
<1> SUFFICES ASSUME Init PROVE Order /\ Limit /\ Ended
  OBVIOUS
<1>1. /\ wire = <<>> /\ sess.state = "detect" /\ pc = "parked" /\ sent = 0 /\ world \in World
  BY DEF Init, HttpInit, NewSession
<1>2. Order
  BY <1>1 DEF Order, Answering
<1>3. Limit
  <2>1. ASSUME NEW i \in 1 .. Requests PROVE sent <= H(i)
    <3>1. i \in 0 .. Requests
      BY <1>1, WorldTyped
    <3>2. H(i) \in Nat
      BY <1>1, <3>1, RequestsLie
    <3> QED
      BY <1>1, <3>2
  <2> QED
    BY <2>1 DEF Limit
<1>4. Ended
  BY <1>1 DEF Ended
<1> QED
  BY <1>2, <1>3, <1>4

(* What was answered stays answered. *)
LEMMA AnsweredStays ==
  ASSUME TypeInv, Next, NEW i \in Nat, Answered(i)
  PROVE  Answered(i)'
<1>1. PICK x \in Seq(Replies) : wire' = wire \o x
  BY WireGrows
<1>2. wire \in Seq(Replies)
  BY Fields
<1>3. PICK k \in DOMAIN wire : wire[k][1] = i /\ wire[k][3] = Size(wire[k][2])
  BY DEF Answered, ToSet
<1>4. k \in DOMAIN wire' /\ wire'[k] = wire[k]
  <2> HIDE DEF Replies
  <2>1. wire' \in Seq(Replies) /\ Len(wire') = Len(wire) + Len(x) /\ Len(wire) \in Nat
        /\ Len(x) \in Nat /\ \A m \in 1 .. Len(wire) : wire'[m] = wire[m]
    BY <1>1, <1>2, ConcatIs
  <2>2. k \in 1 .. Len(wire) /\ k \in 1 .. Len(wire') /\ DOMAIN wire' = 1 .. Len(wire')
    BY <1>2, <2>1
  <2> QED
    BY <2>1, <2>2
<1>5. \E w \in ToSet(wire') : w[1] = i /\ w[3] = Size(w[2])
  BY <1>3, <1>4 DEF ToSet
<1> QED
  BY <1>5 DEF Answered, Size

LEMMA LimitStep ==
  ASSUME TypeInv, Flow, Limit, Next
  PROVE  Limit'
<1>1. world' = world /\ world \in World /\ Requests' = Requests /\ Requests \in Nat \ {0}
      /\ \A i : H(i)' = H(i)
  BY WorldStays, Fields, Steady
<1>2. \A i : Waits(i)' <=> Waits(i)
  BY <1>1 DEF Waits, Can
<1>3. ASSUME NEW i \in 1 .. Requests, ~Answered(i)', Waits(i) PROVE sent' <= H(i)
  <2>1. ~Answered(i)
    <3>1. i \in Nat
      OBVIOUS
    <3> QED
      BY <1>3, <3>1, AnsweredStays
  <2>2. sent <= H(i)
    BY <1>3, <2>1 DEF Limit
  <2>3. CASE sent' = sent
    BY <2>2, <2>3
  <2>4. CASE \E n \in 1 .. Len(Script) : ClientSends(n)
    <3>1. PICK n \in Nat : ClientSends(n)
      BY <2>4
    <3>2. sent' <= Allowed /\ sent' \in 0 .. Len(Script)
      BY <3>1, SendsIs DEF Flow
    <3> DEFINE a == AwaitedRequests
               r == Requests
    <3>3. a \in 1 .. r /\ r \in Nat \ {0}
          /\ (~Can("pipelined") => \A j \in 1 .. a - 1 : Answered(j))
      BY <1>1, Awaits
    <3>4. Allowed = IF a = r /\ (Answered(r) \/ Can("early")) THEN Len(Script) ELSE H(a)
      BY DEF Allowed, H
    <3> HIDE DEF a, r
    <3>5. Allowed = H(a) /\ a <= i
      <4>1. CASE i = r
        <5>1. ~Can("early") /\ ~Answered(r)
          BY <1>3, <2>1, <4>1 DEF Waits, r
        <5> QED
          BY <3>3, <3>4, <4>1, <5>1
      <4>2. CASE i # r
        <5>1. ~Can("pipelined")
          BY <1>3, <4>2 DEF Waits, r
        <5>2. i \notin 1 .. a - 1
          BY <2>1, <3>3, <5>1
        <5>3. i \in 1 .. r
          BY DEF r
        <5>4. a <= i /\ a # r
          BY <3>3, <4>2, <5>2, <5>3
        <5> QED
          BY <3>4, <5>4
      <4> QED
        BY <4>1, <4>2
    <3>6. H(a) <= H(i) /\ H(a) \in Nat /\ H(i) \in Nat
      <4>1. i \in 0 .. r /\ a \in 0 .. i /\ a \in 0 .. r
        BY <3>3, <3>5 DEF r
      <4> QED
        BY <1>1, <4>1, RequestsLie DEF r
    <3> DEFINE x == H(a)
               y == H(i)
               z == sent'
    <3>7. z \in Nat /\ z <= x /\ x \in Nat /\ y \in Nat /\ x <= y
      <4>1. z \in Nat
        <5>1. Len(Script) \in Nat
          BY <1>1, ScriptLies DEF Mark
        <5> QED
          BY <3>2, <5>1
      <4> QED
        BY <3>2, <3>5, <3>6, <4>1
    <3> HIDE DEF x, y, z
    <3>8. z <= y
      BY <3>7
    <3> QED
      BY <3>8 DEF y, z
  <2>5. sent' = sent \/ \E n \in 1 .. Len(Script) : ClientSends(n)
    <3>1. CASE WsStep
      BY <3>1, WsOK
    <3>2. CASE Read
      BY <3>2, ReadOK
    <3>3. CASE Handle
      BY <3>3, HandleOK
    <3>4. CASE Respond
      BY <3>4, RespondOK
    <3>5. CASE Reports \/ ClientLeaves
      BY <3>5 DEF Reports, ClientLeaves, Quiet
    <3> QED
      BY <3>1, <3>2, <3>3, <3>4, <3>5 DEF Next, HttpStep, ClientStep
  <2> QED
    BY <2>3, <2>4, <2>5
<1> QED
  BY <1>1, <1>2, <1>3 DEF Limit


(***************************************************************************)
(* The request that is handled.                                            *)
(***************************************************************************)

(* A header that is found begins where the buffer does. *)
LEMMA BufferBegins ==
  ASSUME TypeInv, RequestInv, Without({"undeclared", "pipelined"}), pc # "closed",
         sess.state \in Asking, Base \in Nat,
         NEW i \in 1 .. Requests, NEW h \in Nat \ {0}, Base + h = H(i - 1) + 2,
         \A k \in 0 .. Requests - 1 : Base = H(k) => i = k + 1
  PROVE  /\ Base = H(i - 1) /\ H(i - 1) \in Nat /\ H(i) \in Nat
         /\ i - 1 \in 0 .. Requests - 1
<1> DEFINE n == Requests
<1>1. world \in World /\ n \in Nat \ {0}
  BY Fields
<1>2. (\E k \in 0 .. n - 1 : Base = H(k)) \/ Base >= H(n)
  BY DEF RequestInv
<1> HIDE DEF n
<1>3. i \in 1 .. n
  BY DEF n
<1>4. /\ H(i - 1) \in Nat /\ H(i) \in Nat /\ H(n) \in Nat /\ H(i) <= H(n)
      /\ H(i) = H(i - 1) + 2 + world.reqs[i].body /\ world.reqs[i].body \in Nat
  <2>1. i - 1 \in 0 .. n /\ i \in 0 .. n /\ n \in 0 .. n
    BY <1>1, <1>3
  <2> QED
    BY <1>1, <1>3, <2>1, RequestsLie, WorldTyped DEF n
<1>5. ~ (Base >= H(n))
  <2> DEFINE a == Base
             b == H(i - 1)
             c == H(i)
             d == H(n)
             e == world.reqs[i].body
  <2>1. /\ a \in Nat /\ b \in Nat /\ c \in Nat /\ d \in Nat /\ e \in Nat /\ h \in Nat \ {0}
        /\ c <= d /\ c = b + 2 + e /\ a + h = b + 2
    BY <1>4
  <2> HIDE DEF a, b, c, d, e
  <2>2. ~ (a >= d)
    BY <2>1
  <2> QED
    BY <2>2 DEF a, d
<1>6. PICK k \in 0 .. n - 1 : Base = H(k)
  BY <1>2, <1>5
<1>7. i = k + 1 /\ i - 1 = k
  <2>1. i = k + 1
    BY <1>6 DEF n
  <2> QED
    BY <1>1, <2>1
<1> QED
  BY <1>4, <1>6, <1>7 DEF n

LEMMA RequestStep ==
  ASSUME TypeInv, Flow, Order, Limit, RequestInv, Next
  PROVE  RequestInv'
<1> DEFINE n == Requests
           q == sess'.req
<1>1. /\ world' = world /\ world \in World /\ n \in Nat \ {0} /\ Requests' = n
      /\ \A i : H(i)' = H(i)
      /\ Without({"undeclared", "pipelined"})' <=> Without({"undeclared", "pipelined"})
  BY WorldStays, Fields, Steady
<1> SUFFICES ASSUME Without({"undeclared", "pipelined"}), pc' # "closed"
             PROVE  /\ sess'.state \in Asking => (\E k \in 0 .. n - 1 : Base' = H(k)) \/ Base' >= H(n)
                    /\ sess'.state \in Answering =>
                         Base' = H(q - 1) /\ (q < n => Taken' <= H(q))
  <2> HIDE DEF Asking, Answering, Base, Taken
  <2> QED
    BY <1>1 DEF RequestInv
<1> HIDE DEF n
<1>2. ~Can("pipelined") /\ Without({"undeclared"})
  BY DEF Without, Can
<1>3. ASSUME NEW i \in 1 .. n, i < n, ~Answered(i) PROVE sent <= H(i)
  BY <1>2, <1>3 DEF Limit, Waits, n
<1>4. CASE sess'.state \in Asking \cup Answering
  <2>1. /\ pc # "closed" /\ sess.state # "ws"
        /\ ReadHeaders \/ ReadBody \/ Continues \/ Restarts
    BY <1>4, Moves DEF Asking, Answering
  <2>2. CASE ReadHeaders
    <3>1. /\ sess.state \in Asking /\ Base' = Base /\ Base \in Nat /\ Taken' \in Nat /\ Taken' <= sent
          /\ \/ sess'.state = "headers"
             \/ /\ sess'.state \in {"body", "handle"} /\ q \in 1 .. n
                /\ HeaderEnd(sess'.buf) \in Nat \ {0}
                /\ Base + HeaderEnd(sess'.buf) = H(q - 1) + 2
                /\ \A k \in 0 .. n - 1 : Base = H(k) => q = k + 1
      BY <2>2, HeadersIs DEF Asking, n
    <3>2. (\E k \in 0 .. n - 1 : Base = H(k)) \/ Base >= H(n)
      BY <2>1, <3>1 DEF RequestInv, n
    <3>3. CASE sess'.state = "headers"
      BY <3>1, <3>2, <3>3 DEF Answering
    <3>4. CASE /\ sess'.state \in {"body", "handle"} /\ q \in 1 .. n
               /\ HeaderEnd(sess'.buf) \in Nat \ {0}
               /\ Base + HeaderEnd(sess'.buf) = H(q - 1) + 2
               /\ \A k \in 0 .. n - 1 : Base = H(k) => q = k + 1
      <4> HIDE DEF q
      <4>1. Base = H(q - 1) /\ H(q - 1) \in Nat /\ H(q) \in Nat
        <5> DEFINE h == HeaderEnd(sess'.buf)
        <5>1. /\ q \in 1 .. Requests /\ h \in Nat \ {0} /\ Base + h = H(q - 1) + 2
              /\ \A k \in 0 .. Requests - 1 : Base = H(k) => q = k + 1
          BY <3>4 DEF n
        <5> HIDE DEF h
        <5> QED
          BY <2>1, <3>1, <5>1, BufferBegins
      <4>6. q < n => Taken' <= H(q)
        <5> SUFFICES ASSUME q < n PROVE Taken' <= H(q)
          OBVIOUS
        <5>1. ~Answered(q)
          <6> SUFFICES ASSUME Answered(q) PROVE FALSE
            OBVIOUS
          <6>1. PICK m \in DOMAIN wire : wire[m][1] = q
            BY DEF Answered, ToSet
          <6>2. H(q - 1) + 2 <= Base
            BY <2>1, <3>1, <6>1 DEF Order
          <6> DEFINE b == H(q - 1)
          <6>3. b \in Nat /\ b + 2 <= b
            BY <4>1, <6>2
          <6> HIDE DEF b
          <6> QED
            BY <6>3
        <5>2. sent <= H(q)
          BY <1>3, <3>4, <5>1
        <5> DEFINE t == Taken'
                   s == sent
                   c == H(q)
        <5>3. t \in Nat /\ s \in Nat /\ c \in Nat /\ t <= s /\ s <= c
          BY <3>1, <4>1, <5>2, Fields
        <5> HIDE DEF t, s, c
        <5>4. t <= c
          BY <5>3
        <5> QED
          BY <5>4 DEF t, c
      <4> QED
        BY <3>1, <3>4, <4>1, <4>6 DEF Asking
    <3> QED
      BY <3>1, <3>3, <3>4
  <2>3. CASE ReadBody
    <3>1. /\ sess.state = "body" /\ sess'.state = "body" /\ q = sess.req
          /\ Base' = Base /\ Taken' \in Nat /\ Taken' <= sent
      BY <2>3, BodyIs
    <3>2. Base = H(sess.req - 1) /\ sess.req \in 1 .. n /\ H(sess.req) \in Nat
      BY <2>1, <3>1, AnsweringIs DEF RequestInv, Answering, n
    <3>3. sess.req < n => Taken' <= H(sess.req)
      <4> SUFFICES ASSUME sess.req < n PROVE Taken' <= H(sess.req)
        OBVIOUS
      <4>1. ~Answered(sess.req)
        BY <2>1, <3>1 DEF Order, Answering, Answered, ToSet
      <4>2. sent <= H(sess.req)
        BY <1>3, <3>2, <4>1
      <4> DEFINE t == Taken'
                 s == sent
                 c == H(sess.req)
      <4>3. t \in Nat /\ s \in Nat /\ c \in Nat /\ t <= s /\ s <= c
        BY <3>1, <3>2, <4>2, Fields
      <4> HIDE DEF t, s, c
      <4>4. t <= c
        BY <4>3
      <4> QED
        BY <4>4 DEF t, c
    <3> QED
      BY <3>1, <3>2, <3>3 DEF Asking
  <2>4. CASE Continues
    <3>1. q = sess.req /\ Taken' = Taken /\ Base' = Base
      BY <2>4 DEF Continues
    <3>2. CASE sess'.state \in Asking
      <4>1. sess.state \in Asking /\ sess'.state \notin Answering
        BY <2>4, <3>2 DEF Continues, Asking, Answering
      <4> QED
        BY <2>1, <3>1, <4>1 DEF RequestInv, n
    <3>3. CASE sess'.state \in Answering
      <4>1. sess.state \in Answering /\ sess'.state \notin Asking
        BY <2>4, <3>3 DEF Continues, Asking, Answering
      <4> QED
        BY <2>1, <3>1, <4>1 DEF RequestInv, n
    <3> QED
      BY <1>4, <3>2, <3>3
  <2>5. CASE Restarts
    <3>1. sess.state \in Answering /\ sess.state # "body" /\ sess'.state = "headers" /\ Base' = Taken
      BY <2>5 DEF Restarts, Answering
    <3> DEFINE r == sess.req
    <3>2. /\ r \in 1 .. n /\ H(r - 1) \in Nat /\ H(r) \in Nat /\ Taken \in Nat
          /\ H(r) = H(r - 1) + 2 + Req.body /\ Req.body \in Nat
          /\ Taken >= H(r - 1) + 2 + Req.declared
      BY <2>1, <3>1, AnsweringIs DEF n
    <3>3. Req.declared = Req.body
      BY <1>1, <1>2, <3>2, WorldRules DEF Req, n
    <3>4. r < n => Taken <= H(r)
      BY <2>1, <3>1 DEF RequestInv, n
    <3> DEFINE t == Taken
               a == H(r - 1)
               b == H(r)
               e == Req.body
    <3>5. /\ t \in Nat /\ a \in Nat /\ b \in Nat /\ e \in Nat /\ b = a + 2 + e /\ t >= a + 2 + e
          /\ (r < n => t <= b) /\ r \in 1 .. n
      BY <3>2, <3>3, <3>4
    <3> HIDE DEF t, a, b, e, r
    <3>6. (r \in 0 .. n - 1 /\ t = b) \/ (r = n /\ t >= b)
      BY <1>1, <3>5
    <3>7. (\E k \in 0 .. n - 1 : Base' = H(k)) \/ Base' >= H(n)
      BY <3>1, <3>6 DEF t, b
    <3> QED
      BY <3>1, <3>7 DEF Answering
  <2> QED
    BY <2>1, <2>2, <2>3, <2>4, <2>5
<1> QED
  BY <1>4

LEMMA BaseInit ==
  ASSUME Init
  PROVE  Base = 0 /\ sess.state = "detect" /\ world \in World
<1>1. /\ sess.state = "detect" /\ world \in World /\ sess.buf = <<>> /\ sent = 0
      /\ net = <<>> /\ pending = <<>>
  BY DEF Init, HttpInit, NewSession
<1>2. Unread = <<>> \o <<>>
  BY <1>1, FlattenNone DEF Unread
<1>3. Unread = <<>>
  BY <1>2
<1>4. Len(Unread) = 0 /\ Len(sess.buf) = 0
  BY <1>1, <1>3
<1>5. Taken = sent - Len(Unread) /\ Base = Taken - Len(sess.buf)
  BY DEF Base, Taken
<1> DEFINE l == Len(Unread)
           m == Len(sess.buf)
<1>6. l = 0 /\ m = 0 /\ Taken = sent - l /\ Base = Taken - m
  BY <1>4, <1>5
<1> HIDE DEF l, m
<1> QED
  BY <1>1, <1>6

LEMMA RequestInit == Init => RequestInv
<1> SUFFICES ASSUME Init PROVE RequestInv
  OBVIOUS
<1>1. sess.state = "detect" /\ world \in World /\ Base = 0
  BY BaseInit
<1>2. H(0) = 0 /\ 0 \in 0 .. Requests - 1
  BY <1>1, RequestsLie, WorldTyped
<1> QED
  BY <1>1, <1>2 DEF RequestInv, Answering

(* What is handed to a handler is what the client asked. *)
LEMMA RequestFollows ==
  ASSUME TypeInv, Flow, Order, Ended, RequestInv
  PROVE  RequestSound
<1> SUFFICES ASSUME Without({"grown", "undeclared", "pipelined"}), sess.state = "handle"
             PROVE  sess.uri # "wild" /\ IsPrefix(RequestPieces(sess.req), sess.buf)
  BY DEF RequestSound
<1> DEFINE q == sess.req
           R == RequestPieces(q)
           l == Len(R)
           b == sess.buf
<1>1. Without({"grown"}) /\ Without({"undeclared"}) /\ Without({"undeclared", "pipelined"})
  BY DEF Without
<1>2. sess.uri # "wild"
  BY <1>1 DEF TypeInv, SessionOK
<1>3. pc # "closed" /\ sess.state \in Answering
  BY DEF Ended, Answering
<1>4. /\ q \in 1 .. Requests /\ H(q - 1) \in Nat /\ Base \in Nat /\ Taken \in Nat
      /\ Len(b) = Taken - Base /\ Req.body \in Nat /\ Req.declared \in Nat
      /\ Taken >= H(q - 1) + 2 + Req.declared
  BY <1>3, AnsweringIs
<1>5. Req.declared = Req.body /\ world \in World /\ b \in Seq(Pieces)
  <2>1. world \in World /\ b \in Seq(Pieces)
    BY Fields
  <2> QED
    BY <1>1, <1>4, <2>1, WorldRules DEF Req
<1>6. Base = H(q - 1) /\ b = SubSeq(Script, Base + 1, Taken)
  BY <1>1, <1>3 DEF RequestInv, Flow
<1>7. /\ R \in Seq(Pieces) /\ l = 2 + Req.body
      /\ \A k \in 1 .. 2 + Req.body : Script[H(q - 1) + k] = R[k]
  BY <1>4, <1>5, RequestIs, ScriptLies DEF Req
<1>8. Taken <= Len(Script) /\ Script \in Seq(Pieces) /\ Len(Script) \in Nat
  <2>1. Script \in Seq(Pieces) /\ Len(Script) \in Nat
    BY <1>5, ScriptLies DEF Mark
  <2>2. sent \in Nat /\ sent <= Len(Script) /\ Taken = sent - Len(Unread) /\ Len(Unread) \in Nat
    BY Fields, UnreadTyped DEF Taken
  <2> DEFINE s == sent
             t == Taken
             u == Len(Unread)
             m == Len(Script)
  <2>3. s \in Nat /\ u \in Nat /\ m \in Nat /\ s <= m /\ t = s - u
    BY <2>1, <2>2
  <2> HIDE DEF s, t, u, m
  <2>4. t <= m
    BY <2>3
  <2> QED
    BY <2>1, <2>4 DEF t, m
<1> DEFINE a == H(q - 1)
           t == Taken
           m == Len(b)
<1>9. a \in Nat /\ t \in Nat /\ m = t - a /\ t >= a + l /\ l \in Nat /\ b = SubSeq(Script, a + 1, t)
      /\ t <= Len(Script)
  <2> DEFINE T == Script
  <2>1. a \in Nat /\ t \in Nat /\ b = SubSeq(T, a + 1, t) /\ m = t - a
    BY <1>4, <1>5, <1>6, <1>8
  <2>2. l \in Nat /\ t >= a + l /\ t <= Len(T)
    BY <1>4, <1>5, <1>6, <1>7, <1>8
  <2> HIDE DEF a, t, m, R, l, b, q, T
  <2> QED
    BY <2>1, <2>2 DEF T
<1> HIDE DEF a, t, m, R, l, b, q
<1>10. \A k \in 1 .. t - a : b[k] = Script[a + k]
  BY <1>8, <1>9, Slice
<1>11. l <= m /\ l \in 1 .. m \cup {0} /\ m \in Nat
  BY <1>9
<1>12. \A k \in 1 .. l : R[k] = b[k]
  <2> TAKE k \in 1 .. l
  <2>1. k \in 1 .. t - a
    BY <1>9
  <2>2. Script[a + k] = R[k]
    BY <1>7 DEF a, l
  <2> QED
    BY <1>10, <2>1, <2>2
<1>13. IsPrefix(R, b)
  <2>1. /\ SubSeq(b, 1, l) \in Seq(Pieces) /\ Len(SubSeq(b, 1, l)) = l
        /\ \A k \in 1 .. l : SubSeq(b, 1, l)[k] = b[k]
    <3> DEFINE z == 0
    <3>1. z \in Nat /\ z + 1 = 1 /\ l \in Nat /\ l <= Len(b)
      BY <1>9, <1>11 DEF m
    <3>2. b \in Seq(Pieces)
      BY <1>5 DEF b
    <3> HIDE DEF z, Pieces
    <3>3. /\ SubSeq(b, z + 1, l) \in Seq(Pieces)
          /\ Len(SubSeq(b, z + 1, l)) = IF z <= l THEN l - z ELSE 0
          /\ \A k \in 1 .. l - z : SubSeq(b, z + 1, l)[k] = b[z + k]
      BY <3>1, <3>2, Slice
    <3>4. z = 0
      BY DEF z
    <3> QED
      BY <3>1, <3>3, <3>4
  <2>2. Len(R) = l
    BY DEF l
  <2>3. R = SubSeq(b, 1, l)
    BY <1>7, <1>12, <2>1, <2>2
  <2> QED
    BY <1>11, <2>2, <2>3 DEF IsPrefix, m
<1> QED
  BY <1>2, <1>13 DEF R, b, q


(***************************************************************************)
(* The responses.                                                          *)
(***************************************************************************)

LEMMA AnswerJoin ==
  ASSUME world' = world, Sound => Whole(wire') /\ (pc' # "closed" => SoFar(sess', wire', Base'))
  PROVE  AnswerInv'
<1>1. \A i : H(i)' = H(i)
  BY Steady
<1>2. Requests' = Requests /\ (Sound' <=> Sound)
  BY DEF Requests, Sound, Without
<1>3. Sound' => Whole(wire)' /\ (pc' # "closed" => SoFar(sess, wire, Base)')
  <2>1. SoFar(sess', wire', Base') => SoFar(sess, wire, Base)'
    BY <1>1, <1>2 DEF SoFar
  <2> QED
    BY <1>2, <2>1
<1> QED
  BY <1>3 DEF AnswerInv

(* A response begins after the last one is complete, or goes on. *)
GoesOn(w, x, i, p, c) ==
  /\ Whole(w) /\ x # <<>> /\ \A k \in 1 .. Len(x) : x[k] = <<i, p, c + k>>
  /\ \/ c = 0 /\ Done(w, i - 1)
     \/ w # <<>> /\ w[Len(w)] = <<i, p, c>>
GoneOn(w, x, i, p, c) ==
  Whole(w \o x) /\ w \o x # <<>> /\ (w \o x)[Len(w \o x)] = <<i, p, c + Len(x)>>

LEMMA WholeAdds ==
  ASSUME NEW w \in Seq(Replies), NEW x \in Seq(Replies), NEW i \in Nat, NEW c \in Nat, NEW p,
         GoesOn(w, x, i, p, c)
  PROVE  GoneOn(w, x, i, p, c)
<1> USE DEF GoesOn
<1> HIDE DEF Replies
<1> DEFINE m == Len(w)
           l == Len(x)
           z == w \o x
<1>1. /\ z \in Seq(Replies) /\ m \in Nat /\ l \in Nat /\ Len(z) = m + l
      /\ \A k \in 1 .. m : z[k] = w[k]
      /\ \A k \in 1 .. l : z[m + k] = x[k]
  BY ConcatIs
<1>2. l # 0 /\ (m = 0 <=> w = <<>>)
  OBVIOUS
<1>3. \A k \in 1 .. l : x[k] = <<i, p, c + k>>
  OBVIOUS
<1> HIDE DEF z, l, m
<1>4. Len(z) # 0 /\ z # <<>> /\ Len(z) = m + l /\ z[Len(z)] = <<i, p, c + l>>
  <2>1. l \in 1 .. l /\ m + l # 0
    BY <1>1, <1>2
  <2>2. Len(z) # 0
    BY <1>1, <2>1
  <2>3. z # <<>>
    BY <2>2
  <2> QED
    BY <1>1, <1>3, <2>1, <2>2, <2>3
<1>5. z[1][1] = 1 /\ z[1][3] = 1
  <2>1. CASE m # 0
    <3>1. 1 \in 1 .. m
      BY <1>1, <2>1
    <3>2. z[1] = w[1] /\ w # <<>>
      BY <1>1, <1>2, <2>1, <3>1
    <3> QED
      BY <3>2 DEF Whole
  <2>2. CASE m = 0
    <3>1. w = <<>> /\ c = 0 /\ i - 1 = 0
      BY <1>2, <2>2 DEF Done
    <3>2. 1 \in 1 .. l /\ m + 1 = 1 /\ c + 1 = 1 /\ i = 1
      BY <1>1, <1>2, <2>2, <3>1
    <3>3. z[1] = <<i, p, c + 1>>
      BY <1>1, <1>3, <3>2
    <3> QED
      BY <3>2, <3>3
  <2> QED
    BY <2>1, <2>2
<1>6. ASSUME NEW k \in 1 .. Len(z) - 1 PROVE Follows(z[k], z[k + 1])
  <2>1. k \in Nat /\ k \in 1 .. m + l - 1
    BY <1>1
  <2>2. CASE k < m
    <3>1. k \in 1 .. m /\ k + 1 \in 1 .. m /\ k \in 1 .. m - 1
      BY <1>1, <2>1, <2>2
    <3>2. Follows(w[k], w[k + 1])
      BY <3>1 DEF Whole, m
    <3> QED
      BY <1>1, <3>1, <3>2
  <2>3. CASE k = m
    <3>1. m \in 1 .. m /\ 1 \in 1 .. l
      BY <1>1, <1>2, <2>1, <2>3
    <3>2. z[k] = w[m] /\ z[k + 1] = <<i, p, c + 1>>
      BY <1>1, <1>3, <2>3, <3>1
    <3>3. w # <<>>
      BY <1>1, <1>2, <3>1
    <3>4. CASE c = 0 /\ Done(w, i - 1)
      <4>1. w[m][1] = i - 1 /\ w[m][3] = Size(w[m][2])
        BY <3>3, <3>4 DEF Done, m
      <4>2. i = w[m][1] + 1 /\ c + 1 = 1
        BY <3>4, <4>1
      <4>3. z[k + 1][1] = w[m][1] + 1 /\ z[k + 1][3] = 1
        BY <3>2, <4>2
      <4> HIDE DEF Size
      <4> QED
        BY <3>2, <4>1, <4>3 DEF Follows
    <3>5. CASE w[Len(w)] = <<i, p, c>>
      <4>1. w[m] = <<i, p, c>>
        BY <3>5 DEF m
      <4> QED
        BY <3>2, <4>1 DEF Follows
    <3> QED
      BY <3>4, <3>5
  <2>4. CASE k > m
    <3> DEFINE j == k - m
    <3>1. j \in 1 .. l /\ j + 1 \in 1 .. l /\ m + j = k /\ m + (j + 1) = k + 1
          /\ c + (j + 1) = (c + j) + 1
      BY <1>1, <2>1, <2>4
    <3> HIDE DEF j
    <3>2. z[k] = <<i, p, c + j>> /\ z[k + 1] = <<i, p, (c + j) + 1>>
      <4>1. z[m + j] = x[j] /\ z[m + (j + 1)] = x[j + 1]
        BY <1>1, <3>1
      <4>2. x[j] = <<i, p, c + j>> /\ x[j + 1] = <<i, p, c + (j + 1)>>
        BY <1>3, <3>1
      <4> QED
        BY <3>1, <4>1, <4>2
    <3> QED
      BY <3>2 DEF Follows
  <2> QED
    BY <1>1, <2>1, <2>2, <2>3, <2>4
<1>7. Whole(z)
  BY <1>5, <1>6 DEF Whole
<1> QED
  BY <1>4, <1>7 DEF z, l, GoneOn

(* After a request that was answered, only the next one can begin. *)
LEMMA RestartIs ==
  ASSUME TypeInv, Flow, Order, RequestInv, Sound, Restarts, pc # "closed",
         NEW k \in 0 .. Requests - 1, Taken = H(k)
  PROVE  k = sess.req
<1> DEFINE n == Requests
           r == sess.req
<1>1. sess.state \in Answering /\ sess.state # "body"
  BY DEF Restarts, Answering
<1>2. world \in World /\ n \in Nat \ {0} /\ Without({"undeclared"})
      /\ Without({"undeclared", "pipelined"})
  BY Fields DEF Sound, Without
<1>3. /\ r \in 1 .. n /\ H(r - 1) \in Nat /\ H(r) \in Nat /\ Taken \in Nat
      /\ H(r) = H(r - 1) + 2 + Req.body /\ Req.body \in Nat
      /\ Taken >= H(r - 1) + 2 + Req.declared
  BY <1>1, AnsweringIs
<1>4. Req.declared = Req.body
  BY <1>2, <1>3, WorldRules DEF Req
<1>5. r < n => Taken <= H(r)
  BY <1>1, <1>2 DEF RequestInv
<1> HIDE DEF n, r
<1>6. Taken >= H(r)
  BY <1>3, <1>4
<1>7. k \in Int /\ 0 <= k /\ k <= n - 1 /\ r \in Int /\ 1 <= r /\ r <= n /\ n \in Int
  <2>1. n \in Nat /\ r \in 1 .. n /\ k \in 0 .. n - 1
    BY <1>2, <1>3 DEF n
  <2> QED
    BY <2>1
<1>8. ASSUME k < r PROVE FALSE
  <2>1. k + 1 \in 0 .. r /\ k + 1 \in 1 .. n /\ r \in 0 .. n /\ (k + 1) - 1 = k
    BY <1>7, <1>8
  <2>2. H(k + 1) <= H(r) /\ H(k + 1) = H(k) + 2 + world.reqs[k + 1].body
        /\ world.reqs[k + 1].body \in Nat /\ H(k + 1) \in Nat
    <3>1. k + 1 \in 0 .. n
      BY <2>1
    <3>2. H(k + 1) = H((k + 1) - 1) + 2 + world.reqs[k + 1].body /\ world.reqs[k + 1].body \in Nat
      BY <1>2, <2>1, RequestsLie, WorldTyped DEF n
    <3> QED
      BY <1>2, <2>1, <3>1, <3>2, RequestsLie DEF n
  <2> DEFINE a == H(k)
             b == H(k + 1)
             d == H(r)
             e == world.reqs[k + 1].body
  <2>3. b <= d /\ b = a + 2 + e /\ e \in Nat /\ a \in Nat /\ d \in Nat /\ a >= d /\ b \in Nat
    BY <1>3, <1>6, <2>2
  <2> HIDE DEF a, b, d, e
  <2> QED
    BY <2>3
<1>9. ASSUME r < k PROVE FALSE
  <2>1. k \in 1 .. n /\ r \in 0 .. k - 1 /\ k - 1 \in 0 .. n /\ r < n
    BY <1>7, <1>9
  <2>2. H(r) <= H(k - 1) /\ H(k) = H(k - 1) + 2 + world.reqs[k].body
        /\ world.reqs[k].body \in Nat /\ H(k - 1) \in Nat
    BY <1>2, <2>1, RequestsLie, WorldTyped DEF n
  <2> DEFINE a == H(k)
             b == H(k - 1)
             d == H(r)
             e == world.reqs[k].body
  <2>3. d <= b /\ a = b + 2 + e /\ e \in Nat /\ a \in Nat /\ d \in Nat /\ a <= d /\ b \in Nat
    BY <1>3, <1>5, <2>1, <2>2
  <2> HIDE DEF a, b, d, e
  <2> QED
    BY <2>3
<1> QED
  BY <1>7, <1>8, <1>9 DEF r


LEMMA RestartSoFar ==
  ASSUME TypeInv, Flow, Order, RequestInv, Sound, Restarts, pc # "closed",
         NEW w, Done(w, sess.req)
  PROVE  SoFar(sess', w, Base')
<1>1. sess'.state \notin Answering /\ Base' = Taken
  BY DEF Restarts, Answering
<1>2. \A k \in 0 .. Requests - 1 : Base' = H(k) => Done(w, k)
  BY <1>1, RestartIs
<1> QED
  BY <1>1, <1>2 DEF SoFar

(* What is written when a header is read: nothing, or that it is bad. *)
LEMMA HeadersAnswer ==
  ASSUME TypeInv, Flow, RequestInv, AnswerInv, Sound, ReadHeaders, Next
  PROVE  wire' = wire \/ (Whole(wire') /\ pc' = "closed")
<1>1. /\ world' = world /\ sent' = sent /\ pc = "run" /\ sess.state = "headers" /\ Recv(Room)
      /\ wire \in Seq(Replies) /\ Requests \in Nat
  BY WorldStays, Fields DEF ReadHeaders, InState
<1> DEFINE b == sess.buf \o Took(Room)
           h == HeaderEnd(b)
           i == b[h][1]
<1>2. /\ Base \in Nat /\ b \in Seq(Pieces)
      /\ h > 0 => /\ i \in 1 .. Requests /\ Base + h = H(i - 1) + 2
                  /\ \A k \in 0 .. Requests - 1 : Base = H(k) => i = k + 1
  BY <1>1, ReadIs
<1>3. \/ wire' = wire
      \/ h > 0 /\ pc' = "closed" /\ wire' \in PageOut(i)
  BY DEF ReadHeaders, Parse, Close
<1>4. h \in Nat
  <2> HIDE DEF b
  <2> QED
    BY <1>2, HeaderEndIs
<1> HIDE DEF b, h, i
<1> SUFFICES ASSUME h > 0, pc' = "closed", wire' \in PageOut(i) PROVE Whole(wire')
  BY <1>3
<1>5. /\ i \in 1 .. Requests /\ Base + h = H(i - 1) + 2 /\ h \in Nat \ {0}
      /\ \A k \in 0 .. Requests - 1 : Base = H(k) => i = k + 1
  BY <1>2, <1>4
<1>6. Base = H(i - 1) /\ i - 1 \in 0 .. Requests - 1
  <2>1. Without({"undeclared", "pipelined"}) /\ pc # "closed" /\ sess.state \in Asking
    BY <1>1 DEF Sound, Without, Asking
  <2> QED
    BY <1>2, <1>5, <2>1, BufferBegins
<1>7. Whole(wire) /\ Done(wire, i - 1)
  BY <1>1, <1>6 DEF AnswerInv, SoFar, Asking
<1>8. i \in Nat
  BY <1>5
<1>9. wire' = wire \/ \E n \in 1 .. 2 : wire' = wire \o Part(i, "page", n)
  BY <1>1, <1>8, PageOutIs
<1> SUFFICES ASSUME NEW n \in 1 .. 2, wire' = wire \o Part(i, "page", n) PROVE Whole(wire')
  BY <1>7, <1>9
<1>10. Part(i, "page", n) \in Seq(Replies) /\ Part(i, "page", n) # <<>>
       /\ \A k \in 1 .. Len(Part(i, "page", n)) : Part(i, "page", n)[k] = <<i, "page", 0 + k>>
  <2> DEFINE x == Part(i, "page", n)
  <2>1. x \in Seq(Replies) /\ Len(x) = n /\ \A k \in 1 .. n : x[k] = <<i, "page", k>>
    <3>1. n \in Nat /\ "page" \in {"file", "fcgi", "page", "101"}
      OBVIOUS
    <3> QED
      BY <1>8, <3>1, ReplyIs
  <2> HIDE DEF x, Replies
  <2>2. x # <<>>
    BY <2>1
  <2>3. \A k \in 1 .. Len(x) : x[k] = <<i, "page", 0 + k>>
    <3> TAKE k \in 1 .. Len(x)
    <3>1. 0 + k = k /\ k \in 1 .. n
      BY <2>1
    <3>2. x[k] = <<i, "page", k>>
      BY <2>1, <3>1
    <3> QED
      BY <3>1, <3>2
  <2> QED
    BY <2>1, <2>2, <2>3 DEF x
<1> QED
  <2> DEFINE x == Part(i, "page", n)
             z == 0
  <2>1. x \in Seq(Replies) /\ x # <<>> /\ z \in Nat /\ z = 0 /\ wire' = wire \o x
        /\ \A k \in 1 .. Len(x) : x[k] = <<i, "page", z + k>>
    BY <1>10
  <2> HIDE DEF x, z, Replies
  <2>2. GoesOn(wire, x, i, "page", z)
    BY <1>7, <2>1 DEF GoesOn
  <2>3. GoneOn(wire, x, i, "page", z)
    BY <1>1, <1>8, <2>1, <2>2, WholeAdds
  <2> QED
    BY <2>1, <2>3 DEF GoneOn

(* What is written of a response of n pieces that begins. *)
LEMMA AnswerAdds ==
  ASSUME TypeInv, NEW p \in {"file", "fcgi", "page", "101"}, NEW n \in Nat \ {0},
         Whole(wire), Done(wire, sess.req - 1), wire' = wire \o Part(sess.req, p, n)
  PROVE  Whole(wire') /\ wire' # <<>> /\ wire'[Len(wire')] = <<sess.req, p, n>>
<1> DEFINE x == Part(sess.req, p, n)
           z == 0
           i == sess.req
<1>1. wire \in Seq(Replies) /\ i \in Nat /\ n \in Nat
  BY Fields
<1>2. x \in Seq(Replies) /\ Len(x) = n /\ \A k \in 1 .. n : x[k] = <<i, p, k>>
  BY <1>1, ReplyIs
<1>3. z \in Nat /\ z = 0 /\ wire' = wire \o x /\ Done(wire, i - 1) /\ z + n = n
  OBVIOUS
<1> HIDE DEF x, z, i, Replies
<1>4. x # <<>> /\ \A k \in 1 .. Len(x) : x[k] = <<i, p, z + k>>
  BY <1>2, <1>3
<1>5. Whole(wire') /\ wire' # <<>> /\ wire'[Len(wire')] = <<i, p, z + Len(x)>>
  <2>1. GoesOn(wire, x, i, p, z)
    BY <1>3, <1>4 DEF GoesOn
  <2>2. GoneOn(wire, x, i, p, z)
    BY <1>1, <1>2, <1>3, <2>1, WholeAdds
  <2> QED
    BY <1>3, <2>2 DEF GoneOn
<1> QED
  BY <1>2, <1>3, <1>5 DEF i

(* A piece of the file goes out. *)
LEMMA SendAdds ==
  ASSUME TypeInv, AnswerInv, Sound, NEW n \in Nat, SendSome(n)
  PROVE  Whole(wire') /\ SoFar(sess', wire', Base')
<1> DEFINE c == 1 + FileSize - Unsent
           i == sess.req
           x == [k \in 1 .. n |-> <<i, "file", c + k>>]
<1>1. /\ pc = "run" /\ sess.state = "send" /\ n \in 1 .. Unsent /\ wire' = wire \o x
      /\ sess' = Advance(n) /\ wire \in Seq(Replies) /\ i \in Nat /\ FileSize \in Nat
      /\ sess.remaining \in 0 .. FileSize /\ sess.header_sent \in BOOLEAN /\ sess \in Session
  BY Fields, Sizes DEF SendSome, InState
<1>2. Whole(wire) /\ SoFar(sess, wire, Base)
  BY <1>1 DEF AnswerInv
<1>3. /\ sess.header_sent => wire # <<>> /\ wire[Len(wire)] = <<i, "file", 1 + FileSize - sess.remaining>>
      /\ ~sess.header_sent => Done(wire, i - 1) /\ sess.remaining = FileSize
  BY <1>1, <1>2 DEF SoFar, Answering
<1> DEFINE f == FileSize
           m == sess.remaining
           t == IF sess.header_sent THEN 0 ELSE 1
           u == Unsent
<1>4. f \in Nat /\ m \in 0 .. f /\ t \in {0, 1} /\ u = t + m /\ n \in 1 .. u /\ c = 1 + f - u
  BY <1>1 DEF Unsent
<1>5. /\ sess'.remaining = m - n + t /\ sess'.header_sent = TRUE /\ sess'.state = "send"
      /\ sess'.req = i
  BY <1>1 DEF Advance, Session
<1>6. /\ sess.header_sent => c = 1 + FileSize - sess.remaining
      /\ ~sess.header_sent => c = 0
  <2>1. /\ sess.header_sent => t = 0
        /\ ~sess.header_sent => t = 1 /\ m = f
    BY <1>3
  <2> DEFINE s == sess.header_sent
  <2> HIDE DEF f, m, t, u, c, s
  <2>2. /\ s => c = 1 + f - m
        /\ ~s => c = 0
    BY <1>4, <2>1 DEF s
  <2> QED
    BY <2>2 DEF f, m, s
<1>7. c \in Nat /\ c + n = 1 + f - (m - n + t) /\ n \in Nat \ {0}
  <2> HIDE DEF f, m, t, u, c
  <2> QED
    BY <1>4
<1>8. x \in Seq(Replies) /\ Len(x) = n /\ \A k \in 1 .. n : x[k] = <<i, "file", c + k>>
  <2> HIDE DEF c
  <2>1. \A k \in 1 .. n : <<i, "file", c + k>> \in Replies
    BY <1>1, <1>7 DEF Replies
  <2> HIDE DEF Replies
  <2> QED
    BY <1>7, <2>1
<1>9. (c = 0 /\ Done(wire, i - 1)) \/ (wire # <<>> /\ wire[Len(wire)] = <<i, "file", c>>)
  BY <1>1, <1>3, <1>6
<1> HIDE DEF c, i, x, f, m, t, u, Replies
<1>10. Whole(wire') /\ wire' # <<>> /\ wire'[Len(wire')] = <<i, "file", c + n>>
  <2>1. x # <<>> /\ \A k \in 1 .. Len(x) : x[k] = <<i, "file", c + k>>
    BY <1>7, <1>8
  <2>2. Whole(wire \o x) /\ wire \o x # <<>> /\ (wire \o x)[Len(wire \o x)] = <<i, "file", c + Len(x)>>
    <3>1. GoesOn(wire, x, i, "file", c)
      BY <1>2, <1>9, <2>1 DEF GoesOn
    <3>2. GoneOn(wire, x, i, "file", c)
      BY <1>1, <1>7, <1>8, <3>1, WholeAdds
    <3> QED
      BY <3>2 DEF GoneOn
  <2> QED
    BY <1>1, <1>8, <2>2
<1>11. wire'[Len(wire')] = <<sess'.req, "file", 1 + FileSize - sess'.remaining>>
  BY <1>5, <1>7, <1>10 DEF f
<1> QED
  BY <1>5, <1>10, <1>11 DEF SoFar, Asking


(* A session that does not write keeps its place. *)
LEMMA StillSoFar ==
  ASSUME TypeInv, SoFar(sess, wire, Base), Continues, wire' = wire,
         sess'.state = "send" =>
           \/ sess' = sess
           \/ sess.state = "handle" /\ sess'.remaining = FileSize /\ sess'.header_sent = FALSE
  PROVE  SoFar(sess', wire', Base')
<1>1. /\ sess'.req = sess.req /\ Base' = Base
      /\ \/ sess'.state = sess.state
         \/ sess.state = "detect" /\ sess'.state = "headers"
         \/ sess.state = "body" /\ sess'.state = "handle"
         \/ sess.state = "handle" /\ sess'.state \in {"fcgi", "send"}
  BY DEF Continues
<1>2. CASE sess'.state \in Asking
  <2>1. sess.state \in Asking /\ sess'.state \notin Answering
    BY <1>1, <1>2 DEF Asking, Answering
  <2> QED
    BY <1>1, <2>1 DEF SoFar
<1>3. CASE sess'.state \in Answering
  <2>1. sess.state \in Answering /\ sess'.state \notin Asking
    BY <1>1, <1>3 DEF Asking, Answering
  <2>2. CASE sess'.state = "send" /\ sess.state = "send"
    <3>1. sess' = sess
      BY <2>2
    <3> QED
      BY <1>1, <2>1, <3>1 DEF SoFar
  <2>3. CASE sess'.state = "send" /\ sess.state # "send"
    <3>1. sess'.remaining = FileSize /\ sess'.header_sent = FALSE /\ Done(wire, sess.req - 1)
      BY <2>1, <2>3 DEF SoFar
    <3> QED
      BY <1>1, <2>1, <2>3, <3>1 DEF SoFar
  <2>4. CASE sess'.state # "send"
    <3>1. sess.state # "send"
      BY <1>1, <2>4
    <3>2. Done(wire, sess.req - 1)
      BY <2>1, <3>1 DEF SoFar
    <3> QED
      BY <1>1, <2>1, <2>4, <3>2 DEF SoFar
  <2> QED
    BY <2>2, <2>3, <2>4
<1> QED
  BY <1>2, <1>3 DEF SoFar

(* The request that is answered is done, and the next one is read. *)
LEMMA FinishedSoFar ==
  ASSUME TypeInv, Flow, Order, RequestInv, Sound, Next, NextRequest,
         FcgiCompletes \/ SendDone, NEW w, Done(w, sess.req)
  PROVE  pc' # "closed" => SoFar(sess', w, Base')
<1> SUFFICES ASSUME pc' # "closed" PROVE SoFar(sess', w, Base')
  OBVIOUS
<1>1. sess.state \in {"fcgi", "send"} /\ sess'.state # "ws" /\ sess' = ResetSession /\ sess'.state = "headers"
  BY NextOK, NewOK DEF FcgiCompletes, SendDone, InState
<1>2. pc # "closed" /\ Restarts
  BY <1>1, Moves DEF Continues, ReadHeaders, ReadBody, InState
<1> QED
  BY <1>2, RestartSoFar

LEMMA AnswerStep ==
  ASSUME TypeInv, Flow, Order, Limit, RequestInv, AnswerInv, Next
  PROVE  AnswerInv'
<1>1. world' = world /\ sess.req \in Nat /\ sess \in Session /\ wire \in Seq(Replies)
  BY WorldStays, Fields
<1> SUFFICES ASSUME Sound PROVE Whole(wire') /\ (pc' # "closed" => SoFar(sess', wire', Base'))
  BY <1>1, AnswerJoin
<1>2. /\ Whole(wire) /\ (pc # "closed" => SoFar(sess, wire, Base))
      /\ ~Can("backend") /\ ~Can("shrunk")
  BY DEF AnswerInv, Sound, Without, Can
<1>3. ASSUME pc = "run", sess.state \in {"handle", "fcgi"} PROVE Done(wire, sess.req - 1)
  BY <1>2, <1>3 DEF SoFar, Answering
<1>4. CASE \E n \in 1 .. 1 + FileSize : SendSome(n)
  <2>1. PICK n \in Nat : SendSome(n)
    BY <1>4
  <2> QED
    BY <2>1, SendAdds
<1>5. CASE FcgiCompletes
  <2>1. pc = "run" /\ sess.state = "fcgi" /\ wire' = wire \o Part(sess.req, "fcgi", 2) /\ NextRequest
    BY <1>5 DEF FcgiCompletes, InState
  <2> DEFINE n == 2
  <2>2. n \in Nat \ {0} /\ wire' = wire \o Part(sess.req, "fcgi", n)
    BY <2>1
  <2>3. n = 2
    OBVIOUS
  <2> HIDE DEF n
  <2>4. Whole(wire') /\ wire' # <<>> /\ wire'[Len(wire')] = <<sess.req, "fcgi", n>>
    BY <1>2, <1>3, <2>1, <2>2, AnswerAdds
  <2>5. Done(wire', sess.req)
    BY <2>3, <2>4 DEF Done, Size
  <2> QED
    BY <1>5, <2>1, <2>4, <2>5, FinishedSoFar
<1>6. CASE SendDone
  <2>1. /\ pc = "run" /\ sess.state = "send" /\ Unsent = 0 /\ wire' = wire /\ NextRequest
        /\ sess.remaining \in 0 .. FileSize /\ sess.header_sent \in BOOLEAN /\ FileSize \in Nat
    BY <1>6, Fields, Sizes DEF SendDone, InState, Quiet
  <2>2. sess.header_sent = TRUE /\ sess.remaining = 0
    BY <2>1 DEF Unsent
  <2>3. wire # <<>> /\ wire[Len(wire)] = <<sess.req, "file", 1 + FileSize - sess.remaining>>
    BY <1>2, <2>1, <2>2 DEF SoFar, Answering
  <2>4. 1 + FileSize - sess.remaining = 1 + FileSize
    BY <2>1, <2>2
  <2>5. Done(wire', sess.req)
    BY <2>1, <2>3, <2>4 DEF Done, Size
  <2> QED
    BY <1>2, <1>6, <2>1, <2>5, FinishedSoFar
<1>7. CASE HandleUpgrade
  <2>0. /\ pc = "run" /\ sess.state = "handle" /\ sess'.state = "ws"
        /\ wire' = wire \/ wire' = Append(wire, <<sess.req, "101", 1>>)
    BY <1>7, NewOK DEF HandleUpgrade, Routed, InState, NewSession
  <2> SUFFICES ASSUME wire' = Append(wire, <<sess.req, "101", 1>>)
               PROVE  Whole(wire') /\ (pc' # "closed" => SoFar(sess', wire', Base'))
    BY <1>2, <2>0 DEF SoFar, Asking, Answering
  <2>1. /\ pc = "run" /\ sess.state = "handle" /\ wire' = Append(wire, <<sess.req, "101", 1>>)
        /\ sess'.state = "ws"
    BY <2>0
  <2> DEFINE n == 1
             x == Part(sess.req, "101", n)
  <2>2. x = << <<sess.req, "101", 1>> >>
    BY DEF Part
  <2>3. wire' = wire \o x
    <3>1. <<sess.req, "101", 1>> \in Replies
      BY <1>1 DEF Replies
    <3> HIDE DEF x, Replies
    <3> QED
      BY <2>1, <2>2, <3>1, AppendIs
  <2>4. n \in Nat \ {0}
    OBVIOUS
  <2> HIDE DEF n
  <2>5. Whole(wire')
    BY <1>2, <1>3, <2>1, <2>3, <2>4, AnswerAdds DEF x
  <2> QED
    BY <2>1, <2>5 DEF SoFar, Asking, Answering
<1>8. CASE HandlePage
  <2>1. pc = "run" /\ sess.state = "handle" /\ wire' \in PageOut(sess.req) /\ pc' = "closed"
    BY <1>8 DEF HandlePage, Routed, InState, Close
  <2>2. wire' = wire \/ \E n \in 1 .. 2 : wire' = wire \o Part(sess.req, "page", n)
    BY <1>1, <2>1, PageOutIs
  <2>3. ASSUME NEW n \in 1 .. 2, wire' = wire \o Part(sess.req, "page", n) PROVE Whole(wire')
    <3>1. n \in Nat \ {0}
      OBVIOUS
    <3> QED
      BY <1>2, <1>3, <2>1, <2>3, <3>1, AnswerAdds
  <2> QED
    BY <1>2, <2>1, <2>2, <2>3
<1>9. CASE ReadHeaders
  <2>1. wire' = wire \/ (Whole(wire') /\ pc' = "closed")
    BY <1>9, HeadersAnswer
  <2> SUFFICES ASSUME pc' # "closed", wire' = wire PROVE SoFar(sess', wire', Base')
    BY <1>2, <2>1
  <2>2. /\ pc = "run" /\ sess.state = "headers" /\ Base' = Base
        /\ \/ sess'.state = "headers"
           \/ sess'.state \in {"body", "handle"} /\ sess'.req \in 1 .. Requests
    BY <1>9, HeadersIs
  <2>3. \A k \in 0 .. Requests - 1 : Base = H(k) => Done(wire, k)
    BY <1>2, <2>2 DEF SoFar, Asking
  <2>4. CASE sess'.state = "headers"
    BY <2>2, <2>3, <2>4 DEF SoFar, Answering
  <2>5. CASE sess'.state \in {"body", "handle"} /\ sess'.req \in 1 .. Requests
    <3>1. Base' = H(sess'.req - 1)
      <4>1. RequestInv' /\ \A i : H(i)' = H(i)
        BY <1>1, RequestStep, Steady
      <4>2. Without({"undeclared", "pipelined"})'
        BY <1>1 DEF Sound, Without
      <4>3. sess'.state \in Answering
        BY <2>5 DEF Answering
      <4> QED
        BY <4>1, <4>2, <4>3 DEF RequestInv
    <3>2. sess'.req - 1 \in 0 .. Requests - 1
      <4>1. Requests \in Nat
        BY Fields
      <4> QED
        BY <2>5, <4>1
    <3>3. Done(wire, sess'.req - 1)
      BY <2>2, <2>3, <3>1, <3>2
    <3> QED
      BY <2>5, <3>3 DEF SoFar, Asking
  <2> QED
    BY <2>2, <2>4, <2>5
<1>10. CASE WsStep
  <2>1. wire' = wire /\ sess' = sess /\ sess.state = "ws"
    BY <1>10, WsOK
  <2> QED
    BY <1>2, <2>1 DEF SoFar, Asking, Answering
<1>11. CASE \/ Read /\ ~ReadHeaders
            \/ HandleFcgi \/ HandleNoAccess \/ HandleFile
            \/ SendRetries \/ SendFails \/ Reports \/ ClientStep
  <2>1. /\ wire' = wire
        /\ pc' # "closed" /\ sess'.state = "send" =>
             \/ sess' = sess
             \/ sess.state = "handle" /\ sess'.remaining = FileSize /\ sess'.header_sent = FALSE
    <3>1. CASE Read /\ ~ReadHeaders
      BY <1>1, <3>1 DEF Read, Detect, DetectRetries, Grow, ReadBody, BodyComplete, ReadRetries, ReadEnds,
                        Quiet, Close, Session, InState
    <3>2. CASE HandleFcgi \/ HandleNoAccess \/ HandleFile
      BY <1>1, <3>2 DEF HandleFcgi, HandleNoAccess, HandleFile, Routed, InState, Close, Session, Quiet
    <3>3. CASE SendRetries \/ SendFails \/ Reports \/ ClientStep
      BY <3>3 DEF SendRetries, SendFails, Reports, ClientStep, ClientLeaves, ClientSends, Close, Quiet
    <3> QED
      BY <1>11, <3>1, <3>2, <3>3
  <2> SUFFICES ASSUME pc' # "closed" PROVE SoFar(sess', wire', Base')
    BY <1>2, <2>1
  <2>2. CASE sess'.state \notin Asking \cup Answering
    BY <2>2 DEF SoFar
  <2>3. CASE sess'.state \in Asking \cup Answering
    <3>1. pc # "closed" /\ (ReadHeaders \/ ReadBody \/ Continues \/ Restarts)
      BY <2>3, Moves DEF Asking, Answering
    <3>2. CASE Continues
      BY <1>2, <2>1, <3>1, <3>2, StillSoFar
    <3>3. CASE ReadBody
      <4>1. sess.state = "body" /\ sess'.state = "body" /\ sess'.req = sess.req /\ Base' = Base
        BY <3>3, BodyIs
      <4>2. Done(wire, sess.req - 1)
        BY <1>2, <3>1, <4>1 DEF SoFar, Answering
      <4> QED
        BY <2>1, <4>1, <4>2 DEF SoFar, Asking
    <3>4. CASE Restarts
      <4>1. sess'.state = "headers" /\ (FcgiCompletes \/ FcgiFails \/ SendShrunk \/ SendDone)
        BY <3>4 DEF Restarts
      <4> QED
        BY <1>2, <1>5, <1>6, <4>1 DEF FcgiFails, SendShrunk
    <3> QED
      BY <1>9, <3>1, <3>2, <3>3, <3>4
  <2> QED
    BY <2>2, <2>3
<1>12. CASE Handle \/ Respond
  BY <1>2, <1>4, <1>5, <1>6, <1>7, <1>8, <1>11, <1>12 DEF Handle, Respond, FcgiFails, SendShrunk
<1> QED
  BY <1>9, <1>10, <1>11, <1>12 DEF Next, HttpStep

LEMMA AnswerInit == Init => AnswerInv
<1> SUFFICES ASSUME Init PROVE AnswerInv
  OBVIOUS
<1>1. wire = <<>> /\ sess.state = "detect" /\ world \in World
  BY DEF Init, HttpInit, NewSession
<1>2. Whole(wire)
  BY <1>1 DEF Whole
<1>3. ASSUME NEW k \in 0 .. Requests - 1, Base = H(k) PROVE Done(wire, k)
  <2>1. Base = 0
    BY BaseInit
  <2>2. k = 0
    <3> SUFFICES ASSUME k # 0 PROVE FALSE
      OBVIOUS
    <3> DEFINE n == Requests
    <3>1. n \in Nat /\ k \in 0 .. n - 1
      BY <1>1, WorldTyped
    <3> HIDE DEF n
    <3>2. k \in 1 .. n /\ k - 1 \in 0 .. n /\ 0 \in 0 .. k
      BY <3>1
    <3>3. H(k) = H(k - 1) + 2 + world.reqs[k].body /\ world.reqs[k].body \in Nat /\ H(k - 1) \in Nat
      BY <1>1, <3>2, RequestsLie, WorldTyped DEF n
    <3> DEFINE a == H(k)
               b == H(k - 1)
               e == world.reqs[k].body
    <3>4. a = 0 /\ a = b + 2 + e /\ b \in Nat /\ e \in Nat
      BY <1>3, <2>1, <3>3
    <3> HIDE DEF a, b, e
    <3> QED
      BY <3>4
  <2> QED
    BY <1>1, <2>2 DEF Done
<1> QED
  BY <1>1, <1>2, <1>3 DEF AnswerInv, SoFar, Answering

(* What the client reads are whole responses. *)
LEMMA AnswerFollows ==
  ASSUME AnswerInv
  PROVE  ResponsesWhole
BY DEF AnswerInv, Sound, Whole, ResponsesWhole


(***************************************************************************)
(* The frames.                                                             *)
(***************************************************************************)

(* The script from a frame on. *)
LEMMA FrameSlice ==
  ASSUME world \in World, NEW d \in Nat, d < Frames, NEW n \in 0 .. Long(d + 1)
  PROVE  /\ Mark(d) \in Nat /\ Long(d + 1) \in Nat /\ Long(d + 1) >= 4
         /\ Mark(d + 1) = Mark(d) + Long(d + 1)
         /\ Len(SubSeq(Script, Mark(d) + 1, Mark(d) + n)) = n
         /\ n = 2 => SubSeq(Script, Mark(d) + 1, Mark(d) + n) = Part(d + 1, "hdr", 2)
         /\ n = Long(d + 1) => SubSeq(Script, Mark(d) + 1, Mark(d) + n) = FramePieces(d + 1)
<1> DEFINE j == d + 1
           F == FramePieces(j)
           l == Long(j)
           a == Mark(d)
           b == a + n
           x == SubSeq(Script, a + 1, b)
<1>1. Frames \in Nat /\ d \in 0 .. Frames /\ j \in 1 .. Frames /\ j \in 0 .. Frames /\ j - 1 = d
      /\ j \in Nat
  BY WorldTyped
<1> HIDE DEF j
<1>2. /\ F \in Seq(Pieces) /\ Len(F) = l /\ l \in Nat /\ l >= 4
      /\ \A k \in 1 .. 2 : F[k] = <<j, "hdr", k>>
  <2> DEFINE e == world.frames[j].ext
             p == world.frames[j].pay
  <2>1. /\ F \in Seq(Pieces) /\ Len(F) = 4 + e + p /\ e \in Nat /\ p \in Nat
        /\ \A k \in 1 .. 2 : F[k] = <<j, "hdr", k>>
    BY <1>1, FrameIs
  <2>2. l = 4 + e + p
    BY DEF Long
  <2> HIDE DEF F, l, e, p
  <2> QED
    BY <2>1, <2>2
<1>3. /\ Script \in Seq(Pieces) /\ a \in Nat /\ Mark(j) \in Nat /\ Mark(j) <= Len(Script)
      /\ Mark(j) = Mark(j - 1) + l /\ Len(Script) \in Nat
      /\ \A k \in 1 .. l : Script[Mark(j - 1) + k] = F[k]
  <2>1. Frames \in 0 .. Frames
    BY <1>1
  <2> QED
    BY <1>1, <2>1, ScriptLies
<1>4. n \in 0 .. l
  BY DEF j
<1>5. Mark(j) = a + l /\ \A k \in 1 .. l : Script[a + k] = F[k]
  BY <1>1, <1>3
<1> HIDE DEF F, l, a, Pieces
<1>6. b \in Nat /\ b <= Len(Script) /\ a <= b /\ b - a = n
  <2> DEFINE m == Mark(j)
             s == Len(Script)
  <2>1. m \in Nat /\ s \in Nat /\ a \in Nat /\ l \in Nat /\ n \in 0 .. l /\ m = a + l /\ m <= s
    BY <1>2, <1>3, <1>4, <1>5
  <2> HIDE DEF m, s
  <2>2. b \in Nat /\ b <= s /\ a <= b /\ b - a = n
    BY <2>1
  <2> QED
    BY <2>2 DEF s
<1> HIDE DEF b
<1>7. x \in Seq(Pieces) /\ Len(x) = n /\ \A k \in 1 .. n : x[k] = Script[a + k]
  <2>1. /\ x \in Seq(Pieces) /\ Len(x) = IF a <= b THEN b - a ELSE 0
        /\ \A k \in 1 .. b - a : x[k] = Script[a + k]
    <3> DEFINE s == Script
               y == SubSeq(s, a + 1, b)
    <3>1. s \in Seq(Pieces) /\ a \in Nat /\ b \in Nat /\ b <= Len(s)
      BY <1>3, <1>6
    <3> HIDE DEF s
    <3>2. /\ y \in Seq(Pieces) /\ Len(y) = IF a <= b THEN b - a ELSE 0
          /\ \A k \in 1 .. b - a : y[k] = s[a + k]
      BY <3>1, Slice
    <3> QED
      BY <3>2 DEF s
  <2> QED
    BY <1>6, <2>1
<1> HIDE DEF x
<1>8. \A k \in 1 .. n : x[k] = F[k]
  <2> TAKE k \in 1 .. n
  <2>1. k \in 1 .. l
    BY <1>2, <1>4
  <2> QED
    BY <1>5, <1>7, <2>1
<1>9. ASSUME n = 2 PROVE x = Part(j, "hdr", 2)
  <2> DEFINE P == Part(j, "hdr", 2)
  <2>1. P \in Seq(Pieces) /\ Len(P) = 2 /\ \A k \in 1 .. 2 : P[k] = <<j, "hdr", k>>
    <3> DEFINE p == "hdr"
               two == 2
    <3>1. p \in PartNames /\ two \in Nat
      BY DEF PartNames
    <3>2. two = 2 /\ p = "hdr"
      OBVIOUS
    <3> HIDE DEF p, two
    <3>3. /\ Part(j, p, two) \in Seq(Pieces) /\ Len(Part(j, p, two)) = two
          /\ \A k \in 1 .. two : Part(j, p, two)[k] = <<j, p, k>>
      BY <1>1, <3>1, PartIs
    <3> QED
      BY <3>2, <3>3
  <2>2. \A k \in 1 .. 2 : x[k] = P[k]
    BY <1>2, <1>8, <1>9, <2>1
  <2> HIDE DEF P
  <2>3. x = P
    BY <1>7, <1>9, <2>1, <2>2
  <2> QED
    BY <2>3 DEF P
<1>10. ASSUME n = l PROVE x = F
  BY <1>2, <1>7, <1>8, <1>10
<1> QED
  BY <1>2, <1>3, <1>5, <1>7, <1>9, <1>10 DEF x, b, a, l, F, j

(* The parts of what the receiver has after reading t. *)
LEMMA AddsParts ==
  ASSUME TypeInv, NEW part \in Parts, NEW j \in Nat, NEW t \in Seq(Pieces), NEW r,
         r = Adds(part, j, t)
  PROVE  /\ r \in Receiver /\ r.as = j /\ r.state = recv.state
         /\ r.hdr = IF part = "hdr" THEN recv.hdr \o t ELSE recv.hdr
         /\ r.ext = IF part = "ext" THEN recv.ext \o t ELSE recv.ext
         /\ r.mask = IF part = "mask" THEN recv.mask \o t ELSE recv.mask
         /\ r.pay = IF part = "pay" THEN recv.pay \o t ELSE recv.pay
         /\ recv \in Receiver
         /\ recv.hdr \in Seq(Pieces) /\ recv.ext \in Seq(Pieces)
         /\ recv.mask \in Seq(Pieces) /\ recv.pay \in Seq(Pieces)
<1>1. recv \in Receiver
  BY DEF TypeInv, ReceiverOK
<1>2. r \in Receiver /\ r.as = j /\ r.state = recv.state
  BY AddsIs
<1>3. r = [recv EXCEPT ![part] = recv[part] \o t, !.as = j]
  BY DEF Adds
<1> HIDE DEF Pieces
<1>4. part \in {"hdr", "ext", "mask", "pay"}
  BY DEF Parts
<1>5. /\ r.hdr = IF part = "hdr" THEN recv.hdr \o t ELSE recv.hdr
      /\ r.ext = IF part = "ext" THEN recv.ext \o t ELSE recv.ext
      /\ r.mask = IF part = "mask" THEN recv.mask \o t ELSE recv.mask
      /\ r.pay = IF part = "pay" THEN recv.pay \o t ELSE recv.pay
  <2>1. CASE part = "hdr"
    BY <1>1, <1>3, <2>1 DEF Receiver
  <2>2. CASE part = "ext"
    BY <1>1, <1>3, <2>2 DEF Receiver
  <2>3. CASE part = "mask"
    BY <1>1, <1>3, <2>3 DEF Receiver
  <2>4. CASE part = "pay"
    BY <1>1, <1>3, <2>4 DEF Receiver
  <2> QED
    BY <1>4, <2>1, <2>2, <2>3, <2>4
<1>6. /\ recv.hdr \in Seq(Pieces) /\ recv.ext \in Seq(Pieces)
      /\ recv.mask \in Seq(Pieces) /\ recv.pay \in Seq(Pieces)
  BY <1>1 DEF Receiver
<1> QED
  BY <1>1, <1>2, <1>5, <1>6

LEMMA ConcatEmpty ==
  ASSUME NEW L, NEW s \in Seq(L)
  PROVE  s \o <<>> = s
OBVIOUS

(* What is read goes to the end of the frame. *)
LEMMA BytesAdds ==
  ASSUME TypeInv, NEW part \in Parts, NEW j \in Nat, NEW t \in Seq(Pieces), NEW r,
         r = Adds(part, j, t),
         part = "hdr" => recv.ext = <<>>,
         part \in {"hdr", "ext"} => recv.mask = <<>>,
         part # "pay" => recv.pay = <<>>
  PROVE  Bytes(r) = Bytes(recv) \o t
<1> DEFINE h == recv.hdr
           e == recv.ext
           m == recv.mask
           p == recv.pay
<1>1. /\ r.hdr = IF part = "hdr" THEN h \o t ELSE h
      /\ r.ext = IF part = "ext" THEN e \o t ELSE e
      /\ r.mask = IF part = "mask" THEN m \o t ELSE m
      /\ r.pay = IF part = "pay" THEN p \o t ELSE p
      /\ h \in Seq(Pieces) /\ e \in Seq(Pieces) /\ m \in Seq(Pieces) /\ p \in Seq(Pieces)
  BY AddsParts
<1>2. Bytes(recv) = h \o e \o m \o p
  BY DEF Bytes
<1>3. part \in {"hdr", "ext", "mask", "pay"}
  BY DEF Parts
<1>4. /\ part = "hdr" => e = <<>> /\ m = <<>> /\ p = <<>>
      /\ part = "ext" => m = <<>> /\ p = <<>>
      /\ part = "mask" => p = <<>>
  OBVIOUS
<1> HIDE DEF h, e, m, p, Pieces
<1>5. /\ h \o e \in Seq(Pieces) /\ h \o e \o m \in Seq(Pieces) /\ h \o t \in Seq(Pieces)
      /\ (h \o e) \o t \in Seq(Pieces) /\ (h \o e \o m) \o t \in Seq(Pieces)
  BY <1>1
<1>6. CASE part = "hdr"
  <2>1. Bytes(r) = (h \o t) \o <<>> \o <<>> \o <<>> /\ Bytes(recv) = h \o <<>> \o <<>> \o <<>>
    BY <1>1, <1>2, <1>4, <1>6 DEF Bytes
  <2>2. h \o <<>> = h /\ (h \o t) \o <<>> = h \o t
    BY <1>1, <1>5, ConcatEmpty
  <2> QED
    BY <2>1, <2>2
<1>7. CASE part = "ext"
  <2>1. Bytes(r) = (h \o (e \o t)) \o <<>> \o <<>> /\ Bytes(recv) = (h \o e) \o <<>> \o <<>>
    BY <1>1, <1>2, <1>4, <1>7 DEF Bytes
  <2>2. h \o (e \o t) = (h \o e) \o t
    <3>1. h \in Seq(Pieces) /\ e \in Seq(Pieces) /\ t \in Seq(Pieces)
      BY <1>1
    <3>2. (h \o e) \o t = h \o (e \o t)
      BY <3>1, ConcatAssociative
    <3> QED
      BY <3>2
  <2>3. (h \o e) \o <<>> = h \o e /\ ((h \o e) \o t) \o <<>> = (h \o e) \o t
    BY <1>5, ConcatEmpty
  <2> QED
    BY <2>1, <2>2, <2>3
<1>8. CASE part = "mask"
  <2> DEFINE g == h \o e
  <2>1. Bytes(r) = (g \o (m \o t)) \o <<>> /\ Bytes(recv) = (g \o m) \o <<>>
    BY <1>1, <1>2, <1>4, <1>8 DEF Bytes
  <2>2. g \o (m \o t) = (g \o m) \o t
    <3>1. g \in Seq(Pieces) /\ m \in Seq(Pieces) /\ t \in Seq(Pieces)
      BY <1>1, <1>5
    <3> HIDE DEF g
    <3>2. (g \o m) \o t = g \o (m \o t)
      BY <3>1, ConcatAssociative
    <3> QED
      BY <3>2
  <2>3. (g \o m) \o <<>> = g \o m /\ ((g \o m) \o t) \o <<>> = (g \o m) \o t
    BY <1>5, ConcatEmpty
  <2> QED
    BY <2>1, <2>2, <2>3
<1>9. CASE part = "pay"
  <2> DEFINE g == h \o e \o m
  <2>1. Bytes(r) = g \o (p \o t) /\ Bytes(recv) = g \o p
    BY <1>1, <1>2, <1>9 DEF Bytes
  <2>2. g \o (p \o t) = (g \o p) \o t
    <3>1. g \in Seq(Pieces) /\ p \in Seq(Pieces) /\ t \in Seq(Pieces)
      BY <1>1, <1>5
    <3> HIDE DEF g
    <3>2. (g \o p) \o t = g \o (p \o t)
      BY <3>1, ConcatAssociative
    <3> QED
      BY <3>2
  <2> QED
    BY <2>1, <2>2
<1> QED
  BY <1>3, <1>6, <1>7, <1>8, <1>9


(* A receiver whose part is complete has all of a frame up to that part. *)
FullTo(r, part, d) ==
  /\ d < Frames /\ r.as = d + 1 /\ Len(r.hdr) = 2
  /\ part = "hdr" => r.ext = <<>> /\ r.mask = <<>> /\ r.pay = <<>>
  /\ part = "ext" => r.mask = <<>> /\ r.pay = <<>>
  /\ part = "mask" => r.pay = <<>>
  /\ part # "hdr" => Len(r.ext) = Announced(r).ext
  /\ part \in {"mask", "pay"} => Len(r.mask) = 2
  /\ part = "pay" => Len(r.pay) = Announced(r).pay

LEMMA AnnouncedTyped ==
  ASSUME world \in World, NEW d \in Nat, NEW r, d < Frames, r.as = d + 1
  PROVE  /\ Announced(r).ext \in {0, 2} /\ Announced(r).pay \in Nat
         /\ Long(d + 1) = 4 + Announced(r).ext + Announced(r).pay
<1>1. d + 1 \in 1 .. Frames
  BY WorldTyped
<1>2. world.frames[d + 1] \in WsFrame
  BY <1>1, WorldTyped
<1> QED
  BY <1>2 DEF Announced, Long, WsFrame

LEMMA PartFull ==
  ASSUME TypeInv, NEW part \in Parts, NEW d \in Nat, NEW t \in Seq(Pieces), NEW r,
         r = Adds(part, d + 1, t), recv.state = part, Filled(recv, d), Complete(r, part), d < Frames
  PROVE  FullTo(r, part, d)
<1>1. /\ r \in Receiver /\ r.as = d + 1 /\ r.state = recv.state
      /\ r.hdr = IF part = "hdr" THEN recv.hdr \o t ELSE recv.hdr
      /\ r.ext = IF part = "ext" THEN recv.ext \o t ELSE recv.ext
      /\ r.mask = IF part = "mask" THEN recv.mask \o t ELSE recv.mask
      /\ r.pay = IF part = "pay" THEN recv.pay \o t ELSE recv.pay
  <2>1. d + 1 \in Nat
    OBVIOUS
  <2> QED
    BY <2>1, AddsParts
<1>2. part \in {"hdr", "ext", "mask", "pay"}
  BY DEF Parts
<1>3. part # "hdr" => Announced(r) = Announced(recv)
  BY <1>1 DEF Filled, Announced
<1>4. /\ part = "hdr" => Len(r.hdr) = 2
      /\ part = "ext" => Len(r.ext) = Announced(r).ext
      /\ part = "mask" => Len(r.mask) = 2
      /\ part = "pay" => Len(r.pay) = Announced(r).pay
  <2>1. CASE part = "hdr"
    BY <2>1 DEF Complete, Expected
  <2>2. CASE part = "ext"
    BY <2>2 DEF Complete, Expected
  <2>3. CASE part = "mask"
    BY <2>3 DEF Complete, Expected
  <2>4. CASE part = "pay"
    BY <2>4 DEF Complete, Expected
  <2> QED
    BY <1>2, <2>1, <2>2, <2>3, <2>4
<1> HIDE DEF Pieces
<1>5. CASE part = "hdr"
  BY <1>1, <1>4, <1>5 DEF FullTo, Filled
<1>6. CASE part = "ext"
  BY <1>1, <1>3, <1>4, <1>6 DEF FullTo, Filled
<1>7. CASE part = "mask"
  BY <1>1, <1>3, <1>4, <1>7 DEF FullTo, Filled
<1>8. CASE part = "pay"
  BY <1>1, <1>3, <1>4, <1>8 DEF FullTo, Filled
<1> QED
  BY <1>2, <1>5, <1>6, <1>7, <1>8

(* The next part of a frame begins. *)
LEMMA NextPart ==
  ASSUME world \in World, NEW d \in Nat, NEW part \in Parts, NEW r \in Receiver, NEW s,
         FullTo(r, part, d), After(r, part) # "whole", s = [r EXCEPT !.state = After(r, part)]
  PROVE  Filled(s, d) /\ Bytes(s) = Bytes(r)
<1>1. /\ s.state = After(r, part) /\ s.hdr = r.hdr /\ s.ext = r.ext /\ s.mask = r.mask
      /\ s.pay = r.pay /\ s.as = r.as
  BY DEF Receiver
<1>2. Announced(s) = Announced(r)
  BY <1>1 DEF Announced
<1>3. Announced(r).ext \in {0, 2} /\ Announced(r).pay \in Nat
  BY AnnouncedTyped DEF FullTo
<1>4. part \in {"hdr", "ext", "mask", "pay"}
  BY DEF Parts
<1>5. Len(<<>>) = 0
  OBVIOUS
<1>6. CASE part = "hdr"
  <2>1. /\ s.mask = <<>> /\ s.pay = <<>> /\ Len(s.hdr) = 2 /\ d < Frames /\ s.as = d + 1
        /\ Len(s.ext) = 0 /\ Len(s.mask) = 0
    BY <1>1, <1>5, <1>6 DEF FullTo
  <2>2. ASSUME Announced(r).ext > 0 PROVE Filled(s, d)
    <3>1. s.state = "ext"
      BY <1>1, <1>6, <2>2 DEF After
    <3>2. Len(s.ext) < Announced(s).ext
      BY <1>2, <1>3, <2>1, <2>2
    <3> QED
      BY <2>1, <3>1, <3>2 DEF Filled
  <2>3. ASSUME ~ (Announced(r).ext > 0) PROVE Filled(s, d)
    <3>1. s.state = "mask" /\ Announced(r).ext = 0
      BY <1>1, <1>3, <1>6, <2>3 DEF After
    <3>2. Len(s.ext) = Announced(s).ext /\ Len(s.mask) < 2
      BY <1>2, <2>1, <3>1
    <3> QED
      BY <2>1, <3>1, <3>2 DEF Filled
  <2>4. Filled(s, d)
    BY <2>2, <2>3
  <2> QED
    BY <1>1, <2>4 DEF Bytes
<1>7. CASE part = "ext"
  <2>1. s.state = "mask"
    BY <1>1, <1>7 DEF After
  <2>2. /\ s.mask = <<>> /\ s.pay = <<>> /\ Len(s.hdr) = 2 /\ d < Frames /\ s.as = d + 1
        /\ Len(s.ext) = Announced(s).ext /\ Len(s.mask) = 0
    BY <1>1, <1>2, <1>5, <1>7 DEF FullTo
  <2>3. Filled(s, d)
    BY <2>1, <2>2 DEF Filled
  <2> QED
    BY <1>1, <2>3 DEF Bytes
<1>8. CASE part = "mask"
  <2>1. s.state = "pay" /\ Announced(r).pay > 0
    BY <1>1, <1>8 DEF After
  <2>2. /\ s.pay = <<>> /\ Len(s.hdr) = 2 /\ d < Frames /\ s.as = d + 1
        /\ Len(s.ext) = Announced(s).ext /\ Len(s.mask) = 2 /\ Len(s.pay) = 0
    BY <1>1, <1>2, <1>5, <1>8 DEF FullTo
  <2>3. Filled(s, d)
    BY <1>2, <1>3, <2>1, <2>2 DEF Filled
  <2> QED
    BY <1>1, <2>3 DEF Bytes
<1>9. CASE part = "pay"
  BY <1>9 DEF After
<1> QED
  BY <1>4, <1>6, <1>7, <1>8, <1>9

LEMMA FrameLong ==
  ASSUME world \in World, NEW d \in Nat, NEW part \in Parts, NEW r \in Receiver,
         FullTo(r, part, d), After(r, part) = "whole"
  PROVE  Len(Bytes(r)) = Long(d + 1)
<1>1. /\ Announced(r).ext \in {0, 2} /\ Announced(r).pay \in Nat
      /\ Long(d + 1) = 4 + Announced(r).ext + Announced(r).pay
  BY AnnouncedTyped DEF FullTo
<1>2. Len(Bytes(r)) = Len(r.hdr) + Len(r.ext) + Len(r.mask) + Len(r.pay)
  BY BytesTyped
<1>3. part \in {"hdr", "ext", "mask", "pay"}
  BY DEF Parts
<1>4. part \in {"mask", "pay"} /\ (part = "mask" => ~ (Announced(r).pay > 0))
  BY <1>3 DEF After
<1>5. Len(<<>>) = 0
  OBVIOUS
<1>6. Len(r.hdr) = 2 /\ Len(r.ext) = Announced(r).ext /\ Len(r.mask) = 2
  BY <1>4 DEF FullTo
<1>7. Len(r.pay) = Announced(r).pay
  <2>1. CASE part = "mask"
    <3>1. Announced(r).pay = 0 /\ r.pay = <<>>
      BY <1>1, <1>4, <2>1 DEF FullTo
    <3> QED
      BY <1>5, <3>1
  <2>2. CASE part = "pay"
    BY <2>2 DEF FullTo
  <2> QED
    BY <1>4, <2>1, <2>2
<1> DEFINE a == Len(r.hdr)
           b == Len(r.ext)
           c == Len(r.mask)
           e == Len(r.pay)
           f == Announced(r).ext
           g == Announced(r).pay
<1>8. /\ f \in Nat /\ g \in Nat /\ a = 2 /\ b = f /\ c = 2 /\ e = g
      /\ Len(Bytes(r)) = a + b + c + e /\ Long(d + 1) = 4 + f + g
  BY <1>1, <1>2, <1>6, <1>7
<1> HIDE DEF a, b, c, e, f, g
<1> QED
  BY <1>8


LEMMA FrameJoin ==
  ASSUME world' = world, world \in World,
         Without({"early", "undeclared"}) =>
           /\ Ordered(delivered')
           /\ pc' # "closed" /\ sess'.state = "ws" => InStep(recv', Len(delivered'), Taken')
  PROVE  FrameInv'
<1>1. /\ Script' = Script /\ Frames' = Frames /\ \A i : Mark(i)' = Mark(i)
      /\ \A i : FramePieces(i)' = FramePieces(i)
      /\ (Without({"early", "undeclared"})' <=> Without({"early", "undeclared"}))
  BY Steady
<1>2. Ordered(delivered') => Ordered(delivered)'
  BY <1>1 DEF Ordered
<1>3. Filled(recv', Len(delivered')) => Filled(recv, Len(delivered))'
  BY <1>1 DEF Filled, Announced
<1>4. InStep(recv', Len(delivered'), Taken') => InStep(recv, Len(delivered), Taken)'
  BY <1>1, <1>3 DEF InStep, Bytes
<1> QED
  BY <1>1, <1>2, <1>4 DEF FrameInv

(* Between two frames. *)
LEMMA Anew ==
  ASSUME world \in World, NEW d \in 0 .. Frames
  PROVE  InStep(NoFrame, d, Mark(d))
<1> DEFINE a == Mark(d)
           B == Bytes(NoFrame)
<1>1. Script \in Seq(Pieces) /\ a \in Nat /\ a <= Len(Script) /\ d <= Frames
  BY WorldTyped, ScriptLies
<1>2. B = <<>> /\ Filled(NoFrame, d)
  BY DEF NoFrame, Bytes, Filled
<1>3. Len(B) = 0
  BY <1>2
<1> HIDE DEF a, B, Pieces
<1>4. SubSeq(Script, a + 1, a) = <<>>
  <2> DEFINE x == SubSeq(Script, a + 1, a)
  <2>1. x \in Seq(Pieces) /\ Len(x) = IF a <= a THEN a - a ELSE 0
    BY <1>1, Slice
  <2>2. Len(x) = 0
    BY <1>1, <2>1
  <2> HIDE DEF x
  <2>3. x = <<>>
    BY <2>1, <2>2
  <2> QED
    BY <2>3 DEF x
<1>5. a = a + Len(B)
  BY <1>1, <1>3
<1> QED
  BY <1>1, <1>2, <1>4, <1>5 DEF InStep, a, B

(* The client switches when it has the 101, so nothing it sent as a frame   *)
(* was in the buffer that is dropped.                                      *)
LEMMA UpgradeInStep ==
  ASSUME TypeInv, Flow, Order, Limit, Without({"early", "undeclared"}), HandleUpgrade, Next
  PROVE  InStep(NoFrame, 0, Taken')
<1> DEFINE n == Requests
           q == sess.req
<1>1. /\ pc = "run" /\ sess.state = "handle" /\ Req.kind = "upgrade"
      /\ net' = net /\ pending' = pending /\ sent' = sent /\ world' = world
      /\ sess' = [NewSession EXCEPT !.state = "ws"]
  BY DEF HandleUpgrade, Routed, InState
<1>2. Taken' = Taken
  BY <1>1, NewOK, FlowKept
<1>3. /\ world \in World /\ n \in Nat \ {0} /\ sent \in Nat
      /\ Without({"undeclared"}) /\ ~Can("early")
  BY Fields DEF Without, Can
<1>4. /\ q \in 1 .. n /\ H(q - 1) \in Nat /\ H(q) \in Nat /\ Taken \in Nat
      /\ H(q) = H(q - 1) + 2 + Req.body /\ Req.body \in Nat
      /\ Taken >= H(q - 1) + 2 + Req.declared
  BY <1>1, AnsweringIs DEF Answering
<1>5. q = n /\ Req.declared = Req.body
  BY <1>1, <1>3, <1>4, WorldRules DEF Req
<1>6. sent <= H(n)
  <2>1. ~Answered(n)
    BY <1>1, <1>5 DEF Order, Answering, Answered, ToSet
  <2>2. Waits(n) /\ n \in 1 .. n
    BY <1>3 DEF Waits
  <2> QED
    BY <2>1, <2>2 DEF Limit
<1>7. Taken = sent - Len(Unread) /\ Len(Unread) \in Nat
  BY UnreadTyped DEF Taken
<1>8. Taken = H(n)
  <2> DEFINE t == Taken
             s == sent
             u == Len(Unread)
             a == H(n)
             b == H(q - 1)
             e == Req.body
  <2>1. /\ t \in Nat /\ s \in Nat /\ u \in Nat /\ a \in Nat /\ b \in Nat /\ e \in Nat
        /\ a = b + 2 + e /\ t >= b + 2 + e /\ s <= a /\ t = s - u
    BY <1>3, <1>4, <1>5, <1>6, <1>7
  <2> HIDE DEF t, s, u, a, b, e
  <2>2. t = a
    BY <2>1
  <2> QED
    BY <2>2 DEF t, a
<1>9. Mark(0) = H(n) /\ 0 \in 0 .. Frames
  BY <1>3, ScriptLies, WorldTyped
<1>10. InStep(NoFrame, 0, Mark(0))
  BY <1>3, <1>9, Anew
<1> QED
  BY <1>2, <1>8, <1>9, <1>10

(* More of a frame is read. *)
LEMMA ReceiveInStep ==
  ASSUME TypeInv, Flow, Ordered(delivered), InStep(recv, Len(delivered), Taken), Next,
         NEW part \in Parts, Receive(part)
  PROVE  Ordered(delivered') /\ (pc' # "closed" => InStep(recv', Len(delivered'), Taken'))
<1> DEFINE mi == Expected(recv, part) - Len(recv[part])
           t == Took(mi)
           d == Len(delivered)
           a == Mark(d)
           T == Taken
           U == Taken'
<1>1. /\ pc = "run" /\ recv.state = part /\ mi \in Int /\ Expected(recv, part) \in Nat /\ Recv(mi)
      /\ t \in Seq(Pieces) /\ Len(t) \in 1 .. mi /\ sent' = sent /\ world' = world
      /\ \E j \in 0 .. Frames :
           /\ part # "hdr" => j = recv.as /\ j # 0
           /\ part = "hdr" /\ Len(recv.hdr) + Len(t) = 2 =>
                j # 0 /\ \A i \in 1 .. Frames : recv.hdr \o t = Part(i, "hdr", 2) => j = i
           /\ \/ Kept(part, Adds(part, j, t)) \/ Refused(part, Adds(part, j, t))
              \/ Gone(part, Adds(part, j, t)) \/ Handed(part, Adds(part, j, t))
  BY ReceiveIs
<1>2. /\ world \in World /\ recv \in Receiver /\ delivered \in Seq(Seq(Pieces)) /\ d \in Nat
      /\ Frames \in Nat /\ sent \in Nat /\ sent <= Len(Script)
  <2>1. recv \in Receiver /\ delivered \in Seq(Seq(Pieces))
    BY DEF TypeInv, ReceiverOK
  <2>2. d \in Nat
    <3> DEFINE S == Seq(Pieces)
    <3>1. delivered \in Seq(S)
      BY <2>1
    <3> HIDE DEF S
    <3> QED
      BY <3>1
  <2> QED
    BY <2>1, <2>2, Fields, WorldTyped
<1>3. /\ d <= Frames /\ Filled(recv, d) /\ T = a + Len(Bytes(recv))
      /\ Bytes(recv) = SubSeq(Script, a + 1, T)
  BY DEF InStep
<1>4. /\ U = T + Len(t) /\ U <= sent /\ t = SubSeq(Script, T + 1, U)
  BY <1>1, RecvTakes DEF Flow
<1> HIDE DEF mi, t, Pieces
<1>5. PICK j \in 0 .. Frames :
        /\ part # "hdr" => j = recv.as /\ j # 0
        /\ part = "hdr" /\ Len(recv.hdr) + Len(t) = 2 =>
             j # 0 /\ \A i \in 1 .. Frames : recv.hdr \o t = Part(i, "hdr", 2) => j = i
        /\ \/ Kept(part, Adds(part, j, t)) \/ Refused(part, Adds(part, j, t))
           \/ Gone(part, Adds(part, j, t)) \/ Handed(part, Adds(part, j, t))
  BY <1>1
<1> DEFINE r == Adds(part, j, t)
<1>6. j \in Nat /\ part \in {"hdr", "ext", "mask", "pay"}
  BY DEF Parts
<1>7. /\ r \in Receiver /\ r.as = j /\ r.state = recv.state
      /\ r.hdr = IF part = "hdr" THEN recv.hdr \o t ELSE recv.hdr
      /\ r.ext = IF part = "ext" THEN recv.ext \o t ELSE recv.ext
      /\ r.mask = IF part = "mask" THEN recv.mask \o t ELSE recv.mask
      /\ r.pay = IF part = "pay" THEN recv.pay \o t ELSE recv.pay
      /\ recv.hdr \in Seq(Pieces) /\ recv.ext \in Seq(Pieces)
      /\ recv.mask \in Seq(Pieces) /\ recv.pay \in Seq(Pieces)
  BY <1>1, <1>6, AddsParts
<1>8. /\ r[part] = recv[part] \o t /\ recv[part] \in Seq(Pieces) /\ Len(recv[part]) \in Nat
      /\ Len(r[part]) = Len(recv[part]) + Len(t)
  BY <1>1, <1>6, AddsIs
<1>9. /\ part = "hdr" => recv.ext = <<>>
      /\ part \in {"hdr", "ext"} => recv.mask = <<>>
      /\ part # "pay" => recv.pay = <<>>
  BY <1>1, <1>3, <1>6 DEF Filled
<1>10. Bytes(r) = Bytes(recv) \o t
  <2> DEFINE s == Adds(part, j, t)
  <2>1. s = Adds(part, j, t)
    OBVIOUS
  <2> HIDE DEF s
  <2>2. Bytes(s) = Bytes(recv) \o t
    BY <1>1, <1>6, <1>9, <2>1, BytesAdds
  <2> QED
    BY <2>2 DEF s
<1> HIDE DEF r
<1>11. /\ Bytes(recv) \in Seq(Pieces) /\ Bytes(r) \in Seq(Pieces)
       /\ Len(Bytes(r)) = Len(Bytes(recv)) + Len(t)
       /\ Len(Bytes(recv)) \in Nat /\ Len(t) \in Nat \ {0}
  <2>1. Bytes(recv) \in Seq(Pieces)
    BY <1>2, BytesTyped
  <2>2. Len(t) \in Nat \ {0}
    BY <1>1
  <2> QED
    BY <1>1, <1>10, <2>1, <2>2, ConcatIs
<1>12. a \in Nat /\ Script \in Seq(Pieces) /\ Len(Script) \in Nat /\ Len(Script) = Mark(Frames)
  <2>1. d \in 0 .. Frames
    BY <1>2, <1>3
  <2> QED
    BY <1>2, <2>1, ScriptLies DEF Mark
<1>13. /\ T \in Nat /\ U \in Nat /\ a <= T /\ T <= U /\ U <= Len(Script) /\ a < U
       /\ U = a + Len(Bytes(r))
  <2> DEFINE x == Len(Bytes(recv))
             y == Len(t)
             z == Len(Bytes(r))
             s == sent
             l == Len(Script)
  <2>1. /\ x \in Nat /\ y \in Nat \ {0} /\ z = x + y /\ s \in Nat /\ l \in Nat /\ s <= l
        /\ a \in Nat /\ T = a + x /\ U = T + y /\ U <= s
    BY <1>2, <1>3, <1>4, <1>11, <1>12
  <2> HIDE DEF x, y, z, s, l, a, T, U
  <2>2. /\ T \in Nat /\ U \in Nat /\ a <= T /\ T <= U /\ U <= l /\ a < U /\ U = a + z
    BY <2>1
  <2> QED
    BY <2>2 DEF l, z
<1> HIDE DEF a, T, U
<1>14. Bytes(r) = SubSeq(Script, a + 1, U)
  <2>1. SubSeq(Script, a + 1, T) \o SubSeq(Script, T + 1, U) = SubSeq(Script, a + 1, U)
    <3>1. /\ Script \in Seq(Pieces) /\ a \in Nat /\ T \in Nat /\ U \in Nat
          /\ a <= T /\ T <= U /\ U <= Len(Script)
      BY <1>12, <1>13
    <3> HIDE DEF Pieces
    <3> QED
      BY <3>1, SlicesMeet
  <2> QED
    BY <1>3, <1>4, <1>10, <2>1
<1>15. d < Frames
  <2> SUFFICES ASSUME d = Frames PROVE FALSE
    BY <1>2, <1>3
  <2>1. a = Len(Script)
    BY <1>12 DEF a
  <2> DEFINE l == Len(Script)
  <2>2. a = l /\ a < U /\ U <= l /\ a \in Nat /\ U \in Nat /\ l \in Nat
    BY <1>12, <1>13, <2>1
  <2> HIDE DEF l
  <2> QED
    BY <2>2
<1>16. part # "hdr" => j = d + 1
  BY <1>1, <1>3, <1>5 DEF Filled
<1>17. ASSUME Complete(r, part) PROVE j = d + 1
  <2>1. CASE part = "hdr"
    <3>1. Len(r.hdr) = 2 /\ r.hdr = recv.hdr \o t
      BY <1>7, <1>17, <2>1 DEF Complete, Expected
    <3>2. Len(recv.hdr) + Len(t) = 2
      BY <1>1, <1>7, <3>1, ConcatIs
    <3>3. Bytes(r) = recv.hdr \o t
      <4>1. r.ext = <<>> /\ r.mask = <<>> /\ r.pay = <<>>
        BY <1>7, <1>9, <2>1
      <4>2. Bytes(r) = (((recv.hdr \o t) \o <<>>) \o <<>>) \o <<>>
        BY <3>1, <4>1 DEF Bytes
      <4>3. recv.hdr \o t \in Seq(Pieces)
        BY <1>1, <1>7
      <4>4. (recv.hdr \o t) \o <<>> = recv.hdr \o t
        BY <4>3, ConcatEmpty
      <4> QED
        BY <4>2, <4>4
    <3>4. U = a + 2
      BY <1>13, <3>1, <3>3
    <3>5. Bytes(r) = Part(d + 1, "hdr", 2)
      <4>1. Long(d + 1) \in Nat /\ Long(d + 1) >= 4
        <5> DEFINE e == world.frames[d + 1].ext
                   p == world.frames[d + 1].pay
        <5>1. e \in Nat /\ p \in Nat /\ Long(d + 1) = 4 + e + p
          <6>1. d + 1 \in 1 .. Frames
            BY <1>2, <1>15
          <6> QED
            BY <1>2, <6>1, FrameIs DEF Long
        <5> HIDE DEF e, p
        <5> QED
          BY <5>1
      <4> DEFINE n == 2
      <4>2. n \in 0 .. Long(d + 1) /\ n = 2
        BY <4>1
      <4> HIDE DEF n
      <4>3. SubSeq(Script, Mark(d) + 1, Mark(d) + n) = Part(d + 1, "hdr", 2)
        BY <1>2, <1>15, <4>2, FrameSlice
      <4> QED
        BY <1>14, <3>4, <4>2, <4>3 DEF a
    <3>6. d + 1 \in 1 .. Frames
      BY <1>2, <1>15
    <3> QED
      BY <1>5, <2>1, <3>2, <3>3, <3>5, <3>6
  <2> QED
    BY <1>16, <2>1
<1>18. ASSUME Complete(r, part) PROVE FullTo(r, part, d)
  <2>1. j = d + 1
    BY <1>17, <1>18
  <2>2. r = Adds(part, d + 1, t)
    BY <2>1 DEF r
  <2> QED
    BY <1>1, <1>2, <1>3, <1>15, <1>18, <2>2, PartFull
<1>19. CASE Kept(part, r)
  <2>1. ~Complete(r, part) /\ recv' = r /\ delivered' = delivered
    BY <1>19 DEF Kept
  <2>2. Expected(r, part) = Expected(recv, part)
    BY <1>5, <1>6, <1>7 DEF Expected, Announced
  <2>3. Len(r[part]) < Expected(recv, part)
    <3> DEFINE x == Len(r[part])
               y == Len(recv[part])
               z == Len(t)
               e == Expected(recv, part)
    <3>1. /\ y \in Nat /\ x = y + z /\ z \in 1 .. e - y /\ e \in Nat /\ x # e
      BY <1>1, <1>8, <2>1, <2>2 DEF Complete, mi
    <3> HIDE DEF x, y, z, e
    <3>2. x < e
      BY <3>1
    <3> QED
      BY <3>2 DEF x, e
  <2>4. Filled(r, d)
    <3>1. CASE part = "hdr"
      <4>1. Len(r.hdr) < 2 /\ r.ext = <<>> /\ r.mask = <<>> /\ r.pay = <<>> /\ r.state = "hdr"
        BY <1>1, <1>7, <1>9, <2>3, <3>1 DEF Expected
      <4> QED
        BY <4>1 DEF Filled
    <3>2. CASE part = "ext"
      <4>1. /\ Len(r.ext) < Announced(r).ext /\ r.mask = <<>> /\ r.pay = <<>> /\ r.state = "ext"
            /\ r.as = d + 1 /\ Len(r.hdr) = 2
        BY <1>1, <1>3, <1>7, <1>9, <1>16, <2>2, <2>3, <3>2 DEF Expected, Filled
      <4> QED
        BY <1>15, <4>1 DEF Filled
    <3>3. CASE part = "mask"
      <4>1. /\ Len(r.mask) < 2 /\ r.pay = <<>> /\ r.state = "mask" /\ r.as = d + 1 /\ Len(r.hdr) = 2
            /\ Len(r.ext) = Announced(recv).ext /\ Announced(r) = Announced(recv)
        BY <1>1, <1>3, <1>7, <1>9, <1>16, <2>2, <2>3, <3>3 DEF Expected, Filled, Announced
      <4> QED
        BY <1>15, <4>1 DEF Filled
    <3>4. CASE part = "pay"
      <4>1. /\ Len(r.pay) < Announced(r).pay /\ r.state = "pay" /\ r.as = d + 1 /\ Len(r.hdr) = 2
            /\ Len(r.ext) = Announced(recv).ext /\ Announced(r) = Announced(recv) /\ Len(r.mask) = 2
        BY <1>1, <1>3, <1>7, <1>9, <1>16, <2>2, <2>3, <3>4 DEF Expected, Filled, Announced
      <4> QED
        BY <1>15, <4>1 DEF Filled
    <3> QED
      BY <1>6, <3>1, <3>2, <3>3, <3>4
  <2>5. InStep(r, d, U)
    BY <1>3, <1>13, <1>14, <2>4 DEF InStep, a
  <2> QED
    BY <2>1, <2>5 DEF U
<1>20. CASE Refused(part, r)
  BY <1>20 DEF Refused
<1>21. CASE Gone(part, r)
  <2>1. /\ Complete(r, part) /\ After(r, part) # "whole" /\ delivered' = delivered
        /\ recv' = [r EXCEPT !.state = After(r, part)]
    BY <1>21 DEF Gone
  <2>2. FullTo(r, part, d)
    BY <1>18, <2>1
  <2>3. Filled(recv', d) /\ Bytes(recv') = Bytes(r)
    <3> DEFINE s == [r EXCEPT !.state = After(r, part)]
    <3>1. s = [r EXCEPT !.state = After(r, part)]
      OBVIOUS
    <3> HIDE DEF s
    <3>2. Filled(s, d) /\ Bytes(s) = Bytes(r)
      <4>1. world \in World /\ d \in Nat /\ r \in Receiver /\ After(r, part) # "whole"
        BY <1>2, <1>7, <2>1
      <4> QED
        BY <2>2, <3>1, <4>1, NextPart
    <3> QED
      BY <2>1, <3>1, <3>2
  <2>4. InStep(recv', d, U)
    BY <1>3, <1>13, <1>14, <2>3 DEF InStep, a
  <2> QED
    BY <2>1, <2>4 DEF U
<1>22. CASE Handed(part, r)
  <2>1. /\ Complete(r, part) /\ After(r, part) = "whole" /\ recv' = NoFrame
        /\ delivered' = Append(delivered, Bytes(r))
    BY <1>22 DEF Handed
  <2>2. FullTo(r, part, d)
    BY <1>18, <2>1
  <2>3. Len(Bytes(r)) = Long(d + 1)
    BY <1>2, <1>7, <2>1, <2>2, FrameLong
  <2>4. Long(d + 1) \in Nat
    BY <1>11, <2>3
  <2>5. Bytes(r) = FramePieces(d + 1) /\ U = Mark(d + 1)
    <3> DEFINE n == Long(d + 1)
    <3>1. n \in 0 .. Long(d + 1) /\ n = Long(d + 1)
      BY <2>4
    <3> HIDE DEF n
    <3>2. SubSeq(Script, Mark(d) + 1, Mark(d) + n) = FramePieces(d + 1)
          /\ Mark(d + 1) = Mark(d) + Long(d + 1)
      BY <1>2, <1>15, <3>1, FrameSlice
    <3> QED
      BY <1>13, <1>14, <2>3, <3>1, <3>2 DEF a
  <2>6. Len(delivered') = d + 1 /\ delivered'[d + 1] = Bytes(r)
        /\ \A k \in 1 .. d : delivered'[k] = delivered[k]
    <3> DEFINE S == Seq(Pieces)
    <3>1. delivered \in Seq(S) /\ Bytes(r) \in S
      BY <1>2, <1>11
    <3> HIDE DEF S
    <3> QED
      BY <2>1, <3>1
  <2>7. Ordered(delivered')
    <3> SUFFICES ASSUME NEW k \in 1 .. d + 1
                 PROVE  k <= Frames /\ delivered'[k] = FramePieces(k)
      BY <2>6 DEF Ordered
    <3>1. CASE k = d + 1
      BY <1>2, <1>15, <2>5, <2>6, <3>1
    <3>2. CASE k # d + 1
      <4>1. k \in 1 .. d
        BY <1>2, <3>2
      <4> QED
        BY <2>6, <4>1 DEF Ordered
    <3> QED
      BY <3>1, <3>2
  <2>8. InStep(NoFrame, d + 1, Mark(d + 1))
    <3>1. d + 1 \in 0 .. Frames
      BY <1>2, <1>15
    <3> QED
      BY <1>2, <3>1, Anew
  <2> QED
    BY <2>1, <2>5, <2>6, <2>7, <2>8 DEF U
<1> QED
  BY <1>5, <1>19, <1>20, <1>21, <1>22 DEF r


LEMMA FrameStep ==
  ASSUME TypeInv, Flow, Order, Limit, FrameInv, Next
  PROVE  FrameInv'
<1>1. world' = world /\ world \in World
  BY WorldStays, Fields
<1> SUFFICES ASSUME Without({"early", "undeclared"})
             PROVE  /\ Ordered(delivered')
                    /\ pc' # "closed" /\ sess'.state = "ws" => InStep(recv', Len(delivered'), Taken')
  BY <1>1, FrameJoin
<1>2. Ordered(delivered) /\ (pc # "closed" /\ sess.state = "ws" => InStep(recv, Len(delivered), Taken))
  BY DEF FrameInv
<1>3. CASE \E part \in Parts : Receive(part)
  <2>1. PICK part \in Parts : Receive(part)
    BY <1>3
  <2>2. pc = "run" /\ sess.state = "ws"
    BY <2>1 DEF Receive, InState
  <2> QED
    BY <1>2, <2>1, <2>2, ReceiveInStep
<1>4. CASE WsRetries \/ WsEnds
  <2>1. /\ delivered' = delivered /\ net' = net /\ pending' = pending /\ sent' = sent
        /\ sess' = sess /\ sess.state = "ws" /\ pc = "run"
        /\ recv' = recv \/ pc' = "closed"
    BY <1>4 DEF WsRetries, WsEnds, WsQuiet, WsClose, Again, InState
  <2>2. Taken' = Taken
    BY <1>1, <2>1, FlowKept
  <2> QED
    BY <1>2, <2>1, <2>2
<1>5. CASE UNCHANGED <<recv, delivered>> /\ HandleUpgrade
  <2>1. sess.state = "handle" /\ recv' = recv /\ delivered' = delivered
    BY <1>5, HandleOK DEF Handle
  <2>2. recv' = NoFrame /\ delivered' = <<>>
    BY <2>1 DEF TypeInv
  <2>3. Len(delivered') = 0
    BY <2>2
  <2>4. InStep(NoFrame, 0, Taken')
    BY <1>5, UpgradeInStep
  <2> QED
    BY <1>2, <2>1, <2>2, <2>3, <2>4
<1>6. CASE UNCHANGED <<recv, delivered>> /\ (HttpStep \/ ClientStep) /\ ~HandleUpgrade
  <2> SUFFICES ASSUME pc' # "closed", sess'.state = "ws"
               PROVE  InStep(recv', Len(delivered'), Taken')
    BY <1>2, <1>6
  <2>1. ~Read /\ ~Respond
    BY ReadOK, RespondOK
  <2>2. ~Handle
    <3> SUFFICES ASSUME Handle PROVE FALSE
      OBVIOUS
    <3>1. sess \in Session /\ NewSession.state # "ws"
      BY Fields DEF NewSession
    <3> QED
      BY <1>6, <3>1 DEF Handle, HandleFcgi, HandlePage, HandleNoAccess, HandleFile, Close, Session
  <2>3. Reports \/ ClientStep
    BY <1>6, <2>1, <2>2 DEF HttpStep
  <2>4. sess' = sess /\ pc # "closed" /\ Taken' = Taken
    <3>1. CASE Reports \/ ClientLeaves
      <4>1. sess' = sess /\ pc # "closed" /\ net' = net /\ pending' = pending /\ sent' = sent
        BY <3>1 DEF Reports, ClientLeaves, Quiet
      <4> QED
        BY <1>1, <4>1, FlowKept
    <3>2. CASE \E n \in 1 .. Len(Script) : ClientSends(n)
      <4>1. PICK n \in Nat : ClientSends(n)
        BY <3>2
      <4> QED
        BY <4>1, SendsIs DEF Flow, ClientSends
    <3> QED
      BY <2>3, <3>1, <3>2 DEF ClientStep
  <2> QED
    BY <1>2, <1>6, <2>4
<1> QED
  BY <1>3, <1>4, <1>5, <1>6 DEF Next, WsStep

LEMMA FrameInit == Init => FrameInv
<1> SUFFICES ASSUME Init PROVE FrameInv
  OBVIOUS
<1>1. delivered = <<>> /\ sess.state = "detect"
  BY DEF Init, HttpInit, NewSession
<1>2. Ordered(delivered)
  BY <1>1 DEF Ordered
<1> QED
  BY <1>1, <1>2 DEF FrameInv

(***************************************************************************)
(* The theorems.                                                           *)
(***************************************************************************)

Inv == TypeInv /\ FlowInv /\ RequestInv /\ AnswerInv /\ FrameInv

(* A step that changes nothing changes no invariant. *)
LEMMA Stutter ==
  ASSUME Inv, UNCHANGED vars
  PROVE  Inv'
<1>1. /\ pc' = pc /\ rearm' = rearm /\ sess' = sess /\ files' = files /\ net' = net
      /\ pending' = pending /\ wire' = wire /\ sent' = sent /\ left' = left /\ world' = world
      /\ recv' = recv /\ delivered' = delivered
  BY DEF vars, httpVars
<1>2. TypeInv'
  BY TypeStep DEF Inv, FlowInv
<1>3. /\ Requests' = Requests /\ \A i : H(i)' = H(i)
      /\ \A fs : Without(fs)' = Without(fs)
  BY <1>1, Steady
<1>4. Taken' = Taken /\ Base' = Base /\ Flow'
  <2>1. Taken' = Taken /\ Flow'
    BY <1>1, FlowKept DEF Inv, FlowInv
  <2> QED
    BY <1>1, <2>1 DEF Base
<1>5. Order'
  <2>1. BodyMissing' <=> BodyMissing
    BY <1>1 DEF BodyMissing, Received, Req
  <2> QED
    BY <1>1, <1>3, <1>4, <2>1 DEF Inv, FlowInv, Order
<1>6. Limit' /\ Ended'
  <2>1. \A i : Answered(i)' <=> Answered(i)
    BY <1>1 DEF Answered
  <2>2. \A i : Waits(i)' <=> Waits(i)
    BY <1>1, <1>3 DEF Waits, Can
  <2> QED
    BY <1>1, <1>3, <2>1, <2>2 DEF Inv, FlowInv, Limit, Ended
<1>7. RequestInv'
  BY <1>1, <1>3, <1>4 DEF Inv, RequestInv
<1>8. AnswerInv'
  BY <1>1, <1>4, AnswerJoin DEF Inv, AnswerInv
<1>9. FrameInv'
  <2>1. world \in World
    BY Fields DEF Inv
  <2> QED
    BY <1>1, <1>4, <2>1, FrameJoin DEF Inv, FrameInv
<1> QED
  BY <1>2, <1>4, <1>5, <1>6, <1>7, <1>8, <1>9 DEF Inv, FlowInv

(* Every reachable state of a connection satisfies the invariants: how the *)
(* bytes get to the buffer, where the request that is read lies in it, what*)
(* the wire has, and how far the frame being received is.                  *)
THEOREM Invariance == Spec => []Inv
<1>1. Init => Inv
  BY TypeInit, FlowInit, OrderInit, RequestInit, AnswerInit, FrameInit DEF Inv, FlowInv
<1>2. Inv /\ [Next]_vars => Inv'
  <2> SUFFICES ASSUME Inv, [Next]_vars PROVE Inv'
    OBVIOUS
  <2>1. CASE UNCHANGED vars
    BY <2>1, Stutter
  <2>2. CASE Next
    <3>1. TypeInv /\ Flow /\ Order /\ Limit /\ Ended /\ RequestInv /\ AnswerInv /\ FrameInv
      BY DEF Inv, FlowInv
    <3>2. TypeInv' /\ Flow' /\ Order' /\ Limit' /\ Ended'
      BY <2>2, <3>1, TypeStep, FlowStep, OrderStep, LimitStep, EndedStep
    <3>3. RequestInv' /\ AnswerInv' /\ FrameInv'
      BY <2>2, <3>1, RequestStep, AnswerStep, FrameStep
    <3> QED
      BY <3>2, <3>3 DEF Inv, FlowInv
  <2> QED
    BY <2>1, <2>2
<1> QED
  BY <1>1, <1>2, PTL DEF Spec

(* RequestKept, for every client and every way the socket fills: the fields*)
(* are of their types, no file descriptor is left open, and the request    *)
(* that http1_manager_routing_bridge gets is, with all of its body, the one*)
(* the client sent (halmos_http1_manager.c:44).                            *)
THEOREM RequestCorrect == Spec => []RequestKept
<1>1. Inv => RequestKept
  BY TypeProvides, RequestFollows DEF Inv, FlowInv, RequestKept
<1> QED
  BY <1>1, Invariance, PTL

(* ResponsesWhole: however the socket takes a file and wherever a retry    *)
(* goes on, the client reads whole responses in the order it asked for them*)
(* (halmos_http1_manager.c:225-367).                                       *)
THEOREM ResponsesCorrect == Spec => []ResponsesWhole
<1>1. Inv => ResponsesWhole
  BY AnswerFollows DEF Inv
<1> QED
  BY <1>1, Invariance, PTL

(* InOrder: the WebSocket frames are dispatched in the order the client    *)
(* sent them, each made of its own bytes, however recv cuts them           *)
(* (halmos_ws_system.c:234).                                               *)
THEOREM FramesCorrect == Spec => []InOrder
<1>1. Inv => InOrder
  BY DEF Inv, FrameInv, Ordered, Frames, InOrder
<1> QED
  BY <1>1, Invariance, PTL

===============================================================================
