----------------------------- MODULE DummyProofs -----------------------------
(***************************************************************************)
(* The two loops of antarc-dummy-sample: proofs of DummyTypeOK,            *)
(* InOrderOnce and NothingRefused.                                         *)
(*                                                                         *)
(* A step of a thread says a packet, hears one, or does neither (Quiet).   *)
(* What the boxes and channels do to what waits for an end is stated for   *)
(* each of the three; the handshake is followed action by action.          *)
(***************************************************************************)
EXTENDS DummyInvariant, AntarcTypes, WellFoundedInduction

-----------------------------------------------------------------------------
(***************************************************************************)
(* Batch after batch.                                                      *)
(***************************************************************************)

\* A set of numbers with 0 in it, and with each number the next, has all of them.
LEMMA Induction ==
  ASSUME NEW S \in SUBSET Nat, 0 \in S, \A n \in S : n + 1 \in S
  PROVE  S = Nat
<1> DEFINE R == {ss \in Nat \X Nat : ss[1] < ss[2]}
           T == Nat \ S
<1>1. IsWellFoundedOn(R, Nat)
  BY NatLessThanWellFounded DEF OpToRel
<1> SUFFICES ASSUME T # {} PROVE FALSE
  OBVIOUS
<1>2. \A x, y \in Nat : y < x => <<y, x>> \in R
  OBVIOUS
<1> HIDE DEF R
<1>3. PICK x \in T : \A y \in T : <<y, x>> \notin R
  BY <1>1, WFMin
<1>4. x # 0 /\ x - 1 \in Nat /\ x - 1 < x
  OBVIOUS
<1>5. x - 1 \in S
  BY <1>2, <1>3, <1>4
<1>6. QED
  BY <1>3, <1>4, <1>5

\* f joins the first items of ss, one more at each place.
Joins(f, ss) ==
  /\ f[1] = ss[1]
  /\ \A i \in 1 .. Len(ss) : i # 1 => f[i] = f[i - 1] \o ss[i]

\* The recursion in FlattenSeq has a solution, and FlattenSeq is its last list.
LEMMA FlattenJoins ==
  ASSUME NEW S, NEW ss \in Seq(Seq(S)), ss # <<>>
  PROVE  \E f \in [1 .. Len(ss) -> Seq(S)] :
            Joins(f, ss) /\ FlattenSeq(ss) = f[Len(ss)]
<1> DEFINE L == Len(ss)
           UpTo(k, f) == /\ f[1] = ss[1]
                         /\ \A i \in 1 .. k : i # 1 => f[i] = f[i - 1] \o ss[i]
           Reached(k) == \E f \in [1 .. k -> Seq(S)] : UpTo(k, f)
           N == {k \in Nat : k + 1 <= L => Reached(k + 1)}
<1>1. L \in Nat /\ L >= 1 /\ (\A i \in 1 .. L : ss[i] \in Seq(S)) /\ 1 \in 1 .. L
  <2>1. Len(ss) # 0
    BY EmptySeq
  <2>2. QED
    BY <2>1
<1>2. 0 \in N
  <2> DEFINE f == [i \in 1 .. 1 |-> ss[1]]
  <2>1. f \in [1 .. 1 -> Seq(S)] /\ UpTo(1, f)
    BY <1>1
  <2>2. Reached(1)
    BY <2>1
  <2> HIDE DEF Reached
  <2>3. 0 + 1 = 1
    OBVIOUS
  <2>4. QED
    BY <2>2, <2>3
<1>3. ASSUME NEW n \in N PROVE n + 1 \in N
  <2> HIDE DEF Reached
  <2> DEFINE k == n + 1
  <2> SUFFICES ASSUME k + 1 <= L PROVE Reached(k + 1)
    BY <1>3
  <2>1. n \in Nat /\ k \in Nat /\ k <= L /\ k >= 1 /\ k + 1 \in 1 .. L /\ Reached(k)
    BY <1>1, <1>3
  <2> HIDE DEF k
  <2>2. PICK f \in [1 .. k -> Seq(S)] : UpTo(k, f)
    BY <2>1 DEF Reached
  <2> DEFINE g == [i \in 1 .. k + 1 |-> IF i = k + 1 THEN f[k] \o ss[k + 1] ELSE f[i]]
  <2>3. ss[k + 1] \in Seq(S) /\ f[k] \in Seq(S)
    BY <1>1, <2>1, <2>2
  <2>4. f[k] \o ss[k + 1] \in Seq(S)
    BY <2>3
  <2>5. g \in [1 .. k + 1 -> Seq(S)]
    BY <2>1, <2>4
  <2>6. UpTo(k + 1, g)
    <3>1. g[1] = ss[1] /\ k + 1 \in 1 .. k + 1 /\ g[k + 1] = f[k] \o ss[k + 1]
      BY <2>1, <2>2
    <3>2. \A i \in 1 .. k : i \in 1 .. k + 1 /\ i # k + 1 /\ g[i] = f[i]
      BY <2>1
    <3> HIDE DEF g
    <3>3. g[k] = f[k] /\ (k + 1) - 1 = k
      BY <2>1, <3>2
    <3>4. ASSUME NEW i \in 1 .. k, i # 1 PROVE g[i] = g[i - 1] \o ss[i]
      <4>1. i - 1 \in 1 .. k
        BY <2>1, <3>4
      <4>2. g[i] = f[i] /\ g[i - 1] = f[i - 1]
        BY <3>2, <4>1
      <4>3. QED
        BY <2>2, <3>4, <4>2
    <3>5. \A i \in 1 .. k + 1 : i \in 1 .. k \/ i = k + 1
      BY <2>1
    <3>6. QED
      BY <3>1, <3>3, <3>4, <3>5
  <2>7. QED
    BY <2>5, <2>6 DEF Reached
<1>4. N = Nat
  <2>1. N \in SUBSET Nat
    OBVIOUS
  <2> HIDE DEF N
  <2>2. QED
    BY <1>2, <1>3, <2>1, Induction
<1>5. PICK f \in [1 .. L -> Seq(S)] : UpTo(L, f)
  <2>1. L - 1 \in Nat /\ (L - 1) + 1 = L
    BY <1>1
  <2>2. Reached((L - 1) + 1)
    <3> HIDE DEF Reached
    <3>1. L - 1 \in {k \in Nat : k + 1 <= L => Reached(k + 1)}
      BY <1>4, <2>1
    <3>2. QED
      BY <1>1, <2>1, <3>1
  <2>3. QED
    BY <2>1, <2>2
<1> DEFINE Solves(h) ==
             h = [i \in 1 .. Len(ss) |-> IF i = 1 THEN ss[i] ELSE h[i - 1] \o ss[i]]
           flatten == CHOOSE h : Solves(h)
<1>6. Solves(f)
  <2>1. f = [i \in 1 .. L |-> f[i]]
    OBVIOUS
  <2>2. \A i \in 1 .. L : f[i] = IF i = 1 THEN ss[i] ELSE f[i - 1] \o ss[i]
    BY <1>1, <1>5
  <2>3. QED
    BY <2>1, <2>2, ZenonT(30)
<1>7. Solves(flatten)
  <2> HIDE DEF Solves
  <2>1. QED
    BY <1>6
<1>8. FlattenSeq(ss) = flatten[Len(ss)]
  BY <1>1 DEF FlattenSeq
<1> HIDE DEF flatten
<1>9. /\ flatten = [i \in 1 .. L |-> flatten[i]]
      /\ Joins(flatten, ss)
  <2> DEFINE Item(i) == IF i = 1 THEN ss[i] ELSE flatten[i - 1] \o ss[i]
  <2>1. flatten = [i \in 1 .. L |-> Item(i)]
    BY <1>7, ZenonT(30)
  <2> HIDE DEF Item
  <2>2. /\ flatten = [i \in 1 .. L |-> flatten[i]]
        /\ \A i \in 1 .. L : flatten[i] = Item(i)
    BY <2>1
  <2>3. QED
    BY <1>1, <2>2, ZenonT(30) DEF Item, Joins
<1> DEFINE P == {k \in Nat : k + 1 <= L => flatten[k + 1] \in Seq(S)}
<1>10. P = Nat
  <2>1. P \in SUBSET Nat /\ 0 \in P
    BY <1>1, <1>9 DEF Joins
  <2>2. ASSUME NEW n \in P PROVE n + 1 \in P
    <3> DEFINE k == n + 1
    <3> SUFFICES ASSUME k + 1 <= L PROVE flatten[k + 1] \in Seq(S)
      OBVIOUS
    <3>1. k \in Nat /\ k + 1 \in 1 .. L /\ (k + 1) - 1 = k /\ k + 1 # 1
      BY <1>1
    <3>2. flatten[k] \in Seq(S) /\ ss[k + 1] \in Seq(S)
      BY <1>1, <3>1
    <3>3. flatten[k + 1] = flatten[k] \o ss[k + 1]
      BY <1>9, <3>1 DEF Joins
    <3>4. QED
      BY <3>2, <3>3
  <2> HIDE DEF P
  <2>3. QED
    BY <2>1, <2>2, Induction
<1>11. flatten \in [1 .. L -> Seq(S)]
  <2>1. ASSUME NEW i \in 1 .. L PROVE flatten[i] \in Seq(S)
    <3>1. i - 1 \in Nat /\ (i - 1) + 1 = i /\ i <= L
      BY <1>1
    <3>2. i - 1 \in {k \in Nat : k + 1 <= L => flatten[k + 1] \in Seq(S)}
      BY <1>10, <3>1
    <3>3. QED
      BY <3>1, <3>2
  <2>2. QED
    BY <1>9, <2>1
<1>12. QED
  BY <1>8, <1>9, <1>11

Associates(a, b, c) == (a \o b) \o c = a \o (b \o c)

\* Concatenation: to the empty list, and of three lists.
LEMMA JoinedLists ==
  ASSUME NEW S, NEW a \in Seq(S), NEW b \in Seq(S), NEW c \in Seq(S)
  PROVE  /\ a \o b \in Seq(S)
         /\ a \o <<>> = a /\ <<>> \o a = a
         /\ Associates(a, b, c)
<1>1. a \o b \in Seq(S) /\ a \o <<>> = a /\ <<>> \o a = a
  BY ConcatProperties, ConcatEmptySeq
<1>2. Associates(a, b, c)
  BY ConcatAssociative DEF Associates
<1>3. QED
  BY <1>1, <1>2

\* A list with one more item at its end.
LEMMA OneMore ==
  ASSUME NEW S, NEW a \in Seq(S), NEW x \in S
  PROVE  LET b == a \o <<x>>
         IN  /\ Len(a) \in Nat /\ Len(b) = Len(a) + 1
             /\ \A i \in DOMAIN b :
                  (i \in DOMAIN a /\ b[i] = a[i]) \/ (i = Len(a) + 1 /\ b[i] = x)
<1> DEFINE c == <<x>>
           b == a \o c
<1>1. c \in Seq(S) /\ Len(c) = 1 /\ c[1] = x
  OBVIOUS
<1> HIDE DEF c
<1>2. /\ b \in Seq(S) /\ Len(b) = Len(a) + 1
      /\ \A i \in 1 .. Len(a) + 1 : b[i] = IF i <= Len(a) THEN a[i] ELSE c[i - Len(a)]
  BY <1>1, ConcatProperties
<1> HIDE DEF b
<1>3. Len(a) \in Nat /\ DOMAIN b = 1 .. Len(a) + 1 /\ DOMAIN a = 1 .. Len(a)
  BY <1>2
<1>4. ASSUME NEW i \in DOMAIN b
      PROVE  (i \in DOMAIN a /\ b[i] = a[i]) \/ (i = Len(a) + 1 /\ b[i] = x)
  <2>1. CASE i <= Len(a)
    <3>1. i \in 1 .. Len(a) + 1 /\ i \in 1 .. Len(a)
      BY <1>3, <2>1
    <3>2. b[i] = a[i]
      BY <1>2, <2>1, <3>1
    <3>3. QED
      BY <1>3, <3>1, <3>2
  <2>2. CASE i = Len(a) + 1
    <3>1. i \in 1 .. Len(a) + 1 /\ ~(i <= Len(a)) /\ i - Len(a) = 1
      BY <1>3, <2>2
    <3>2. b[i] = c[i - Len(a)]
      BY <1>2, <3>1
    <3>3. QED
      BY <1>1, <2>2, <3>1, <3>2
  <2>3. QED
    BY <1>3, <2>1, <2>2
<1>5. QED
  BY <1>2, <1>3, <1>4 DEF b, c

\* The first item of two lists is the first of the first.
LEMMA HeadTailConcat ==
  ASSUME NEW S, NEW a \in Seq(S), NEW b \in Seq(S), a # <<>>
  PROVE  /\ a \o b \in Seq(S)
         /\ a \o b # <<>>
         /\ Head(a \o b) = Head(a)
         /\ Tail(a \o b) = Tail(a) \o b
<1>1. Len(a) \in Nat /\ Len(a) # 0 /\ Len(b) \in Nat
  BY EmptySeq
<1>2. /\ a \o b \in Seq(S) /\ Len(a \o b) = Len(a) + Len(b)
      /\ \A i \in 1 .. Len(a) + Len(b) :
           (a \o b)[i] = IF i <= Len(a) THEN a[i] ELSE b[i - Len(a)]
  BY ConcatProperties
<1> DEFINE d == a \o b
           t == Tail(a)
<1>3. Len(t) = Len(a) - 1 /\ t \in Seq(S) /\ \A i \in 1 .. Len(a) - 1 : t[i] = a[i + 1]
  BY <1>1
<1>4. /\ t \o b \in Seq(S) /\ Len(t \o b) = Len(t) + Len(b)
      /\ \A i \in 1 .. Len(t) + Len(b) :
           (t \o b)[i] = IF i <= Len(t) THEN t[i] ELSE b[i - Len(t)]
  <2> HIDE DEF t
  <2>1. QED
    BY <1>3, ConcatProperties
<1>5. d \in Seq(S) /\ Len(d) = Len(a) + Len(b) /\ d[1] = a[1]
  BY <1>1, <1>2
<1> DEFINE u == t \o b
<1>6. /\ u \in Seq(S) /\ Len(u) = Len(d) - 1
      /\ \A i \in 1 .. Len(d) - 1 : u[i] = d[i + 1]
  <2>1. u \in Seq(S) /\ Len(u) = Len(d) - 1
    BY <1>1, <1>3, <1>4, <1>5
  <2>2. ASSUME NEW i \in 1 .. Len(d) - 1 PROVE u[i] = d[i + 1]
    <3>1. u[i] = IF i <= Len(a) - 1 THEN t[i] ELSE b[i - (Len(a) - 1)]
      BY <1>1, <1>3, <1>4, <1>5
    <3>2. d[i + 1] = IF i + 1 <= Len(a) THEN a[i + 1] ELSE b[(i + 1) - Len(a)]
      BY <1>1, <1>2, <1>5
    <3>3. i - (Len(a) - 1) = (i + 1) - Len(a) /\ (i <= Len(a) - 1 <=> i + 1 <= Len(a))
      BY <1>1, <1>5
    <3>4. i <= Len(a) - 1 => t[i] = a[i + 1]
      BY <1>1, <1>3, <1>5
    <3>5. QED
      BY <3>1, <3>2, <3>3, <3>4
  <2>3. QED
    BY <2>1, <2>2
<1> HIDE DEF d, u
<1>7. d # <<>> /\ Head(d) = a[1] /\ Tail(d) = u
  <2>1. Len(d) # 0 /\ d # <<>>
    BY <1>1, <1>5, EmptySeq
  <2>2. Head(d) = d[1]
    BY <1>5
  <2>3. /\ Tail(d) \in Seq(S) /\ Len(Tail(d)) = Len(d) - 1
        /\ \A i \in 1 .. Len(Tail(d)) : Tail(d)[i] = d[i + 1]
    BY <1>5, <2>1, HeadTailProperties
  <2>4. Tail(d) = u
    <3> DEFINE v == Tail(d)
    <3>1. /\ v \in Seq(S) /\ Len(v) = Len(u)
          /\ \A i \in 1 .. Len(v) : v[i] = u[i]
      BY <1>6, <2>3
    <3>2. u \in Seq(S)
      BY <1>6
    <3> HIDE DEF v
    <3>3. v = u
      BY <3>1, <3>2, SeqEqual
    <3>4. QED
      BY <3>3 DEF v
  <2>5. QED
    BY <1>5, <2>1, <2>2, <2>4
<1>8. QED
  BY <1>5, <1>7 DEF d, u

\* All batches together are a list of packets.
LEMMA FlattenType ==
  ASSUME NEW S, NEW ss \in Seq(Seq(S))
  PROVE  /\ FlattenSeq(ss) \in Seq(S)
         /\ FlattenSeq(<<>>) = <<>>
<1>1. FlattenSeq(<<>>) = <<>>
  BY DEF FlattenSeq
<1>2. CASE ss = <<>>
  <2>1. <<>> \in Seq(S)
    OBVIOUS
  <2>2. FlattenSeq(ss) = <<>>
    BY <1>1, <1>2, Zenon
  <2>3. QED
    BY <1>1, <2>1, <2>2
<1>3. CASE ss # <<>>
  <2>1. PICK f \in [1 .. Len(ss) -> Seq(S)] : FlattenSeq(ss) = f[Len(ss)]
    BY <1>3, FlattenJoins
  <2>2. Len(ss) \in 1 .. Len(ss)
    BY <1>3, EmptySeq
  <2>3. QED
    BY <1>1, <2>1, <2>2
<1>4. QED
  BY <1>2, <1>3

\* The first k items of two lists are the same.
SameUpTo(k, a, b) ==
  /\ k \in Nat /\ k >= 1
  /\ Len(a) \in Nat /\ k <= Len(a)
  /\ Len(b) \in Nat /\ k <= Len(b)
  /\ \A i \in 1 .. k : a[i] = b[i]

\* Lists that begin with the same items are joined alike up to there.
LEMMA JoinsAgree ==
  ASSUME NEW a, NEW b, NEW k, SameUpTo(k, a, b),
         NEW f, Joins(f, a), NEW g, Joins(g, b)
  PROVE  f[k] = g[k]
<1> USE DEF SameUpTo
<1> DEFINE N == {n \in Nat : n + 1 <= k => f[n + 1] = g[n + 1]}
<1>1. N \in SUBSET Nat /\ 0 \in N
  <2>1. f[1] = g[1]
    BY DEF Joins
  <2>2. QED
    BY <2>1
<1>2. ASSUME NEW n \in N PROVE n + 1 \in N
  <2> DEFINE i == (n + 1) + 1
  <2> SUFFICES ASSUME i <= k PROVE f[i] = g[i]
    OBVIOUS
  <2>1. /\ i \in 1 .. k /\ i \in 1 .. Len(a) /\ i \in 1 .. Len(b)
        /\ i - 1 = n + 1 /\ i # 1 /\ n + 1 <= k
    OBVIOUS
  <2>2. f[n + 1] = g[n + 1] /\ a[i] = b[i]
    BY <2>1
  <2> HIDE DEF i
  <2>3. f[i] = f[i - 1] \o a[i] /\ g[i] = g[i - 1] \o b[i]
    BY <2>1 DEF Joins
  <2>4. QED
    BY <2>1, <2>2, <2>3
<1>3. N = Nat
  <2> HIDE DEF N
  <2>1. QED
    BY <1>1, <1>2, Induction
<1>4. k - 1 \in Nat /\ (k - 1) + 1 = k
  OBVIOUS
<1>5. k - 1 \in {n \in Nat : n + 1 <= k => f[n + 1] = g[n + 1]}
  BY <1>3, <1>4
<1>6. QED
  BY <1>4, <1>5

\* A batch that is sent goes behind the others.
LEMMA FlattenAppend ==
  ASSUME NEW S, NEW ss \in Seq(Seq(S)), NEW x \in Seq(S)
  PROVE  FlattenSeq(Append(ss, x)) = FlattenSeq(ss) \o x
<1> DEFINE tt == Append(ss, x)
           n == Len(ss)
<1>1. /\ tt \in Seq(Seq(S)) /\ Len(tt) = n + 1 /\ n \in Nat
      /\ tt[n + 1] = x /\ \A i \in 1 .. n : tt[i] = ss[i]
  OBVIOUS
<1> HIDE DEF tt
<1>2. tt # <<>>
  BY <1>1, EmptySeq
<1>3. PICK g \in [1 .. n + 1 -> Seq(S)] : Joins(g, tt) /\ FlattenSeq(tt) = g[n + 1]
  BY <1>1, <1>2, FlattenJoins
<1>4. CASE ss = <<>>
  <2>1. n = 0
    BY <1>4
  <2>2. g[1] = x
    BY <1>1, <1>3, <2>1 DEF Joins
  <2>3. FlattenSeq(ss) = <<>> /\ <<>> \o x = x
    BY <1>4, FlattenType, JoinedLists
  <2>4. QED
    BY <1>3, <2>1, <2>2, <2>3 DEF tt
<1>5. CASE ss # <<>>
  <2>1. n >= 1
    BY <1>1, <1>5, EmptySeq
  <2>2. PICK f \in [1 .. n -> Seq(S)] : Joins(f, ss) /\ FlattenSeq(ss) = f[n]
    BY <1>5, FlattenJoins
  <2>3. f[n] = g[n]
    <3>1. SameUpTo(n, ss, tt)
      BY <1>1, <2>1 DEF SameUpTo
    <3>2. Joins(f, ss) /\ Joins(g, tt)
      BY <1>3, <2>2
    <3>3. QED
      BY <3>1, <3>2, JoinsAgree
  <2>4. g[n + 1] = g[n] \o x
    <3>1. n + 1 \in 1 .. Len(tt) /\ n + 1 # 1 /\ (n + 1) - 1 = n
      BY <1>1, <2>1
    <3>2. g[n + 1] = g[(n + 1) - 1] \o tt[n + 1]
      BY <1>3, <3>1 DEF Joins
    <3>3. QED
      BY <1>1, <3>1, <3>2
  <2>5. QED
    BY <1>3, <2>2, <2>3, <2>4 DEF tt
<1>6. QED
  BY <1>4, <1>5

\* The batch that is received was in front of the others.
LEMMA FlattenHead ==
  ASSUME NEW S, NEW ss \in Seq(Seq(S)), ss # <<>>
  PROVE  FlattenSeq(ss) = Head(ss) \o FlattenSeq(Tail(ss))
<1> DEFINE tt == Tail(ss)
           m == Len(tt)
<1>1. /\ tt \in Seq(Seq(S)) /\ m \in Nat /\ Len(ss) = m + 1
      /\ Head(ss) = ss[1] /\ ss[1] \in Seq(S)
      /\ \A i \in 1 .. m : tt[i] = ss[i + 1] /\ tt[i] \in Seq(S)
  <2>1. Len(ss) \in Nat /\ Len(ss) # 0
    BY EmptySeq
  <2>2. QED
    BY <2>1
<1> HIDE DEF tt
<1>2. PICK f \in [1 .. Len(ss) -> Seq(S)] : Joins(f, ss) /\ FlattenSeq(ss) = f[Len(ss)]
  BY FlattenJoins
<1>3. f[1] = ss[1]
  BY <1>2 DEF Joins
<1>4. CASE tt = <<>>
  <2>1. Len(ss) = 1
    BY <1>1, <1>4
  <2>2. FlattenSeq(tt) = <<>> /\ ss[1] \o <<>> = ss[1]
    BY <1>1, <1>4, FlattenType, JoinedLists
  <2>3. QED
    BY <1>1, <1>2, <1>3, <2>1, <2>2 DEF tt
<1>5. CASE tt # <<>>
  <2>1. m >= 1
    BY <1>1, <1>5, EmptySeq
  <2>2. PICK g \in [1 .. m -> Seq(S)] : Joins(g, tt) /\ FlattenSeq(tt) = g[m]
    BY <1>1, <1>5, FlattenJoins
  <2>3. g[1] = ss[2] /\ g[1] = tt[1]
    <3>1. 1 \in 1 .. m /\ 1 + 1 = 2
      BY <1>1, <2>1
    <3>2. QED
      BY <1>1, <2>2, <3>1 DEF Joins
  <2> DEFINE Alike(n) == f[n + 2] = ss[1] \o g[n + 1]
             N == {n \in Nat : n + 1 <= m => Alike(n)}
  <2>4. N \in SUBSET Nat /\ 0 \in N
    <3>1. 2 \in 1 .. Len(ss) /\ 2 # 1 /\ 2 - 1 = 1
      BY <1>1, <2>1
    <3>2. f[2] = f[2 - 1] \o ss[2]
      BY <1>2, <3>1 DEF Joins
    <3>3. f[2] = ss[1] \o g[1]
      BY <1>3, <2>3, <3>1, <3>2
    <3>4. 0 + 2 = 2 /\ 0 + 1 = 1
      OBVIOUS
    <3>5. QED
      BY <3>3, <3>4
  <2>5. ASSUME NEW n \in N PROVE n + 1 \in N
    <3> DEFINE i == n + 1
    <3> HIDE DEF Alike
    <3> SUFFICES ASSUME i + 1 <= m PROVE Alike(i)
      OBVIOUS
    <3>0. n \in Nat /\ (n + 1 <= m => Alike(n))
      OBVIOUS
    <3>1. /\ i + 2 \in 1 .. Len(ss) /\ i + 2 # 1 /\ (i + 2) - 1 = n + 2
          /\ i + 1 \in 1 .. m /\ i + 1 # 1 /\ (i + 1) - 1 = i /\ i \in 1 .. m
          /\ (i + 1) + 1 = i + 2 /\ i <= m
      BY <1>1
    <3>2. f[n + 2] = ss[1] \o g[i]
      BY <3>0, <3>1 DEF Alike
    <3> HIDE DEF i
    <3>3. f[i + 2] = f[n + 2] \o ss[i + 2]
      BY <1>2, <3>1 DEF Joins
    <3>4. g[i + 1] = g[i] \o ss[i + 2]
      BY <1>1, <2>2, <3>1 DEF Joins
    <3>5. ss[1] \in Seq(S) /\ g[i] \in Seq(S) /\ ss[i + 2] \in Seq(S)
      BY <1>1, <2>2, <3>1
    <3>6. (ss[1] \o g[i]) \o ss[i + 2] = ss[1] \o (g[i] \o ss[i + 2])
      <4>1. Associates(ss[1], g[i], ss[i + 2])
        BY <3>5, JoinedLists
      <4>2. QED
        BY <4>1 DEF Associates
    <3>7. QED
      BY <3>2, <3>3, <3>4, <3>6 DEF Alike
  <2>6. N = Nat
    <3> HIDE DEF N
    <3>1. QED
      BY <2>4, <2>5, Induction
  <2>7. m - 1 \in Nat /\ (m - 1) + 1 = m /\ (m - 1) + 2 = Len(ss)
    BY <1>1, <2>1
  <2>8. Alike(m - 1)
    <3> HIDE DEF Alike
    <3>1. m - 1 \in {n \in Nat : n + 1 <= m => Alike(n)}
      BY <2>6, <2>7
    <3>2. QED
      BY <1>1, <2>7, <3>1
  <2>9. f[Len(ss)] = ss[1] \o g[m]
    BY <2>7, <2>8
  <2>10. QED
    BY <1>1, <1>2, <2>2, <2>9 DEF tt
<1>6. QED
  BY <1>4, <1>5

-----------------------------------------------------------------------------
(***************************************************************************)
(* The two ends, and what waits for each of them.                          *)
(***************************************************************************)

\* There are two ends, each other's other.
LEMMA TwoEnds ==
  /\ Clients = {client} /\ Servers = {server} /\ client # server
  /\ Endpoint = {client, server}
  /\ Other(client) = server /\ Other(server) = client
BY DummyAssumption, EndpointAssumption DEF Endpoint, Other

LEMMA OtherOf ==
  ASSUME NEW e \in Endpoint
  PROVE  /\ Other(e) \in Endpoint
         /\ Other(e) # e
         /\ Other(Other(e)) = e
         /\ \A x \in Endpoint : x = e \/ x = Other(e)
BY TwoEnds

\* What e has sent and not yet copied to the channel.
Uncopied(e) == IF turn[e] = "receive" THEN <<>> ELSE outbox[e]

\* What waits for an end is a list of packets.
LEMMA PendingType ==
  ASSUME DummyTypeOK, NEW e \in Endpoint
  PROVE  /\ inbox[e] \in Seq(Packet)
         /\ channel[e] \in Seq(Seq(Packet))
         /\ outbox[e] \in Seq(Packet)
         /\ FlattenSeq(channel[e]) \in Seq(Packet)
         /\ Uncopied(Other(e)) \in Seq(Packet)
         /\ Pending(e) = inbox[e] \o FlattenSeq(channel[e]) \o Uncopied(Other(e))
         /\ Pending(e) \in Seq(Packet)
<1>1. /\ inbox[e] \in Seq(Packet)
      /\ channel[e] \in Seq(Seq(Packet))
      /\ outbox[e] \in Seq(Packet)
      /\ outbox[Other(e)] \in Seq(Packet)
  BY OtherOf DEF DummyTypeOK
<1>2. FlattenSeq(channel[e]) \in Seq(Packet)
  BY <1>1, FlattenType
<1>3. <<>> \in Seq(Packet)
  OBVIOUS
<1>4. Uncopied(Other(e)) \in Seq(Packet)
  BY <1>1, <1>3 DEF Uncopied
<1>5. Pending(e) = inbox[e] \o FlattenSeq(channel[e]) \o Uncopied(Other(e))
  BY DEF Pending, Uncopied
<1>6. Pending(e) \in Seq(Packet)
  <2>1. inbox[e] \o FlattenSeq(channel[e]) \in Seq(Packet)
    BY <1>1, <1>2, JoinedLists
  <2>2. QED
    BY <1>4, <1>5, <2>1, JoinedLists
<1>7. QED
  BY <1>1, <1>2, <1>4, <1>5, <1>6

\* The turn of e is the poll's before and no receive after; the batches rest.
LEMMA PendingStays ==
  ASSUME NEW e \in Endpoint, turn[e] # "receive", turn'[e] # "receive",
         turn'[Other(e)] = turn[Other(e)], UNCHANGED <<inbox, channel, outbox>>
  PROVE  \A x \in Endpoint : Pending(x)' = Pending(x)
<1>1. \A x \in Endpoint : Uncopied(x)' = Uncopied(x)
  BY OtherOf DEF Uncopied
<1> SUFFICES ASSUME NEW x \in Endpoint PROVE Pending(x)' = Pending(x)
  OBVIOUS
<1>2. (IF turn[Other(x)] = "receive" THEN <<>> ELSE outbox[Other(x)])'
        = IF turn[Other(x)] = "receive" THEN <<>> ELSE outbox[Other(x)]
  BY <1>1, OtherOf DEF Uncopied
<1>3. QED
  BY <1>2 DEF Pending

\* What an end puts into dummy_sender waits for the other end.
LEMMA PendingSaid ==
  ASSUME DummyTypeOK, DummyTypeOK', NEW e \in Endpoint, NEW new \in Seq(Packet),
         turn[e] # "receive", turn'[e] # "receive",
         turn'[Other(e)] = turn[Other(e)], UNCHANGED <<inbox, channel>>,
         outbox' = [outbox EXCEPT ![e] = @ \o new]
  PROVE  /\ Pending(Other(e))' = Pending(Other(e)) \o new
         /\ Pending(e)' = Pending(e)
<1> DEFINE o == Other(e)
           head == inbox[o] \o FlattenSeq(channel[o])
<1>1. o \in Endpoint /\ o # e /\ Other(o) = e
  BY OtherOf
<1>2. outbox'[e] = outbox[e] \o new /\ outbox'[o] = outbox[o]
  BY <1>1 DEF DummyTypeOK
<1>3. Pending(o) = head \o outbox[e]
  BY <1>1 DEF Pending
<1>4. Pending(o)' = head \o (outbox[e] \o new)
  BY <1>1, <1>2 DEF Pending
<1>5. Pending(e)' = Pending(e)
  <2>1. (IF turn[Other(e)] = "receive" THEN <<>> ELSE outbox[Other(e)])'
          = IF turn[Other(e)] = "receive" THEN <<>> ELSE outbox[Other(e)]
    BY <1>2
  <2>2. QED
    BY <2>1 DEF Pending
<1>6. Associates(head, outbox[e], new)
  <2>1. head \in Seq(Packet)
    BY <1>1, PendingType, JoinedLists
  <2>2. outbox[e] \in Seq(Packet)
    BY PendingType
  <2> HIDE DEF head
  <2>3. QED
    BY <2>1, <2>2, JoinedLists
<1> HIDE DEF head, o
<1>7. Pending(o)' = Pending(o) \o new
  BY <1>3, <1>4, <1>6 DEF Associates
<1>8. QED
  BY <1>5, <1>7 DEF o

\* What is handled was the first to wait.
LEMMA PendingHeard ==
  ASSUME DummyTypeOK, NEW e \in Endpoint, inbox[e] # <<>>,
         inbox' = [inbox EXCEPT ![e] = Tail(@)], UNCHANGED <<turn, outbox, channel>>
  PROVE  /\ Pending(e) # <<>>
         /\ Head(Pending(e)) = Head(inbox[e])
         /\ Pending(e)' = Tail(Pending(e))
         /\ Pending(Other(e))' = Pending(Other(e))
<1> DEFINE a == inbox[e]
           b == FlattenSeq(channel[e])
           c == Uncopied(Other(e))
<1>1. a \in Seq(Packet) /\ b \in Seq(Packet) /\ c \in Seq(Packet) /\ a # <<>>
  BY PendingType
<1>2. Pending(e) = (a \o b) \o c
  BY PendingType
<1>3. /\ inbox'[e] = Tail(a)
      /\ inbox'[Other(e)] = inbox[Other(e)]
  BY OtherOf DEF DummyTypeOK
<1>4. Pending(e)' = (Tail(a) \o b) \o c
  BY <1>3 DEF Pending, Uncopied
<1>5. Pending(Other(e))' = Pending(Other(e))
  BY <1>3 DEF Pending
<1> HIDE DEF a, b, c
<1>6. /\ a \o b \in Seq(Packet) /\ a \o b # <<>>
      /\ Head(a \o b) = Head(a) /\ Tail(a \o b) = Tail(a) \o b
  BY <1>1, HeadTailConcat
<1> DEFINE d == a \o b
<1> HIDE DEF d
<1>7. d \in Seq(Packet) /\ d # <<>>
  BY <1>6 DEF d
<1>8. /\ d \o c # <<>>
      /\ Head(d \o c) = Head(d) /\ Tail(d \o c) = Tail(d) \o c
  BY <1>1, <1>7, HeadTailConcat
<1>9. QED
  BY <1>2, <1>4, <1>5, <1>6, <1>8 DEF d, a

\* A batch is copied to the channel: it waits there instead of in dummy_sender.
LEMMA PendingSent ==
  ASSUME DummyTypeOK, NEW e \in Endpoint, SendBatch(e)
  PROVE  \A x \in Endpoint : phase[x] \notin Stopped => Pending(x)' = Pending(x)
<1> DEFINE o == Other(e)
           a == inbox[o]
           b == FlattenSeq(channel[o])
           c == outbox[e]
<1>1. /\ o \in Endpoint /\ o # e /\ Other(o) = e
      /\ \A x \in Endpoint : x = e \/ x = o
  BY OtherOf
<1>2. /\ turn[e] = "send" /\ turn'[e] = "receive" /\ turn'[o] = turn[o]
      /\ phase[o] \notin Stopped => channel'[o] = Append(channel[o], c)
      /\ channel'[e] = channel[e]
      /\ UNCHANGED <<inbox, outbox>>
  BY <1>1 DEF SendBatch, Turns, DummyTypeOK
<1>3. Pending(e)' = Pending(e)
  BY <1>2 DEF Pending
<1>4. a \in Seq(Packet) /\ b \in Seq(Packet) /\ c \in Seq(Packet)
      /\ channel[o] \in Seq(Seq(Packet))
  BY <1>1, PendingType
<1>5. CASE phase[o] \in Stopped
  BY <1>1, <1>3, <1>5
<1>6. CASE phase[o] \notin Stopped
  <2>1. Pending(o) = (a \o b) \o c
    BY <1>1, <1>2, <1>6 DEF Pending
  <2>2. Pending(o)' = (a \o FlattenSeq(Append(channel[o], c))) \o <<>>
    BY <1>1, <1>2, <1>6 DEF Pending
  <2> HIDE DEF a, c, o
  <2>3. FlattenSeq(Append(channel[o], c)) = b \o c
    BY <1>4, FlattenAppend
  <2> HIDE DEF b
  <2> DEFINE d == b \o c
             f == a \o d
  <2>4. d \in Seq(Packet)
    BY <1>4, JoinedLists
  <2> HIDE DEF d
  <2>5. f \in Seq(Packet)
    BY <1>4, <2>4, JoinedLists
  <2> HIDE DEF f
  <2>6. f \o <<>> = f
    BY <2>5, JoinedLists
  <2>7. Pending(o)' = f
    BY <2>2, <2>3, <2>6 DEF f, d
  <2>8. Associates(a, b, c)
    BY <1>4, JoinedLists
  <2>9. Pending(o)' = Pending(o)
    BY <2>1, <2>7, <2>8 DEF Associates, f, d
  <2>10. QED
    BY <1>1, <1>3, <2>9 DEF o
<1>7. QED
  BY <1>5, <1>6

\* A batch is taken from the channel: it waits in dummy_receiver instead.
LEMMA PendingTaken ==
  ASSUME DummyTypeOK, NEW e \in Endpoint, ReceiveBatch(e), inbox[e] = <<>>
  PROVE  \A x \in Endpoint : Pending(x)' = Pending(x)
<1> DEFINE o == Other(e)
           a == Head(channel[e])
           b == FlattenSeq(Tail(channel[e]))
<1>1. /\ o \in Endpoint /\ o # e /\ Other(o) = e
      /\ \A x \in Endpoint : x = e \/ x = o
  BY OtherOf
<1>2. /\ turn[e] = "receive" /\ turn'[e] = "poll" /\ turn'[o] = turn[o]
      /\ outbox'[e] = <<>> /\ outbox'[o] = outbox[o]
  BY <1>1 DEF ReceiveBatch, Turns, DummyTypeOK
<1>3. inbox'[o] = inbox[o] /\ channel'[o] = channel[o]
  BY <1>1 DEF ReceiveBatch, DummyTypeOK
<1>4. Pending(o)' = Pending(o)
  BY <1>1, <1>2, <1>3 DEF Pending
<1>5. Uncopied(o)' = Uncopied(o)
  BY <1>2 DEF Uncopied
<1>6. inbox'[e] \o FlattenSeq(channel'[e]) = inbox[e] \o FlattenSeq(channel[e])
  <2>1. CASE channel[e] = <<>>
    BY <2>1 DEF ReceiveBatch
  <2>2. CASE channel[e] # <<>>
    <3>1. inbox'[e] = a /\ channel'[e] = Tail(channel[e])
      BY <2>2 DEF ReceiveBatch, DummyTypeOK
    <3>2. channel[e] \in Seq(Seq(Packet)) /\ FlattenSeq(channel[e]) \in Seq(Packet)
      BY PendingType
    <3>3. FlattenSeq(channel[e]) = a \o b
      BY <2>2, <3>2, FlattenHead
    <3> DEFINE f == FlattenSeq(channel[e])
    <3> HIDE DEF f
    <3>4. <<>> \o f = f
      BY <3>2, JoinedLists DEF f
    <3>5. QED
      BY <3>1, <3>3, <3>4 DEF f
  <2>3. QED
    BY <2>1, <2>2
<1>7. Pending(e)' = inbox'[e] \o FlattenSeq(channel'[e]) \o Uncopied(o)'
  BY DEF Pending, Uncopied
<1>8. Pending(e) = inbox[e] \o FlattenSeq(channel[e]) \o Uncopied(o)
  BY DEF Pending, Uncopied
<1>9. QED
  BY <1>1, <1>4, <1>5, <1>6, <1>7, <1>8

-----------------------------------------------------------------------------
(***************************************************************************)
(* Types.                                                                  *)
(***************************************************************************)

\* Whatever network' has more than network is one list of packets.
LEMMA NewPackets ==
  ASSUME NEW S, NEW N \in SUBSET S, NEW p \in S, NEW M, M = N \/ M = N \cup {p}
  PROVE  /\ SetToSeq(M \ N) \in Seq(S)
         /\ M = N => SetToSeq(M \ N) = <<>>
         /\ M = N \cup {p} /\ p \notin N => SetToSeq(M \ N) = <<p>>
<1>1. CASE M = N \/ p \in N
  <2>1. M \ N = {}
    BY <1>1
  <2>2. SetToSeq(M \ N) = <<>>
    BY <2>1, ListOfNone
  <2>3. QED
    BY <1>1, <2>2
<1>2. CASE M # N /\ p \notin N
  <2>1. M \ N = {p}
    BY <1>2
  <2>2. SetToSeq(M \ N) = <<p>>
    BY <2>1, ListOfOne
  <2>3. <<p>> \in Seq(S)
    OBVIOUS
  <2>4. QED
    BY <1>2, <2>2, <2>3
<1>3. QED
  BY <1>1, <1>2

\* A step of a poll keeps the protocol's types, and sends at most one packet.
LEMMA PollSendsOne ==
  ASSUME TypeOK, NEW e \in Endpoint, PollClient(e) \/ PollServer(e)
  PROVE  /\ TypeOK'
         /\ network' = network \/ \E p \in Packet : network' = network \cup {p}
<1>1. TypeOK'
  <2>1. CASE PollClient(e)
    <3>1. e \in Clients /\ ClientNext(e) /\ UNCHANGED serverVars
      BY <2>1, TwoEnds DEF PollClient, ClientNext
    <3>2. QED
      BY <3>1, ClientNextType DEF TypeOK, serverVars, ServerTypeOK
  <2>2. CASE PollServer(e)
    <3>1. e \in Servers /\ ServerNext(e) /\ UNCHANGED clientVars
      BY <2>2, TwoEnds DEF PollServer, ServerNext
    <3>2. QED
      BY <3>1, ServerNextType DEF TypeOK, clientVars, ClientTypeOK
  <2>3. QED
    BY <2>1, <2>2
<1>2. network' = network \/ \E p : network' = network \cup {p}
  <2>1. ASSUME NEW c, NEW q, NEW peers, SendScheduled(c, q, peers)
        PROVE  network' = network \/ \E p : network' = network \cup {p}
    <3>1. CASE connected[c][Head(scheduled[c][q]).id] = NoPeer
      BY <2>1, <3>1 DEF SendScheduled
    <3>2. CASE connected[c][Head(scheduled[c][q]).id] # NoPeer
      <4>1. SendPacket(c, Created(c, q, Head(scheduled[c][q])), DrainOrder[q].reliable,
                       peers, sent[c], "send")
        BY <2>1, <3>2 DEF SendScheduled
      <4>2. network' = network \cup {Created(c, q, Head(scheduled[c][q]))}
        BY <4>1 DEF SendPacket
      <4>3. QED
        BY <4>2
    <3>3. QED
      BY <3>1, <3>2
  <2>2. ASSUME NEW c, NEW kind, NEW peers, NEW next, Resend(c, kind, peers, next)
        PROVE  \E p : network' = network \cup {p}
    <3>1. network' = network \cup {Last(sent[c][kind]).packet}
      BY <2>2 DEF Resend, SendPacket
    <3>2. QED
      BY <3>1
  <2>3. \A c, kind, next : Forget(c, kind, next) => network' = network
    BY DEF Forget
  <2>4. CASE PollClient(e)
    <3>1. CASE RetryConnectionRequest(e)
      BY <3>1 DEF RetryConnectionRequest, SendRequest
    <3>2. CASE ClientRetryDataTransfer(e)
      BY <3>2, <2>2, <2>3 DEF ClientRetryDataTransfer
    <3>3. CASE SendConnectionRequest(e)
      BY <3>3 DEF SendConnectionRequest, SendRequest
    <3>4. CASE \E q \in Queue : ClientSend(e, q)
      BY <3>4, <2>1 DEF ClientSend
    <3>5. CASE ClientPoll(e)
      BY <3>5 DEF ClientPoll, PollHandler
    <3>6. QED
      BY <2>4, <3>1, <3>2, <3>3, <3>4, <3>5 DEF PollClient, ClientPolls
  <2>5. CASE PollServer(e)
    <3>1. CASE RetryConnectionAccepted(e)
      BY <3>1 DEF RetryConnectionAccepted, SendAccepted
    <3>2. CASE ServerRetryDataTransfer(e) \/ ServerRetryFragment(e)
      BY <3>2, <2>2, <2>3 DEF ServerRetryDataTransfer, ServerRetryFragment, RetrySent
    <3>3. CASE SendConnectionAccepted(e)
      BY <3>3 DEF SendConnectionAccepted, SendAccepted
    <3>4. CASE \E q \in Queue : ServerSend(e, q)
      BY <3>4, <2>1 DEF ServerSend
    <3>5. CASE ServerPoll(e)
      BY <3>5 DEF ServerPoll, PollHandler
    <3>6. QED
      BY <2>5, <3>1, <3>2, <3>3, <3>4, <3>5 DEF PollServer, ServerPolls
  <2>6. QED
    BY <2>4, <2>5
<1>3. QED
  BY <1>1, <1>2 DEF TypeOK, ProtocolTypeOK

\* A step of a poll keeps the types of the boxes.
LEMMA PollType ==
  ASSUME DummyTypeOK, NEW e \in Endpoint, Poll(e)
  PROVE  DummyTypeOK'
<1> DEFINE new == SetToSeq(network' \ network)
<1>1. /\ TypeOK'
      /\ network' = network \/ \E p \in Packet : network' = network \cup {p}
  BY PollSendsOne DEF DummyTypeOK, Poll
<1>2. network \in SUBSET Packet
  BY DEF DummyTypeOK, TypeOK, ProtocolTypeOK
<1>3. new \in Seq(Packet)
  <2>1. CASE network' = network
    <3>1. network' \ network = {}
      BY <2>1
    <3>2. new = <<>>
      BY <3>1, ListOfNone
    <3>3. <<>> \in Seq(Packet)
      OBVIOUS
    <3>4. QED
      BY <3>2, <3>3
  <2>2. ASSUME NEW p \in Packet, network' = network \cup {p} PROVE new \in Seq(Packet)
    BY <1>2, <2>2, NewPackets
  <2>3. QED
    BY <1>1, <2>1, <2>2
<1> HIDE DEF new
<1>4. outbox[e] \o new \in Seq(Packet)
  BY <1>3, PendingType, JoinedLists
<1>5. outbox' = [outbox EXCEPT ![e] = @ \o new]
  BY DEF Poll, new
<1>6. outbox' \in [Endpoint -> Seq(Packet)]
  BY <1>4, <1>5 DEF DummyTypeOK
<1>7. turn' \in [Endpoint -> Turn]
  BY DEF Poll, Turns, Turn, DummyTypeOK
<1>8. QED
  BY <1>1, <1>6, <1>7 DEF Poll, DummyTypeOK

\* Handling a packet keeps the types, if it was sent.
LEMMA HandleType ==
  ASSUME DummyTypeOK, NEW e \in Endpoint, Handle(e), Head(inbox[e]) \in network
  PROVE  DummyTypeOK'
<1> DEFINE p == Head(inbox[e])
<1>1. p \in network /\ ProtocolTypeOK /\ ClientTypeOK /\ ServerTypeOK
  BY DEF DummyTypeOK, TypeOK
<1>2. UNCHANGED <<network, clock, scheduled, sent>>
  BY DEF Handle
<1>3. TypeOK'
  <2>1. CASE e = client
    <3>1. Returns(client) /\ ClientOnReceived(client, p) /\ UNCHANGED serverVars
      BY <2>1, TwoEnds DEF Handle
    <3>2. ProtocolTypeOK' /\ ClientTypeOK'
      <4> HIDE DEF p
      <4>1. client \in Clients
        BY TwoEnds
      <4>2. QED
        BY <1>1, <1>2, <3>1, <4>1, ClientOnReceivedType
    <3>3. QED
      BY <1>1, <3>1, <3>2 DEF TypeOK, serverVars, ServerTypeOK
  <2>2. CASE e = server
    <3>1. ServerOnReceived(server, p) /\ UNCHANGED clientVars
      BY <2>2, TwoEnds DEF Handle
    <3>2. ProtocolTypeOK' /\ ServerTypeOK'
      <4> HIDE DEF p
      <4>1. server \in Servers
        BY TwoEnds
      <4>2. QED
        BY <1>1, <1>2, <3>1, <4>1, ServerOnReceivedType
    <3>3. QED
      BY <1>1, <3>1, <3>2 DEF TypeOK, clientVars, ClientTypeOK
  <2>3. QED
    BY <2>1, <2>2, TwoEnds
<1>4. Tail(inbox[e]) \in Seq(Packet)
  <2>1. inbox[e] # <<>>
    BY DEF Handle
  <2>2. QED
    BY <2>1, PendingType, TailType
<1>5. inbox' \in [Endpoint -> Seq(Packet)]
  BY <1>4 DEF Handle, DummyTypeOK
<1>6. QED
  BY <1>3, <1>5 DEF Handle, DummyTypeOK

\* Scheduling a heartbeat to the connected ids keeps the types.
LEMMA BeatType ==
  ASSUME DummyTypeOK, NEW e \in Endpoint, NEW now, NEW q \in Queue, NEW next \in Turn,
         DrainOrder[q].kind = "Heartbeat", Beat(e, now, q, next)
  PROVE  DummyTypeOK'
<1>1. turn' \in [Endpoint -> Turn]
  BY DEF Beat, Turns, DummyTypeOK
<1>2. ProtocolTypeOK'
  <2>1. CASE ConnectedIds(e) = {}
    BY <2>1 DEF Beat, protocolVars, DummyTypeOK, TypeOK, ProtocolTypeOK
  <2>2. CASE ConnectedIds(e) # {}
    <3>1. PICK ids \in SetToSeqs(ConnectedIds(e)) : Enqueue(e, q, Batch(e, ids, 1))
      BY <2>2 DEF Beat
    <3>2. ids \in Recipients(e)
      BY <3>1 DEF Recipients
    <3>3. ProtocolTypeOK /\ 1 \in Nat
      BY DEF DummyTypeOK, TypeOK
    <3>4. Batch(e, ids, 1) \in Seq(Scheduled)
      BY <3>2, <3>3, BatchType
    <3>5. QED
      BY <3>1, <3>4, EnqueueType DEF DummyTypeOK, TypeOK
  <2>3. QED
    BY <2>1, <2>2
<1>3. QED
  BY <1>1, <1>2
  DEF Beat, DummyTypeOK, TypeOK, ClientTypeOK, ServerTypeOK, clientVars, serverVars

\* Sending and receiving batches keep the types.
LEMMA BatchesType ==
  ASSUME DummyTypeOK, NEW e \in Endpoint, SendBatch(e) \/ ReceiveBatch(e)
  PROVE  DummyTypeOK'
<1>1. TypeOK'
  BY DEF SendBatch, ReceiveBatch, DummyTypeOK, TypeOK, vars, protocolVars, clientVars,
         serverVars, ProtocolTypeOK, ClientTypeOK, ServerTypeOK
<1>2. turn' \in [Endpoint -> Turn]
  BY DEF SendBatch, ReceiveBatch, Turns, Turn, DummyTypeOK
<1>3. CASE SendBatch(e)
  <2>1. Other(e) \in Endpoint
    BY OtherOf
  <2>2. Append(channel[Other(e)], outbox[e]) \in Seq(Seq(Packet))
    BY <2>1, PendingType, AppendProperties
  <2>3. channel' \in [Endpoint -> Seq(Seq(Packet))]
    <3>1. CASE phase[Other(e)] \in Stopped
      BY <1>3, <3>1 DEF SendBatch, DummyTypeOK
    <3>2. CASE phase[Other(e)] \notin Stopped
      BY <1>3, <2>2, <3>2 DEF SendBatch, DummyTypeOK
    <3>3. QED
      BY <3>1, <3>2
  <2>4. QED
    BY <1>1, <1>2, <1>3, <2>3 DEF SendBatch, DummyTypeOK
<1>4. CASE ReceiveBatch(e)
  <2>1. outbox' \in [Endpoint -> Seq(Packet)]
    <3>1. <<>> \in Seq(Packet)
      OBVIOUS
    <3>2. QED
      BY <1>4, <3>1 DEF ReceiveBatch, DummyTypeOK
  <2>2. CASE channel[e] = <<>>
    BY <1>1, <1>2, <1>4, <2>1, <2>2 DEF ReceiveBatch, DummyTypeOK
  <2>3. CASE channel[e] # <<>>
    <3>1. Head(channel[e]) \in Seq(Packet) /\ Tail(channel[e]) \in Seq(Seq(Packet))
      BY <2>3, PendingType, HeadTailProperties
    <3>2. QED
      BY <1>1, <1>2, <1>4, <2>1, <2>3, <3>1 DEF ReceiveBatch, DummyTypeOK
  <2>4. QED
    BY <2>2, <2>3
<1>5. QED
  BY <1>3, <1>4

\* Nothing to handle: the handlers are polled next.
LEMMA HandleNothingType ==
  ASSUME DummyTypeOK, NEW e \in Endpoint, HandleNothing(e)
  PROVE  DummyTypeOK'
<1>1. phase' \in [Endpoint -> Phase]
  BY DEF HandleNothing, Returns, Phase, DummyTypeOK, TypeOK, ProtocolTypeOK
<1>2. QED
  BY <1>1 DEF HandleNothing, DummyTypeOK, TypeOK, clientVars, serverVars,
              ProtocolTypeOK, ClientTypeOK, ServerTypeOK

\* Asking for the connection keeps the types.
LEMMA AskType ==
  ASSUME DummyTypeOK, AskForConnection
  PROVE  DummyTypeOK'
<1>1. client \in Clients /\ server \in Servers
  BY TwoEnds
<1>2. ClientNext(client) /\ UNCHANGED serverVars
  BY <1>1 DEF AskForConnection, ClientNext
<1>3. TypeOK'
  BY <1>1, <1>2, ClientNextType DEF DummyTypeOK, TypeOK, serverVars, ServerTypeOK
<1>4. turn' \in [Endpoint -> Turn]
  BY DEF AskForConnection, Turns, Turn, DummyTypeOK
<1>5. QED
  BY <1>3, <1>4 DEF AskForConnection, DummyTypeOK

-----------------------------------------------------------------------------
(***************************************************************************)
(* What is said, heard, or neither.                                        *)
(***************************************************************************)

\* The peer e has something to answer to: what it has handled last is known.
HasHeard(e) == Partner(e) # NoPeer /\ (e = client => connected[e][1] # NoPeer)

\* What Partner, LastHandled and SentTo read.
LEMMA Unchanged ==
  ASSUME UNCHANGED <<network, connected, awaiting, awaitingAck>>
  PROVE  \A x \in Endpoint :
            /\ Partner(x)' = Partner(x)
            /\ LastHandled(x)' = LastHandled(x)
            /\ SentTo(x)' = SentTo(x)
BY DEF Partner, LastHandled, SentTo

\* A step that says and hears nothing.
LEMMA Quiet ==
  ASSUME OneLink, PacketsNumbered, NextInOrder,
         UNCHANGED <<network, connected, awaiting, awaitingAck>>,
         \A x \in Endpoint : Running(x)' => Running(x),
         \A x \in Endpoint : Running(x) => Pending(x)' = Pending(x)
  PROVE  OneLink' /\ PacketsNumbered' /\ NextInOrder'
<1>1. OneLink'
  BY DEF OneLink
<1>2. \A x \in Endpoint : /\ Partner(x)' = Partner(x)
                          /\ LastHandled(x)' = LastHandled(x)
                          /\ SentTo(x)' = SentTo(x)
  BY Unchanged
<1>3. PacketsNumbered'
  <2>1. \A p \in network : p.dst = Other(p.src)
    BY DEF PacketsNumbered
  <2>2. \A p \in network' : p.sequence <= SentTo(p.dst)'
    BY DEF PacketsNumbered, SentTo
  <2>3. \A x \in Endpoint : Running(x)' /\ Partner(x)' # NoPeer =>
           Partner(x)'.sequence = SentTo(Other(x))' + 1
    BY <1>2, OtherOf DEF PacketsNumbered
  <2>4. QED
    BY <2>1, <2>2, <2>3 DEF PacketsNumbered
<1>4. NextInOrder'
  BY <1>2 DEF NextInOrder
<1>5. QED
  BY <1>1, <1>3, <1>4

\* What was sent to an end can be counted.
LEMMA SentToType ==
  ASSUME PacketsNumbered, NEW e \in Endpoint
  PROVE  /\ SentTo(e) \in Nat
         /\ \A p \in network : p.dst = e => SentTo(e) > 0
<1> DEFINE N == {p \in network : p.dst = e}
<1>1. IsFiniteSet(N)
  <2>1. IsFiniteSet(network) /\ N \subseteq network
    BY DEF PacketsNumbered
  <2>2. QED
    BY <2>1, FS_Subset
<1>2. Cardinality(N) \in Nat /\ (Cardinality(N) = 0 <=> N = {})
  BY <1>1, FS_CardinalityType, FS_EmptySet
<1>3. ASSUME NEW p \in network, p.dst = e PROVE SentTo(e) > 0
  <2>1. p \in N
    BY <1>3
  <2>2. N # {}
    BY <2>1
  <2> HIDE DEF N
  <2>3. Cardinality(N) > 0
    BY <1>2, <2>2
  <2>4. QED
    BY <2>3 DEF SentTo, N
<1>4. SentTo(e) \in Nat
  BY <1>2 DEF SentTo
<1>5. QED
  BY <1>3, <1>4

\* The last sequence handled is a number.
LEMMA LastHandledType ==
  ASSUME DummyTypeOK, NEW e \in Endpoint
  PROVE  LastHandled(e) \in Nat
<1>1. 1 \in ConnectionId
  BY WidthAssumption DEF ConnectionId
<1>2. connected[e][1] \in Peer \cup {NoPeer}
  BY <1>1 DEF DummyTypeOK, TypeOK, ProtocolTypeOK
<1>3. e = server => awaitingAck[e][1] \in Peer \cup {NoPeer}
  BY <1>1, TwoEnds DEF DummyTypeOK, TypeOK, ServerTypeOK
<1>4. \A peer \in Peer : peer.remoteAck \in Nat
  BY WidthAssumption DEF Peer, Ack
<1>5. QED
  BY <1>2, <1>3, <1>4 DEF LastHandled

\* A packet numbered after all others is new, and counts one more.
LEMMA Counts ==
  ASSUME DummyTypeOK, PacketsNumbered, NEW e \in Endpoint, NEW p \in Packet,
         p.dst = Other(e), p.sequence = SentTo(Other(e)) + 1,
         network' = network \cup {p}
  PROVE  /\ network' \ network = {p}
         /\ IsFiniteSet(network')
         /\ SentTo(Other(e))' = SentTo(Other(e)) + 1
         /\ SentTo(e)' = SentTo(e)
<1> DEFINE o == Other(e)
           N(x) == {m \in network : m.dst = x}
           M(x) == {m \in network \cup {p} : m.dst = x}
<1>1. o \in Endpoint /\ o # e
  BY OtherOf
<1>2. SentTo(o) \in Nat
  BY <1>1, SentToType
<1>3. p \notin network
  <2>1. \A m \in network : m.sequence <= SentTo(m.dst)
    BY DEF PacketsNumbered
  <2>2. ~(SentTo(o) + 1 <= SentTo(o))
    BY <1>2
  <2>3. QED
    BY <2>1, <2>2
<1>4. IsFiniteSet(network) /\ IsFiniteSet(network')
  BY FS_AddElement DEF PacketsNumbered
<1>5. M(o) = N(o) \cup {p} /\ p \notin N(o) /\ M(e) = N(e)
  BY <1>1, <1>3
<1>6. IsFiniteSet(N(o))
  <2>1. N(o) \subseteq network
    OBVIOUS
  <2>2. QED
    BY <1>4, <2>1, FS_Subset
<1>7. Cardinality(N(o) \cup {p}) = Cardinality(N(o)) + 1
  <2> HIDE DEF N
  <2>1. QED
    BY <1>5, <1>6, FS_AddElement
<1>8. SentTo(o)' = Cardinality(M(o)) /\ SentTo(e)' = Cardinality(M(e))
  BY DEF SentTo
<1>9. SentTo(o) = Cardinality(N(o)) /\ SentTo(e) = Cardinality(N(e))
  BY DEF SentTo
<1>10. network' \ network = {p}
  BY <1>3
<1> HIDE DEF N, M
<1>11. SentTo(o)' = SentTo(o) + 1 /\ SentTo(e)' = SentTo(e)
  BY <1>5, <1>7, <1>8, <1>9
<1>12. QED
  BY <1>4, <1>10, <1>11

\* What each packet is, by its number.
WellNumbered(p) ==
  /\ p.dst = Other(p.src)
  /\ p.kind = (IF p.sequence > 1 THEN "Heartbeat"
               ELSE IF p.src = client THEN "ConnectionRequest"
               ELSE "ConnectionAccepted")
  /\ p.id = IF p.kind = "ConnectionRequest" THEN 0 ELSE 1
  /\ p.sequence > 1 => connected[p.src][1] # NoPeer

\* A step that says p, and p is the next.
LEMMA Said ==
  ASSUME DummyTypeOK, PacketsNumbered, NextInOrder, NEW e \in Endpoint, NEW p \in Packet,
         WellNumbered(p), p.src = e, p.sequence = SentTo(Other(e)) + 1,
         network' = network \cup {p},
         \A x \in Endpoint : connected[x][1] # NoPeer => connected'[x][1] # NoPeer,
         \A x \in Endpoint : Running(x)' => Running(x),
         \A x \in Endpoint : HasHeard(x)' => HasHeard(x),
         \A x \in Endpoint : LastHandled(x)' = LastHandled(x),
         Partner(Other(e))' = Partner(Other(e)),
         Running(e)' => Partner(e)'.sequence = p.sequence + 1,
         Pending(Other(e))' = Pending(Other(e)) \o <<p>>,
         Pending(e)' = Pending(e)
  PROVE  PacketsNumbered' /\ NextInOrder'
<1> DEFINE o == Other(e)
<1>1. o \in Endpoint /\ o # e /\ Other(o) = e /\ \A x \in Endpoint : x = e \/ x = o
  BY OtherOf
<1>2. /\ IsFiniteSet(network')
      /\ SentTo(o)' = SentTo(o) + 1 /\ SentTo(e)' = SentTo(e)
  BY Counts DEF WellNumbered
<1>3. SentTo(o) \in Nat /\ SentTo(e) \in Nat
  BY <1>1, SentToType
<1>4. p.dst = o
  BY DEF WellNumbered
<1>5. PacketsNumbered'
  <2>1. ASSUME NEW m \in network'
        PROVE  WellNumbered(m)' /\ m.sequence <= SentTo(m.dst)'
    <3>1. CASE m \in network
      <4>1. m.src \in Endpoint /\ m.dst \in Endpoint /\ m.sequence \in Nat
        BY <3>1, PacketFields, WidthAssumption
        DEF DummyTypeOK, TypeOK, ProtocolTypeOK, Sequence
      <4>2. WellNumbered(m) /\ m.sequence <= SentTo(m.dst)
        BY <3>1 DEF PacketsNumbered, WellNumbered
      <4>3. WellNumbered(m)'
        BY <4>1, <4>2 DEF WellNumbered
      <4>4. QED
        BY <1>1, <1>2, <1>3, <4>1, <4>2, <4>3
    <3>2. CASE m = p
      <4>1. WellNumbered(p)'
        BY DEF WellNumbered
      <4>2. p.sequence <= SentTo(p.dst)'
        BY <1>2, <1>3, <1>4
      <4>3. QED
        BY <3>2, <4>1, <4>2
    <3>3. QED
      BY <3>1, <3>2
  <2>2. ASSUME NEW x \in Endpoint, Running(x)', Partner(x)' # NoPeer
        PROVE  Partner(x)'.sequence = SentTo(Other(x))' + 1
    BY <1>1, <1>2, <2>2 DEF PacketsNumbered
  <2>3. QED
    BY <1>2, <2>1, <2>2 DEF PacketsNumbered, WellNumbered
<1>6. NextInOrder'
  <2> SUFFICES ASSUME NEW x \in Endpoint, Running(x)'
               PROVE  /\ HasHeard(x)' => LastHandled(x)' > 0
                      /\ \A i \in DOMAIN Pending(x)' :
                           /\ Pending(x)'[i] \in network'
                           /\ Pending(x)'[i].dst = x
                           /\ Pending(x)'[i].sequence = LastHandled(x)' + i
                      /\ LastHandled(x)' + Len(Pending(x)') = SentTo(x)'
    BY DEF NextInOrder, HasHeard
  <2>1. /\ HasHeard(x) => LastHandled(x) > 0
        /\ \A i \in DOMAIN Pending(x) :
             /\ Pending(x)[i] \in network
             /\ Pending(x)[i].dst = x
             /\ Pending(x)[i].sequence = LastHandled(x) + i
        /\ LastHandled(x) + Len(Pending(x)) = SentTo(x)
    BY DEF NextInOrder, HasHeard
  <2>2. CASE x = e
    BY <1>2, <2>1, <2>2
  <2>3. CASE x = o
    <3> DEFINE a == Pending(o)
               b == Pending(o)'
    <3>1. a \in Seq(Packet) /\ b = a \o <<p>>
      BY <1>1, PendingType
    <3>2. LastHandled(o) + Len(a) = SentTo(o)
      BY <2>1, <2>3
    <3>3. \A i \in DOMAIN a :
             a[i] \in network /\ a[i].dst = o /\ a[i].sequence = LastHandled(o) + i
      BY <2>1, <2>3
    <3> HIDE DEF a, b
    <3>4. Len(b) = Len(a) + 1 /\ Len(a) \in Nat
          /\ \A i \in DOMAIN b : (i \in DOMAIN a /\ b[i] = a[i]) \/ (i = Len(a) + 1 /\ b[i] = p)
      BY <3>1, OneMore
    <3>5. LastHandled(o) \in Nat
      BY <1>1, LastHandledType
    <3>6. LastHandled(o) + Len(b) = SentTo(o) + 1
      BY <3>2, <3>4, <3>5
    <3>7. ASSUME NEW i \in DOMAIN b
          PROVE b[i] \in network' /\ b[i].dst = o /\ b[i].sequence = LastHandled(o) + i
      <4>1. CASE i \in DOMAIN a /\ b[i] = a[i]
        BY <3>3, <4>1
      <4>2. CASE i = Len(a) + 1 /\ b[i] = p
        <5>1. p \in network' /\ p.dst = o /\ p.sequence = SentTo(o) + 1
          BY <1>4
        <5>2. SentTo(o) + 1 = LastHandled(o) + (Len(a) + 1)
          BY <3>2, <3>4, <3>5
        <5>3. QED
          BY <4>2, <5>1, <5>2
      <4>3. QED
        BY <3>4, <4>1, <4>2
    <3>8. HasHeard(o)' => LastHandled(o)' > 0
      BY <1>1, <2>1, <2>3
    <3>9. /\ LastHandled(o)' + Len(b) = SentTo(o)'
          /\ \A i \in DOMAIN b :
               b[i] \in network' /\ b[i].dst = o /\ b[i].sequence = LastHandled(o)' + i
      <4>1. LastHandled(o)' = LastHandled(o) /\ SentTo(o)' = SentTo(o) + 1
        BY <1>1, <1>2
      <4>2. QED
        BY <3>6, <3>7, <4>1
    <3>10. QED
      BY <2>3, <3>8, <3>9 DEF b
  <2>4. QED
    BY <1>1, <2>2, <2>3
<1>7. QED
  BY <1>5, <1>6

\* What an end handles next, if it can handle anything.
LEMMA NextPacket ==
  ASSUME DummyTypeOK, PacketsNumbered, NextInOrder, NEW e \in Endpoint,
         Running(e), Pending(e) # <<>>
  PROVE  /\ Head(Pending(e)) \in network
         /\ WellNumbered(Head(Pending(e)))
         /\ Head(Pending(e)).dst = e
         /\ Head(Pending(e)).src = Other(e)
         /\ Head(Pending(e)).sequence = LastHandled(e) + 1
         /\ SentTo(e) > 0
<1> DEFINE a == Pending(e)
           p == Head(Pending(e))
<1>1. a \in Seq(Packet) /\ Len(a) # 0
  BY PendingType, EmptySeq
<1>2. 1 \in DOMAIN a /\ p = a[1]
  BY <1>1
<1>3. p \in network /\ p.dst = e /\ p.sequence = LastHandled(e) + 1
  BY <1>2 DEF NextInOrder
<1>4. WellNumbered(p)
  BY <1>3 DEF PacketsNumbered, WellNumbered
<1>5. p.src \in Endpoint
  BY <1>3, PacketFields DEF DummyTypeOK, TypeOK, ProtocolTypeOK
<1>6. p.src = Other(e)
  BY <1>3, <1>4, <1>5, OtherOf DEF WellNumbered
<1>7. QED
  BY <1>3, <1>4, <1>6, SentToType

\* A step that handles the packet that waited longest.
LEMMA Handled ==
  ASSUME DummyTypeOK, PacketsNumbered, NextInOrder, NEW e \in Endpoint,
         UNCHANGED network, Running(e), Pending(e) # <<>>,
         \A x \in Endpoint : connected[x][1] # NoPeer => connected'[x][1] # NoPeer,
         \A x \in Endpoint : Running(x)' => Running(x),
         Running(e)' => LastHandled(e)' = LastHandled(e) + 1,
         Running(e)' /\ Partner(e)' # NoPeer =>
            Partner(e)'.sequence = SentTo(Other(e)) + 1,
         LastHandled(Other(e))' = LastHandled(Other(e)),
         Partner(Other(e))' = Partner(Other(e)),
         HasHeard(Other(e))' = HasHeard(Other(e)),
         Pending(e)' = Tail(Pending(e)),
         Pending(Other(e))' = Pending(Other(e))
  PROVE  PacketsNumbered' /\ NextInOrder'
<1> DEFINE o == Other(e)
<1>1. o \in Endpoint /\ o # e /\ Other(o) = e /\ \A x \in Endpoint : x = e \/ x = o
  BY OtherOf
<1>2. SentTo(e)' = SentTo(e) /\ SentTo(o)' = SentTo(o)
  BY DEF SentTo
<1>3. PacketsNumbered'
  <2>1. ASSUME NEW m \in network'
        PROVE  WellNumbered(m)' /\ m.sequence <= SentTo(m.dst)'
    <3>1. m.src \in Endpoint /\ m \in network
      BY PacketFields DEF DummyTypeOK, TypeOK, ProtocolTypeOK
    <3>2. WellNumbered(m) /\ m.sequence <= SentTo(m.dst)
      BY <3>1 DEF PacketsNumbered, WellNumbered
    <3>3. WellNumbered(m)'
      BY <3>1, <3>2 DEF WellNumbered
    <3>4. QED
      BY <3>2, <3>3 DEF SentTo
  <2>2. ASSUME NEW x \in Endpoint, Running(x)', Partner(x)' # NoPeer
        PROVE  Partner(x)'.sequence = SentTo(Other(x))' + 1
    BY <1>1, <1>2, <2>2 DEF PacketsNumbered
  <2>3. IsFiniteSet(network')
    BY DEF PacketsNumbered
  <2>4. QED
    BY <2>1, <2>2, <2>3 DEF PacketsNumbered, WellNumbered
<1>4. NextInOrder'
  <2> SUFFICES ASSUME NEW x \in Endpoint, Running(x)'
               PROVE  /\ HasHeard(x)' => LastHandled(x)' > 0
                      /\ \A i \in DOMAIN Pending(x)' :
                           /\ Pending(x)'[i] \in network'
                           /\ Pending(x)'[i].dst = x
                           /\ Pending(x)'[i].sequence = LastHandled(x)' + i
                      /\ LastHandled(x)' + Len(Pending(x)') = SentTo(x)'
    BY DEF NextInOrder, HasHeard
  <2>1. /\ HasHeard(x) => LastHandled(x) > 0
        /\ \A i \in DOMAIN Pending(x) :
             /\ Pending(x)[i] \in network
             /\ Pending(x)[i].dst = x
             /\ Pending(x)[i].sequence = LastHandled(x) + i
        /\ LastHandled(x) + Len(Pending(x)) = SentTo(x)
    BY DEF NextInOrder, HasHeard
  <2>2. CASE x = o
    BY <1>2, <2>1, <2>2
  <2>3. CASE x = e
    <3> DEFINE a == Pending(e)
               b == Pending(e)'
    <3>1. a \in Seq(Packet) /\ Len(a) # 0 /\ Len(a) \in Nat
      BY PendingType, EmptySeq
    <3>2. b = Tail(a)
      OBVIOUS
    <3>3. /\ \A i \in DOMAIN a :
               a[i] \in network /\ a[i].dst = e /\ a[i].sequence = LastHandled(e) + i
          /\ LastHandled(e) + Len(a) = SentTo(e)
      BY <2>1, <2>3
    <3> HIDE DEF a, b
    <3>4. Len(b) = Len(a) - 1
          /\ \A i \in DOMAIN b : i \in Nat /\ i + 1 \in DOMAIN a /\ b[i] = a[i + 1]
      BY <3>1, <3>2
    <3>5. LastHandled(e) \in Nat /\ LastHandled(e)' = LastHandled(e) + 1
      BY <2>3, LastHandledType
    <3>6. LastHandled(e)' + Len(b) = SentTo(e)'
      BY <1>2, <3>1, <3>3, <3>4, <3>5
    <3>7. ASSUME NEW i \in DOMAIN b
          PROVE b[i] \in network' /\ b[i].dst = e /\ b[i].sequence = LastHandled(e)' + i
      <4>1. i \in Nat /\ i + 1 \in DOMAIN a /\ b[i] = a[i + 1]
        BY <3>4
      <4>2. a[i + 1].sequence = LastHandled(e) + (i + 1)
        BY <3>3, <4>1
      <4>3. LastHandled(e) + (i + 1) = LastHandled(e)' + i
        BY <3>5, <4>1
      <4>4. QED
        BY <3>3, <4>1, <4>2, <4>3
    <3>8. LastHandled(e)' > 0
      BY <3>5
    <3>9. QED
      BY <2>3, <3>6, <3>7, <3>8 DEF b
  <2>4. QED
    BY <1>1, <2>2, <2>3
<1>5. QED
  BY <1>3, <1>4

\* The handshake does not move on where nothing is said, heard or asked.
LEMMA StagesStay ==
  ASSUME ClientStage, ServerStage,
         UNCHANGED <<network, connected, awaiting, awaitingAck, requesting,
                     scheduledRequest, scheduledAccepted, connectionIdTracker>>,
         \A x \in Endpoint : Running(x)' => Running(x),
         sentRequest'[client] # <<>> =>
            /\ sentRequest'[client] = sentRequest[client]
            /\ phase'[client] \notin {"app", "retryData"},
         sentAccepted'[server] # <<>> =>
            /\ sentAccepted'[server] = sentAccepted[server]
            /\ phase'[server] \notin {"app", "retryData", "retryFragment"}
  PROVE  ClientStage' /\ ServerStage'
<1>1. /\ Running(client)' => Running(client)
      /\ \A x \in Endpoint : Partner(x)' = Partner(x) /\ SentTo(x)' = SentTo(x)
  BY Unchanged, TwoEnds
<1>2. client \in Endpoint /\ server \in Endpoint
  BY TwoEnds
<1>3. ClientStage'
  BY <1>1, <1>2 DEF ClientStage
<1>4. ServerStage'
  BY <1>1, <1>2 DEF ServerStage
<1>5. QED
  BY <1>3, <1>4

-----------------------------------------------------------------------------
(***************************************************************************)
(* Each step.                                                              *)
(***************************************************************************)

\* The first id is an id.
LEMMA FirstId == 1 \in ConnectionId
BY WidthAssumption DEF ConnectionId

\* A batch goes from dummy_sender to the channel, or from it to dummy_receiver.
LEMMA BatchesInv ==
  ASSUME DummyInv, NEW e \in Endpoint, SendBatch(e) \/ ReceiveBatch(e)
  PROVE  DummyInv'
<1> USE DEF DummyInv
<1>1. DummyTypeOK'
  BY BatchesType
<1>2. UNCHANGED vars
  BY DEF SendBatch, ReceiveBatch
<1>3. \A x \in Endpoint : Running(x) => Pending(x)' = Pending(x)
  <2>1. CASE SendBatch(e)
    BY <2>1, PendingSent DEF Running
  <2>2. CASE ReceiveBatch(e)
    <3>1. inbox[e] = <<>>
      BY <2>2 DEF ReceiveBatch, BatchIsHandled
    <3>2. QED
      BY <2>2, <3>1, PendingTaken
  <2>3. QED
    BY <2>1, <2>2
<1>4. BatchIsHandled'
  <2>1. \A x \in Endpoint : phase'[x] = phase[x]
    BY <1>2 DEF vars, protocolVars
  <2>2. CASE SendBatch(e)
    BY <2>1, <2>2 DEF SendBatch, Turns, BatchIsHandled, DummyTypeOK
  <2>3. CASE ReceiveBatch(e)
    <3>1. turn'[e] = "poll" /\ \A x \in Endpoint : x # e => turn'[x] = turn[x]
      BY <2>3 DEF ReceiveBatch, Turns, DummyTypeOK
    <3>2. \A x \in Endpoint : x # e => inbox'[x] = inbox[x]
      BY <2>3 DEF ReceiveBatch, DummyTypeOK
    <3>3. QED
      BY <2>1, <3>1, <3>2 DEF BatchIsHandled
  <2>4. QED
    BY <2>2, <2>3
<1>5. \A x \in Endpoint : Running(x)' => Running(x)
  BY <1>2 DEF vars, protocolVars, Running
<1>6. OneLink' /\ PacketsNumbered' /\ NextInOrder'
  BY <1>2, <1>3, <1>5, Quiet DEF vars, protocolVars, clientVars, serverVars
<1>7. ClientStage' /\ ServerStage'
  BY <1>2, <1>5, StagesStay
  DEF vars, protocolVars, clientVars, serverVars, ClientStage, ServerStage
<1>8. OnlyHeartbeats'
  BY <1>2 DEF OnlyHeartbeats, vars, protocolVars
<1>9. QED
  BY <1>1, <1>4, <1>6, <1>7, <1>8

\* There was no batch to handle.
LEMMA HandleNothingInv ==
  ASSUME DummyInv, NEW e \in Endpoint, HandleNothing(e)
  PROVE  DummyInv'
<1> USE DEF DummyInv
<1>1. DummyTypeOK'
  BY HandleNothingType
<1>2. /\ turn[e] = "poll" /\ phase[e] = "send" /\ phase'[e] = "poll"
      /\ \A x \in Endpoint : x # e => phase'[x] = phase[x]
  BY DEF HandleNothing, Drained, Returns, DummyTypeOK, TypeOK, ProtocolTypeOK
<1>3. UNCHANGED <<network, connected, awaiting, awaitingAck, requesting, scheduledRequest,
                  scheduledAccepted, connectionIdTracker, sentRequest, sentAccepted,
                  scheduled, sent, api, turn, outbox, inbox, channel>>
  BY DEF HandleNothing, clientVars, serverVars
<1>4. BatchIsHandled'
  BY <1>2, <1>3 DEF BatchIsHandled
<1>5. \A x \in Endpoint : Running(x)' => Running(x)
  BY <1>2 DEF Running, Stopped
<1>6. \A x \in Endpoint : Pending(x)' = Pending(x)
  BY <1>2, <1>3, OtherOf, PendingStays
<1>7. OneLink' /\ PacketsNumbered' /\ NextInOrder'
  BY <1>3, <1>5, <1>6, Quiet
<1>8. ClientStage' /\ ServerStage'
  <2>1. sentRequest'[client] # <<>> => phase'[client] \notin {"app", "retryData"}
    BY <1>2, <1>3, TwoEnds DEF ClientStage
  <2>2. sentAccepted'[server] # <<>> =>
           phase'[server] \notin {"app", "retryData", "retryFragment"}
    BY <1>2, <1>3, TwoEnds DEF ServerStage
  <2>3. QED
    BY <1>3, <1>5, <2>1, <2>2, StagesStay
<1>9. OnlyHeartbeats'
  BY <1>3 DEF OnlyHeartbeats
<1>10. QED
  BY <1>1, <1>4, <1>7, <1>8, <1>9

\* A heartbeat is scheduled to the only peer there is.
LEMMA BeatItems ==
  ASSUME DummyTypeOK, OneLink, NEW e \in Endpoint,
         NEW ids \in SetToSeqs(ConnectedIds(e)), ConnectedIds(e) # {}
  PROVE  /\ Batch(e, ids, 1) \in Seq(Scheduled)
         /\ \A k \in DOMAIN Batch(e, ids, 1) :
              /\ Batch(e, ids, 1)[k].id = 1
              /\ Batch(e, ids, 1)[k].address = Other(e)
         /\ connected[e][1] # NoPeer
<1>1. ids \in Recipients(e) /\ ProtocolTypeOK /\ 1 \in Nat
  BY DEF Recipients, DummyTypeOK, TypeOK
<1>2. ids \in Seq(ConnectedIds(e)) /\ Len(ids) \in Nat
  BY <1>1, RecipientsType
<1>3. \A id \in ConnectedIds(e) :
         id = 1 /\ connected[e][id] # NoPeer /\ connected[e][id].address = Other(e)
  BY DEF ConnectedIds, OneLink
<1>4. ASSUME NEW k \in 1 .. 1 * Len(ids)
      PROVE  Batch(e, ids, 1)[k].id = 1 /\ Batch(e, ids, 1)[k].address = Other(e)
  <2>1. k \in 1 .. Len(ids) /\ k - 1 \in 0 .. Len(ids) - 1 /\ Len(ids) > 0
    BY <1>2
  <2>2. ((k - 1) % Len(ids)) + 1 \in 1 .. Len(ids)
    BY <1>2, <2>1
  <2>3. ids[((k - 1) % Len(ids)) + 1] = 1 /\ connected[e][1].address = Other(e)
    BY <1>2, <1>3, <2>2
  <2>4. QED
    BY <2>3 DEF Batch, ScheduledItem
<1>5. DOMAIN Batch(e, ids, 1) = 1 .. 1 * Len(ids)
  BY DEF Batch
<1>6. Batch(e, ids, 1) \in Seq(Scheduled)
  BY <1>1, BatchType
<1>7. QED
  BY <1>3, <1>4, <1>5, <1>6

\* What is in two lists is in the one or the other.
LEMMA JoinedItems ==
  ASSUME NEW S, NEW a \in Seq(S), NEW b \in Seq(S), NEW i \in DOMAIN (a \o b)
  PROVE  \/ i \in DOMAIN a /\ (a \o b)[i] = a[i]
         \/ \E k \in DOMAIN b : (a \o b)[i] = b[k]
<1> DEFINE d == a \o b
<1>1. /\ d \in Seq(S) /\ Len(d) = Len(a) + Len(b)
      /\ \A k \in 1 .. Len(a) + Len(b) :
            d[k] = IF k <= Len(a) THEN a[k] ELSE b[k - Len(a)]
  BY ConcatProperties
<1> HIDE DEF d
<1>2. i \in 1 .. Len(a) + Len(b) /\ Len(a) \in Nat /\ Len(b) \in Nat
  BY <1>1 DEF d
<1>3. CASE i <= Len(a)
  <2>1. i \in DOMAIN a /\ d[i] = a[i]
    BY <1>1, <1>2, <1>3
  <2>2. QED
    BY <2>1 DEF d
<1>4. CASE i > Len(a)
  <2>1. i - Len(a) \in DOMAIN b /\ d[i] = b[i - Len(a)]
    BY <1>1, <1>2, <1>4
  <2>2. QED
    BY <2>1 DEF d
<1>5. QED
  BY <1>2, <1>3, <1>4

\* The application beats, if it has a peer to beat to.
LEMMA BeatInv ==
  ASSUME DummyInv, NEW e \in Endpoint, NEW now \in {"beat", "beatReliably"},
         NEW q \in {5, 6}, NEW next \in {"beatReliably", "send"}, Beat(e, now, q, next)
  PROVE  DummyInv'
<1> USE DEF DummyInv
<1>1. q \in Queue /\ DrainOrder[q].kind = "Heartbeat" /\ next \in Turn
  BY DEF Queue, DrainOrder, Turn
<1>2. DummyTypeOK'
  BY <1>1, BeatType
<1>3. /\ turn[e] = now /\ turn'[e] = next
      /\ \A x \in Endpoint : x # e => turn'[x] = turn[x]
      /\ UNCHANGED <<clientVars, serverVars, outbox, inbox, channel>>
  BY DEF Beat, Turns, DummyTypeOK
<1>4. UNCHANGED <<network, phase, connected, reassembler, sent, api>>
  BY DEF Beat, Enqueue, protocolVars
<1>5. BatchIsHandled'
  BY <1>3, <1>4 DEF BatchIsHandled
<1>6. \A x \in Endpoint : Running(x)' => Running(x)
  BY <1>4 DEF Running
<1>7. \A x \in Endpoint : Pending(x)' = Pending(x)
  BY <1>3, OtherOf, PendingStays
<1>8. OneLink' /\ PacketsNumbered' /\ NextInOrder'
  BY <1>3, <1>4, <1>6, <1>7, Quiet DEF clientVars, serverVars
<1>9. ClientStage' /\ ServerStage'
  BY <1>3, <1>4, <1>6, StagesStay DEF clientVars, serverVars, ClientStage, ServerStage
<1>10. OnlyHeartbeats'
  <2>1. CASE ConnectedIds(e) = {}
    BY <2>1 DEF Beat, protocolVars, OnlyHeartbeats
  <2>2. CASE ConnectedIds(e) # {}
    <3>1. PICK ids \in SetToSeqs(ConnectedIds(e)) : Enqueue(e, q, Batch(e, ids, 1))
      BY <2>2 DEF Beat
    <3> DEFINE old == scheduled[e][q]
               new == Batch(e, ids, 1)
    <3>2. /\ new \in Seq(Scheduled)
          /\ \A k \in DOMAIN new : new[k].id = 1 /\ new[k].address = Other(e)
          /\ connected[e][1] # NoPeer
      BY <2>2, BeatItems
    <3>3. /\ scheduled'[e][q] = old \o new
          /\ \A x \in Endpoint, r \in Queue :
                x # e \/ r # q => scheduled'[x][r] = scheduled[x][r]
      BY <1>1, <3>1 DEF Enqueue, DummyTypeOK, TypeOK, ProtocolTypeOK
    <3>4. old \in Seq(Scheduled)
      BY <1>1 DEF DummyTypeOK, TypeOK, ProtocolTypeOK
    <3>5. \A i \in DOMAIN old : old[i].id = 1 /\ old[i].address = Other(e)
      BY <1>1 DEF OnlyHeartbeats
    <3> HIDE DEF old, new
    <3>6. \A i \in DOMAIN (old \o new) :
             (old \o new)[i].id = 1 /\ (old \o new)[i].address = Other(e)
      BY <3>2, <3>4, <3>5, JoinedItems
    <3>7. \A i \in DOMAIN scheduled'[e][q] :
             scheduled'[e][q][i].id = 1 /\ scheduled'[e][q][i].address = Other(e)
      BY <3>3, <3>6
    <3>8. ASSUME NEW x \in Endpoint, NEW r \in Queue, NEW i \in DOMAIN scheduled'[x][r]
          PROVE  /\ DrainOrder[r].kind = "Heartbeat"
                 /\ scheduled'[x][r][i].id = 1
                 /\ scheduled'[x][r][i].address = Other(x)
                 /\ connected'[x][1] # NoPeer
      <4>1. CASE x # e \/ r # q
        <5>1. scheduled'[x][r] = scheduled[x][r]
          BY <3>3, <4>1
        <5>2. QED
          BY <1>4, <5>1 DEF OnlyHeartbeats
      <4>2. CASE x = e /\ r = q
        BY <1>1, <1>4, <3>2, <3>7, <4>2
      <4>3. QED
        BY <4>1, <4>2
    <3>9. QED
      BY <1>4, <3>8 DEF OnlyHeartbeats
  <2>3. QED
    BY <2>1, <2>2
<1>11. QED
  BY <1>2, <1>5, <1>8, <1>9, <1>10

\* The client asks for the connection.
LEMMA AskInv ==
  ASSUME DummyInv, AskForConnection
  PROVE  DummyInv'
<1> USE DEF DummyInv
<1>1. DummyTypeOK'
  BY AskType
<1>2. client \in Endpoint /\ server \in Endpoint /\ client # server
  BY TwoEnds
<1>3. /\ turn[client] = "connect" /\ turn'[client] = "poll"
      /\ \A x \in Endpoint : x # client => turn'[x] = turn[x]
      /\ UNCHANGED <<serverVars, outbox, inbox, channel>>
  BY <1>2 DEF AskForConnection, Turns, DummyTypeOK
<1>4. /\ phase[client] = "app" /\ ~KnownPeer(client, server)
      /\ UNCHANGED <<network, clock, phase, connected, reassembler, scheduled,
                     sent, api, awaiting, sentRequest>>
  BY DEF AskForConnection, Connect
<1>5. /\ requesting'[client][server] = NewPeer(server, 0)
      /\ scheduledRequest'[client] = Append(scheduledRequest[client], server)
  BY <1>2, TwoEnds DEF AskForConnection, Connect, DummyTypeOK, TypeOK, ClientTypeOK
<1>6. BatchIsHandled'
  BY <1>3, <1>4 DEF BatchIsHandled
<1>7. \A x \in Endpoint : Running(x)' => Running(x)
  BY <1>4 DEF Running
<1>8. \A x \in Endpoint : Pending(x)' = Pending(x)
  BY <1>2, <1>3, OtherOf, PendingStays
<1>9. OneLink' /\ PacketsNumbered' /\ NextInOrder'
  BY <1>3, <1>4, <1>7, <1>8, Quiet DEF serverVars
<1>10. /\ requesting[client][server] = NoPeer
       /\ awaiting[client][server] = NoPeer
       /\ connected[client][1] = NoPeer
  BY <1>2, <1>4, FirstId, TwoEnds DEF KnownPeer, ConnectedIds, OneLink
<1>11. \A x \in Endpoint : Partner(x)' = Partner(x) /\ SentTo(x)' = SentTo(x)
  BY <1>3, <1>4, Unchanged DEF serverVars
<1>12. ClientStage'
  <2>1. Partner(client) = NoPeer /\ Running(client)
    BY <1>4, <1>10 DEF Partner, Running, Stopped
  <2>2. SentTo(server) = 0 /\ scheduledRequest[client] = <<>>
    BY <1>10, <2>1 DEF ClientStage
  <2>3. scheduledRequest'[client] = <<server>>
    BY <1>5, <2>2
  <2>4. /\ requesting'[client][server] # NoPeer
        /\ requesting'[client][server].sequence = 1
        /\ requesting'[client][server].address = server
    <3>1. NewPeer(server, 0) \in Peer
      BY <1>2, NewPeerType, WidthAssumption DEF Ack
    <3>2. QED
      BY <1>5, <3>1, NoPeerAssumption DEF NewPeer
  <2>5. QED
    BY <1>2, <1>4, <1>10, <1>11, <2>1, <2>2, <2>3, <2>4 DEF ClientStage, Running
<1>13. ServerStage'
  BY <1>2, <1>3, <1>4, <1>11 DEF ServerStage, serverVars
<1>14. OnlyHeartbeats'
  BY <1>4 DEF OnlyHeartbeats
<1>15. QED
  BY <1>1, <1>6, <1>9, <1>12, <1>13, <1>14

\* A step of poll that puts nothing into dummy_sender, or one packet.
LEMMA PollBoxes ==
  ASSUME DummyTypeOK, DummyTypeOK', NEW e \in Endpoint, Poll(e)
  PROVE  /\ network' = network => \A x \in Endpoint : Pending(x)' = Pending(x)
         /\ \A p \in Packet : network' \ network = {p} =>
               /\ Pending(Other(e))' = Pending(Other(e)) \o <<p>>
               /\ Pending(e)' = Pending(e)
<1>1. /\ turn[e] # "receive" /\ turn'[e] # "receive" /\ turn'[Other(e)] = turn[Other(e)]
      /\ UNCHANGED <<inbox, channel>>
      /\ outbox' = [outbox EXCEPT ![e] = @ \o SetToSeq(network' \ network)]
  BY OtherOf DEF Poll, Turns, DummyTypeOK
<1>2. ASSUME network' = network
      PROVE  \A x \in Endpoint : Pending(x)' = Pending(x)
  <2>1. network' \ network = {}
    BY <1>2
  <2>2. SetToSeq(network' \ network) = <<>> /\ <<>> \in Seq(Packet)
    BY <2>1, ListOfNone
  <2>3. Pending(Other(e))' = Pending(Other(e)) \o <<>> /\ Pending(e)' = Pending(e)
    BY <1>1, <2>2, PendingSaid
  <2>4. Pending(Other(e)) \o <<>> = Pending(Other(e))
    BY OtherOf, PendingType, JoinedLists
  <2>5. QED
    BY <2>3, <2>4, OtherOf
<1>3. ASSUME NEW p \in Packet, network' \ network = {p}
      PROVE  Pending(Other(e))' = Pending(Other(e)) \o <<p>> /\ Pending(e)' = Pending(e)
  <2>1. SetToSeq(network' \ network) = <<p>> /\ <<p>> \in Seq(Packet)
    <3>1. SetToSeq({p}) = <<p>>
      BY ListOfOne
    <3>2. <<p>> \in Seq(Packet)
      OBVIOUS
    <3>3. QED
      BY <1>3, <3>1, <3>2
  <2>2. outbox' = [outbox EXCEPT ![e] = @ \o <<p>>]
    BY <1>1, <2>1
  <2>3. QED
    BY <1>1, <2>1, <2>2, PendingSaid
<1>4. QED
  BY <1>2, <1>3

\* What ends a poll ends it: the next turn is to beat, and no batch is left.
LEMMA PollBatch ==
  ASSUME DummyTypeOK, BatchIsHandled, NEW e \in Endpoint, Poll(e),
         \A x \in Endpoint : x # e => phase'[x] = phase[x],
         phase[e] = "poll" => phase'[e] = "app"
  PROVE  BatchIsHandled'
<1>1. /\ turn'[e] = IF phase[e] = "poll" THEN "beat" ELSE "poll"
      /\ \A x \in Endpoint : x # e => turn'[x] = turn[x]
      /\ phase[e] = "poll" => inbox[e] = <<>>
      /\ inbox' = inbox
  BY DEF Poll, Turns, DummyTypeOK
<1>2. QED
  BY <1>1 DEF BatchIsHandled

\* A poll that moves from one phase to the next without a packet.
LEMMA QuietPoll ==
  ASSUME DummyInv, NEW e \in Endpoint, Poll(e),
         UNCHANGED <<network, connected, awaiting, awaitingAck, requesting,
                     scheduledRequest, scheduledAccepted, connectionIdTracker, scheduled>>,
         \A x \in Endpoint : x # e => phase'[x] = phase[x],
         phase[e] = "poll" => phase'[e] = "app",
         phase[e] \notin Stopped,
         sentRequest'[client] # <<>> =>
            /\ sentRequest'[client] = sentRequest[client]
            /\ phase'[client] \notin {"app", "retryData"},
         sentAccepted'[server] # <<>> =>
            /\ sentAccepted'[server] = sentAccepted[server]
            /\ phase'[server] \notin {"app", "retryData", "retryFragment"},
         \A x \in Endpoint :
            /\ api'[x] = <<>>
            /\ \A kind \in {"DataTransfer", "Fragment"} : sent'[x][kind] = <<>>
  PROVE  DummyInv'
<1> USE DEF DummyInv
<1>1. DummyTypeOK'
  BY PollType
<1>2. BatchIsHandled'
  BY PollBatch
<1>3. \A x \in Endpoint : Running(x)' => Running(x)
  BY DEF Running
<1>4. \A x \in Endpoint : Pending(x)' = Pending(x)
  BY <1>1, PollBoxes
<1>5. OneLink' /\ PacketsNumbered' /\ NextInOrder'
  BY <1>3, <1>4, Quiet
<1>6. ClientStage' /\ ServerStage'
  BY <1>3, StagesStay
<1>7. OnlyHeartbeats'
  BY DEF OnlyHeartbeats
<1>8. QED
  BY <1>1, <1>2, <1>5, <1>6, <1>7

\* The front of the empty list is empty.
LEMMA FrontOfNone == Front(<<>>) = <<>>
<1>1. SubSeq(<<>>, 1, -1) = <<>>
  OBVIOUS
<1>2. Len(<<>>) - 1 = -1
  OBVIOUS
<1>3. QED
  BY <1>1, <1>2 DEF Front

\* Nothing is ever kept that could be sent again, so a retry sends nothing.
LEMMA RetryInv ==
  ASSUME DummyInv, NEW e \in Endpoint, Poll(e),
         \/ e = client /\ RetryConnectionRequest(e) /\ UNCHANGED serverVars
         \/ e = client /\ ClientRetryDataTransfer(e) /\ UNCHANGED serverVars
         \/ e = server /\ RetryConnectionAccepted(e) /\ UNCHANGED clientVars
         \/ e = server /\ ServerRetryDataTransfer(e) /\ UNCHANGED clientVars
         \/ e = server /\ ServerRetryFragment(e) /\ UNCHANGED clientVars
  PROVE  DummyInv'
<1> USE DEF DummyInv
<1>1. client \in Endpoint /\ server \in Endpoint /\ client # server
  BY TwoEnds
<1>2. \A kind \in {"DataTransfer", "Fragment"} :
         ~Overdue(e, sent[e][kind]) /\ sent[e][kind] = <<>>
  BY DEF OnlyHeartbeats, Overdue
<1>3. ASSUME NEW kind \in {"DataTransfer", "Fragment"}, NEW next \in Phase,
             Forget(e, kind, next)
      PROVE  /\ UNCHANGED <<network, connected, scheduled, api>>
             /\ phase'[e] = next /\ \A x \in Endpoint : x # e => phase'[x] = phase[x]
             /\ \A x \in Endpoint, k \in {"DataTransfer", "Fragment"} : sent'[x][k] = <<>>
  <2>1. kind \in SentKind
    BY DEF SentKind
  <2>2. /\ sent' = [sent EXCEPT ![e][kind] = Front(@)]
        /\ phase' = [phase EXCEPT ![e] = next]
        /\ UNCHANGED <<network, connected, scheduled, api>>
    BY <1>3 DEF Forget
  <2>3. phase'[e] = next /\ \A x \in Endpoint : x # e => phase'[x] = phase[x]
    BY <2>2 DEF DummyTypeOK, TypeOK, ProtocolTypeOK
  <2>4. sent'[e][kind] = <<>>
    BY <1>2, <2>1, <2>2, FrontOfNone DEF DummyTypeOK, TypeOK, ProtocolTypeOK
  <2>5. \A x \in Endpoint, k \in SentKind :
           x # e \/ k # kind => sent'[x][k] = sent[x][k]
    BY <2>1, <2>2 DEF DummyTypeOK, TypeOK, ProtocolTypeOK
  <2>6. \A x \in Endpoint, k \in {"DataTransfer", "Fragment"} :
           k \in SentKind /\ sent[x][k] = <<>>
    BY DEF OnlyHeartbeats, SentKind
  <2>7. QED
    BY <2>2, <2>3, <2>4, <2>5, <2>6
<1>4. CASE e = client /\ RetryConnectionRequest(e) /\ UNCHANGED serverVars
  <2>1. phase[client] = "app" /\ sentRequest[client] = <<>>
    BY <1>4 DEF RetryConnectionRequest, ClientStage
  <2>2. ~Overdue(client, sentRequest[client])
    BY <2>1 DEF Overdue
  <2>3. /\ phase' = [phase EXCEPT ![client] = "retryData"]
        /\ sentRequest' = [sentRequest EXCEPT ![client] = Front(@)]
        /\ UNCHANGED <<network, requesting, awaiting, connected, scheduled, sent, api,
                       scheduledRequest, awaitingAck, connectionIdTracker,
                       scheduledAccepted, sentAccepted>>
    BY <1>4, <2>2 DEF RetryConnectionRequest, serverVars
  <2>4. sentRequest'[client] = <<>>
    BY <2>1, <2>3, TwoEnds, FrontOfNone DEF DummyTypeOK, TypeOK, ClientTypeOK
  <2>5. /\ phase'[client] = "retryData"
        /\ \A x \in Endpoint : x # client => phase'[x] = phase[x]
    BY <1>1, <2>3 DEF DummyTypeOK, TypeOK, ProtocolTypeOK
  <2>6. sentAccepted'[server] # <<>> =>
           /\ sentAccepted'[server] = sentAccepted[server]
           /\ phase'[server] \notin {"app", "retryData", "retryFragment"}
    BY <1>1, <2>3, <2>5 DEF ServerStage
  <2>7. \A x \in Endpoint :
           /\ api'[x] = <<>>
           /\ \A kind \in {"DataTransfer", "Fragment"} : sent'[x][kind] = <<>>
    BY <2>3 DEF OnlyHeartbeats
  <2>8. phase[e] # "poll" /\ phase[e] \notin Stopped
    BY <1>4, <2>1 DEF Stopped
  <2>9. QED
    BY <1>4, <2>3, <2>4, <2>5, <2>6, <2>7, <2>8, QuietPoll
<1>5. CASE e = client /\ ClientRetryDataTransfer(e) /\ UNCHANGED serverVars
  <2>1. /\ phase[client] = "retryData" /\ Forget(client, "DataTransfer", "send")
        /\ UNCHANGED <<requesting, awaiting, scheduledRequest, sentRequest, awaitingAck,
                       connectionIdTracker, scheduledAccepted, sentAccepted>>
    BY <1>2, <1>5 DEF ClientRetryDataTransfer, serverVars
  <2>2. sentRequest'[client] = <<>>
    BY <2>1 DEF ClientStage
  <2>3. /\ UNCHANGED <<network, connected, scheduled, api>>
        /\ \A x \in Endpoint : x # e => phase'[x] = phase[x]
        /\ \A x \in Endpoint, k \in {"DataTransfer", "Fragment"} : sent'[x][k] = <<>>
    BY <1>3, <1>5, <2>1 DEF Phase
  <2>4. sentAccepted'[server] # <<>> =>
           /\ sentAccepted'[server] = sentAccepted[server]
           /\ phase'[server] \notin {"app", "retryData", "retryFragment"}
    BY <1>1, <1>5, <2>1, <2>3 DEF ServerStage
  <2>5. \A x \in Endpoint :
           /\ api'[x] = <<>>
           /\ \A kind \in {"DataTransfer", "Fragment"} : sent'[x][kind] = <<>>
    BY <2>3 DEF OnlyHeartbeats
  <2>6. phase[e] # "poll" /\ phase[e] \notin Stopped
    BY <1>5, <2>1 DEF Stopped
  <2>7. QED
    BY <2>1, <2>2, <2>3, <2>4, <2>5, <2>6, QuietPoll
<1>6. CASE e = server /\ RetryConnectionAccepted(e) /\ UNCHANGED clientVars
  <2>1. phase[server] = "app" /\ sentAccepted[server] = <<>>
    BY <1>6 DEF RetryConnectionAccepted, ServerStage
  <2>2. ~Overdue(server, sentAccepted[server])
    BY <2>1 DEF Overdue
  <2>3. /\ phase' = [phase EXCEPT ![server] = "retryData"]
        /\ sentAccepted' = [sentAccepted EXCEPT ![server] = Front(@)]
        /\ UNCHANGED <<network, requesting, awaiting, connected, scheduled, sent, api,
                       scheduledRequest, awaitingAck, connectionIdTracker,
                       scheduledAccepted, sentRequest>>
    BY <1>6, <2>2 DEF RetryConnectionAccepted, clientVars
  <2>4. sentAccepted'[server] = <<>>
    BY <2>1, <2>3, TwoEnds, FrontOfNone DEF DummyTypeOK, TypeOK, ServerTypeOK
  <2>5. /\ phase'[server] = "retryData"
        /\ \A x \in Endpoint : x # server => phase'[x] = phase[x]
    BY <1>1, <2>3 DEF DummyTypeOK, TypeOK, ProtocolTypeOK
  <2>6. sentRequest'[client] # <<>> =>
           /\ sentRequest'[client] = sentRequest[client]
           /\ phase'[client] \notin {"app", "retryData"}
    BY <1>1, <2>3, <2>5 DEF ClientStage
  <2>7. \A x \in Endpoint :
           /\ api'[x] = <<>>
           /\ \A kind \in {"DataTransfer", "Fragment"} : sent'[x][kind] = <<>>
    BY <2>3 DEF OnlyHeartbeats
  <2>8. phase[e] # "poll" /\ phase[e] \notin Stopped
    BY <1>6, <2>1 DEF Stopped
  <2>9. QED
    BY <1>6, <2>3, <2>4, <2>5, <2>6, <2>7, <2>8, QuietPoll
<1>7. ASSUME e = server, UNCHANGED clientVars, NEW kind \in {"DataTransfer", "Fragment"},
             NEW now \in {"retryData", "retryFragment"},
             NEW next \in {"retryFragment", "send"}, RetrySent(e, kind, now, next)
      PROVE  DummyInv'
  <2>1. /\ phase[server] = now /\ Forget(server, kind, next)
        /\ UNCHANGED <<requesting, awaiting, scheduledRequest, sentRequest, awaitingAck,
                       connectionIdTracker, scheduledAccepted, sentAccepted>>
    BY <1>2, <1>7 DEF RetrySent, clientVars, serverVars
  <2>2. sentAccepted'[server] = <<>>
    BY <2>1 DEF ServerStage
  <2>3. /\ UNCHANGED <<network, connected, scheduled, api>>
        /\ \A x \in Endpoint : x # e => phase'[x] = phase[x]
        /\ \A x \in Endpoint, k \in {"DataTransfer", "Fragment"} : sent'[x][k] = <<>>
    BY <1>3, <1>7, <2>1 DEF Phase
  <2>4. sentRequest'[client] # <<>> =>
           /\ sentRequest'[client] = sentRequest[client]
           /\ phase'[client] \notin {"app", "retryData"}
    BY <1>1, <1>7, <2>1, <2>3 DEF ClientStage
  <2>5. \A x \in Endpoint :
           /\ api'[x] = <<>>
           /\ \A k \in {"DataTransfer", "Fragment"} : sent'[x][k] = <<>>
    BY <2>3 DEF OnlyHeartbeats
  <2>6. phase[e] # "poll" /\ phase[e] \notin Stopped
    BY <1>7, <2>1 DEF Stopped
  <2>7. QED
    BY <2>1, <2>2, <2>3, <2>4, <2>5, <2>6, QuietPoll
<1>8. CASE e = server /\ ServerRetryDataTransfer(e) /\ UNCHANGED clientVars
  BY <1>7, <1>8 DEF ServerRetryDataTransfer
<1>9. CASE e = server /\ ServerRetryFragment(e) /\ UNCHANGED clientVars
  BY <1>7, <1>9 DEF ServerRetryFragment
<1>10. QED
  BY <1>4, <1>5, <1>6, <1>8, <1>9

\* Of at most one item nothing is left without the first.
LEMMA WithoutTheOnly ==
  ASSUME NEW S, NEW list \in Seq(S), list # <<>> => Len(list) = 1
  PROVE  WithoutFirst(list) = <<>>
<1>1. CASE list = <<>>
  BY <1>1 DEF WithoutFirst
<1>2. CASE list # <<>>
  <2>1. Len(list) = 1
    BY <1>2
  <2>2. Len(list) <= 1
    BY <2>1
  <2>3. Tail(list) = <<>>
    BY <1>2, <2>2, ShortList
  <2>4. QED
    BY <1>2, <2>3 DEF WithoutFirst
<1>3. QED
  BY <1>1, <1>2

\* The end of a poll: the request or the accept leaves its list.
LEMMA PollEndInv ==
  ASSUME DummyInv, NEW e \in Endpoint, Poll(e),
         \/ e = client /\ ClientPoll(e) /\ UNCHANGED serverVars
         \/ e = server /\ ServerPoll(e) /\ UNCHANGED clientVars
  PROVE  DummyInv'
<1> USE DEF DummyInv
<1>1. client \in Endpoint /\ server \in Endpoint /\ client # server
  BY TwoEnds
<1>2. PollHandler(e)
  BY DEF ClientPoll, ServerPoll
<1>3. /\ phase[e] = "poll" /\ phase'[e] = "app"
      /\ \A x \in Endpoint : x # e => phase'[x] = phase[x]
      /\ UNCHANGED <<network, connected, scheduled>>
  BY <1>2 DEF PollHandler, DummyTypeOK, TypeOK, ProtocolTypeOK
<1>4. \A x \in Endpoint :
         /\ api'[x] = <<>>
         /\ \A kind \in {"DataTransfer", "Fragment"} : sent'[x][kind] = <<>>
  <2>1. /\ sent' = [sent EXCEPT ![e] = Expired(@)]
        /\ api' = [api EXCEPT ![e] = <<>>]
    BY <1>2 DEF PollHandler
  <2>2. Expired(sent[e]) = sent[e]
    BY DEF Expired, OnlyHeartbeats
  <2>3. \A x \in Endpoint : sent'[x] = sent[x] /\ api'[x] = <<>>
    BY <2>1, <2>2 DEF OnlyHeartbeats, DummyTypeOK, TypeOK, ProtocolTypeOK
  <2>4. QED
    BY <2>3 DEF OnlyHeartbeats
<1>5. phase[e] \notin Stopped
  BY <1>3 DEF Stopped
<1>6. CASE e = client /\ ClientPoll(e) /\ UNCHANGED serverVars
  <2>1. sentRequest' = [sentRequest EXCEPT ![client] = WithoutFirst(@)]
    BY <1>6 DEF ClientPoll
  <2>2. sentRequest[client] \in Seq(Sent)
    BY TwoEnds DEF DummyTypeOK, TypeOK, ClientTypeOK
  <2>3. WithoutFirst(sentRequest[client]) = <<>>
    BY <2>2, WithoutTheOnly DEF ClientStage
  <2>4. sentRequest'[client] = <<>>
    BY <2>1, <2>3, TwoEnds DEF DummyTypeOK, TypeOK, ClientTypeOK
  <2>5. sentAccepted'[server] # <<>> =>
           /\ sentAccepted'[server] = sentAccepted[server]
           /\ phase'[server] \notin {"app", "retryData", "retryFragment"}
    BY <1>1, <1>3, <1>6 DEF ServerStage, serverVars
  <2>6. UNCHANGED <<awaiting, awaitingAck, requesting, scheduledRequest,
                    scheduledAccepted, connectionIdTracker>>
    BY <1>6 DEF ClientPoll, serverVars
  <2>7. QED
    BY <1>3, <1>4, <1>5, <2>4, <2>5, <2>6, QuietPoll
<1>7. CASE e = server /\ ServerPoll(e) /\ UNCHANGED clientVars
  <2>1. sentAccepted' = [sentAccepted EXCEPT ![server] = WithoutFirst(@)]
    BY <1>7 DEF ServerPoll
  <2>2. sentAccepted[server] \in Seq(Sent)
    BY TwoEnds DEF DummyTypeOK, TypeOK, ServerTypeOK
  <2>3. WithoutFirst(sentAccepted[server]) = <<>>
    BY <2>2, WithoutTheOnly DEF ServerStage
  <2>4. sentAccepted'[server] = <<>>
    BY <2>1, <2>3, TwoEnds DEF DummyTypeOK, TypeOK, ServerTypeOK
  <2>5. sentRequest'[client] # <<>> =>
           /\ sentRequest'[client] = sentRequest[client]
           /\ phase'[client] \notin {"app", "retryData"}
    BY <1>1, <1>3, <1>7 DEF ClientStage, clientVars
  <2>6. UNCHANGED <<awaiting, awaitingAck, requesting, scheduledRequest,
                    scheduledAccepted, connectionIdTracker>>
    BY <1>7 DEF ServerPoll, clientVars
  <2>7. QED
    BY <1>3, <1>4, <1>5, <2>4, <2>5, <2>6, QuietPoll
<1>8. QED
  BY <1>6, <1>7

\* A heartbeat leaves: what its packet is, and what it leaves behind.
LEMMA HeartbeatLeaves ==
  ASSUME DummyInv, NEW e \in Endpoint, NEW q \in Queue, NEW peers,
         SendScheduled(e, q, peers), peers = connected[e]
  PROVE  LET p == Created(e, q, Head(scheduled[e][q]))
         IN  /\ p \in Packet
             /\ p.kind = "Heartbeat" /\ p.src = e /\ p.dst = Other(e) /\ p.id = 1
             /\ connected[e][1] # NoPeer
             /\ p.sequence = connected[e][1].sequence
             /\ phase[e] = "send"
             /\ network' = network \cup {p}
             /\ \A x \in Endpoint : x # e => phase'[x] = phase[x]
             /\ phase'[e] \in {"send"} \cup Stopped
             /\ \A x \in Endpoint, id \in ConnectionId :
                  x # e \/ id # 1 => connected'[x][id] = connected[x][id]
             /\ connected'[e][1] # NoPeer
             /\ connected'[e][1].address = connected[e][1].address
             /\ connected'[e][1].remoteAck = connected[e][1].remoteAck
             /\ Running(e)' => connected'[e][1].sequence = p.sequence + 1
             /\ api' = api
             /\ \A x \in Endpoint, kind \in {"DataTransfer", "Fragment"} :
                  sent'[x][kind] = sent[x][kind]
             /\ scheduled' = [scheduled EXCEPT ![e][q] = Tail(@)]
<1> USE DEF DummyInv
<1> DEFINE item == Head(scheduled[e][q])
           p == Created(e, q, item)
           peer == connected[e][1]
<1>1. scheduled[e][q] # <<>> /\ scheduled[e][q] \in Seq(Scheduled)
  BY DEF SendScheduled, NextInLine, DummyTypeOK, TypeOK, ProtocolTypeOK
<1>2. 1 \in DOMAIN scheduled[e][q] /\ item = scheduled[e][q][1] /\ item \in Scheduled
  <2>1. Len(scheduled[e][q]) # 0
    BY <1>1, EmptySeq
  <2>2. QED
    BY <1>1, <2>1
<1>3. /\ DrainOrder[q].kind = "Heartbeat" /\ item.id = 1 /\ item.address = Other(e)
      /\ peer # NoPeer
  BY <1>2 DEF OnlyHeartbeats
<1>4. peer \in Peer /\ 1 \in ConnectionId
  BY <1>3, FirstId DEF DummyTypeOK, TypeOK, ProtocolTypeOK
<1>5. /\ p.kind = "Heartbeat" /\ p.src = e /\ p.dst = Other(e) /\ p.id = 1
      /\ p.sequence = peer.sequence
  BY <1>3 DEF Created, IntoPacket
<1>6. p \in Packet
  <2>1. ProtocolTypeOK
    BY DEF DummyTypeOK, TypeOK
  <2>2. connected[e][Head(scheduled[e][q]).id] # NoPeer
    BY <1>3
  <2>3. Created(e, q, Head(scheduled[e][q])) \in Packet
    BY <1>1, <2>1, <2>2, CreatedType
  <2>4. QED
    BY <2>3
<1>7. SendPacket(e, p, DrainOrder[q].reliable, peers, sent[e], "send")
  BY <1>3 DEF SendScheduled
<1>8. /\ phase[e] = "send" /\ api' = api
      /\ scheduled' = [scheduled EXCEPT ![e][q] = Tail(@)]
  BY DEF SendScheduled
<1> HIDE DEF p, item, DummyInv
<1>9. network' = network \cup {p}
  BY <1>7 DEF SendPacket
<1>10. ProtocolTypeOK /\ "Heartbeat" \in SentKind
  BY DEF DummyInv, DummyTypeOK, TypeOK, SentKind
<1>11. CASE Exhausts(peers[p.id], p)
  <2>1. /\ phase' = [phase EXCEPT ![e] = "exhausted"]
        /\ connected' = [connected EXCEPT ![e] = peers]
        /\ sent' = [sent EXCEPT ![e] = sent[e]]
    BY <1>7, <1>11 DEF SendPacket
  <2>2. connected' = connected /\ sent' = sent
    BY <1>10, <2>1 DEF ProtocolTypeOK
  <2>3. phase'[e] = "exhausted" /\ \A x \in Endpoint : x # e => phase'[x] = phase[x]
    BY <1>10, <2>1 DEF ProtocolTypeOK
  <2>4. ~Running(e)' /\ "exhausted" \in Stopped
    BY <2>3 DEF Running, Stopped
  <2>5. QED
    BY <1>3, <1>5, <1>6, <1>8, <1>9, <2>2, <2>3, <2>4 DEF p, item
<1>12. CASE ~Exhausts(peers[p.id], p)
  <2>1. /\ phase' = [phase EXCEPT ![e] = "send"]
        /\ connected' = [connected EXCEPT ![e] =
                           IF peers[p.id] # NoPeer /\ EndsGroup(p)
                             THEN [peers EXCEPT ![p.id].sequence = @ + 1] ELSE peers]
        /\ sent' = [sent EXCEPT ![e] =
                      IF DrainOrder[q].reliable
                        THEN [sent[e] EXCEPT ![p.kind] =
                                Append(@, [packet |-> p, time |-> clock[e]])]
                        ELSE sent[e]]
    BY <1>7, <1>12 DEF SendPacket
  <2>2. phase'[e] = "send" /\ \A x \in Endpoint : x # e => phase'[x] = phase[x]
    BY <1>10, <2>1 DEF ProtocolTypeOK
  <2>3. EndsGroup(p)
    BY <1>5 DEF EndsGroup
  <2>4. connected' = [connected EXCEPT ![e] = [connected[e] EXCEPT ![1].sequence = @ + 1]]
    BY <1>3, <1>5, <2>1, <2>3
  <2>5. /\ connected'[e][1] = [peer EXCEPT !.sequence = @ + 1]
        /\ \A x \in Endpoint, id \in ConnectionId :
             x # e \/ id # 1 => connected'[x][id] = connected[x][id]
    BY <1>4, <1>10, <2>4 DEF ProtocolTypeOK
  <2>6. /\ connected'[e][1].address = peer.address
        /\ connected'[e][1].remoteAck = peer.remoteAck
        /\ connected'[e][1].sequence = peer.sequence + 1
    BY <1>4, <2>5 DEF Peer
  <2>7. connected'[e][1] # NoPeer
    <3>1. Exhausts(peer, p) \/ peer.sequence # SequenceLimit
      BY <1>3, <2>3 DEF Exhausts
    <3>2. peer.sequence # SequenceLimit
      BY <1>5, <1>12, <3>1
    <3>3. [peer EXCEPT !.sequence = @ + 1] \in Peer
      BY <1>4, <3>2, NextSequenceType
    <3>4. QED
      BY <2>5, <3>3, NoPeerAssumption
  <2>8. \A x \in Endpoint, kind \in {"DataTransfer", "Fragment"} :
           sent'[x][kind] = sent[x][kind]
    <3>1. \A x \in Endpoint : x # e => sent'[x] = sent[x]
      BY <1>10, <2>1 DEF ProtocolTypeOK
    <3>2. sent'[e] = sent[e] \/
          sent'[e] = [sent[e] EXCEPT !["Heartbeat"] =
                        Append(@, [packet |-> p, time |-> clock[e]])]
      BY <1>5, <1>10, <2>1 DEF ProtocolTypeOK
    <3>3. \A kind \in {"DataTransfer", "Fragment"} : sent'[e][kind] = sent[e][kind]
      BY <1>10, <3>2 DEF ProtocolTypeOK, SentKind
    <3>4. QED
      BY <3>1, <3>3
  <2>9. QED
    BY <1>3, <1>5, <1>6, <1>8, <1>9, <2>2, <2>5, <2>6, <2>7, <2>8 DEF p, item
<1>13. QED
  BY <1>11, <1>12

\* A heartbeat leaves: the other end has one more to handle.
LEMMA HeartbeatInv ==
  ASSUME DummyInv, NEW e \in Endpoint, Poll(e), NEW q \in Queue, NEW peers,
         SendScheduled(e, q, peers), peers = connected[e],
         awaiting'[client][server] = awaiting[client][server],
         UNCHANGED <<awaitingAck, requesting, scheduledRequest, sentRequest,
                     scheduledAccepted, connectionIdTracker, sentAccepted>>,
         e = server => scheduledAccepted[server] = <<>>
  PROVE  DummyInv'
<1> USE DEF DummyInv
<1> DEFINE o == Other(e)
           p == Created(e, q, Head(scheduled[e][q]))
<1>1. DummyTypeOK'
  BY PollType
<1>2. /\ p \in Packet
      /\ p.kind = "Heartbeat" /\ p.src = e /\ p.dst = o /\ p.id = 1
      /\ connected[e][1] # NoPeer
      /\ p.sequence = connected[e][1].sequence
      /\ phase[e] = "send"
      /\ network' = network \cup {p}
      /\ \A x \in Endpoint : x # e => phase'[x] = phase[x]
      /\ phase'[e] \in {"send"} \cup Stopped
      /\ \A x \in Endpoint, id \in ConnectionId :
           x # e \/ id # 1 => connected'[x][id] = connected[x][id]
      /\ connected'[e][1] # NoPeer
      /\ connected'[e][1].address = connected[e][1].address
      /\ connected'[e][1].remoteAck = connected[e][1].remoteAck
      /\ Running(e)' => connected'[e][1].sequence = p.sequence + 1
      /\ api' = api
      /\ \A x \in Endpoint, kind \in {"DataTransfer", "Fragment"} :
           sent'[x][kind] = sent[x][kind]
      /\ scheduled' = [scheduled EXCEPT ![e][q] = Tail(@)]
  BY HeartbeatLeaves
<1> HIDE DEF p
<1>3. /\ o \in Endpoint /\ o # e /\ Other(o) = e /\ \A x \in Endpoint : x = e \/ x = o
      /\ client \in Endpoint /\ server \in Endpoint /\ client # server
      /\ Other(client) = server /\ Other(server) = client
      /\ e = client \/ e = server
  BY OtherOf, TwoEnds
<1>4. Running(e) /\ \A x \in Endpoint : Running(x)' => Running(x)
  BY <1>2 DEF Running, Stopped
<1>5. \A x \in Endpoint : connected'[x][1] # NoPeer <=> connected[x][1] # NoPeer
  BY <1>2, FirstId
<1>6. Partner(e) = connected[e][1] /\ Partner(e)' = connected'[e][1]
  BY <1>2 DEF Partner
<1>7. Partner(o)' = Partner(o)
  BY <1>2, <1>3, FirstId DEF Partner
<1>8. \A x \in Endpoint : LastHandled(x)' = LastHandled(x)
  BY <1>2, <1>3, <1>5, FirstId DEF LastHandled
<1>9. \A x \in Endpoint : HasHeard(x)' => HasHeard(x)
  BY <1>2, <1>3, <1>5, <1>6, <1>7 DEF HasHeard
<1>10. SentTo(o) > 0 /\ SentTo(o) \in Nat /\ p.sequence = SentTo(o) + 1
  <2>1. SentTo(o) > 0 /\ SentTo(o) \in Nat
    BY <1>2, <1>3, SentToType DEF ClientStage, ServerStage
  <2>2. p.sequence = SentTo(o) + 1
    BY <1>2, <1>4, <1>6 DEF PacketsNumbered
  <2>3. QED
    BY <2>1, <2>2
<1>11. WellNumbered(p)
  BY <1>2, <1>10 DEF WellNumbered
<1>12. /\ network' \ network = {p}
       /\ SentTo(o)' = SentTo(o) + 1 /\ SentTo(e)' = SentTo(e)
  BY <1>2, <1>10, Counts
<1>13. Pending(o)' = Pending(o) \o <<p>> /\ Pending(e)' = Pending(e)
  BY <1>1, <1>2, <1>12, PollBoxes
<1>14. PacketsNumbered' /\ NextInOrder'
  <2>1. Running(e)' => Partner(e)'.sequence = p.sequence + 1
    BY <1>2, <1>6
  <2>2. QED
    BY <1>2, <1>4, <1>5, <1>7, <1>8, <1>9, <1>10, <1>11, <1>13, <2>1, Said
<1>15. BatchIsHandled'
  BY <1>2, PollBatch
<1>16. OneLink'
  <2>1. \A x \in Endpoint, id \in ConnectionId :
           /\ connected'[x][id] # NoPeer => connected[x][id] # NoPeer
           /\ connected'[x][id] # NoPeer =>
                 connected'[x][id].address = connected[x][id].address
           /\ connected[x][id] = NoPeer => connected'[x][id] = NoPeer
    BY <1>2
  <2>2. QED
    BY <2>1 DEF OneLink
<1>17. SentTo(o)' > 0 /\ SentTo(e)' = SentTo(e)
  BY <1>10, <1>12
<1>18. ClientStage'
  <2>1. CASE e = client
    <3>1. requesting[client][server] = NoPeer
      BY <1>3, <1>4, <1>10, <2>1 DEF ClientStage
    <3>2. sentRequest'[client] # <<>> => phase'[client] \notin {"app", "retryData"}
      BY <1>2, <2>1 DEF Stopped
    <3>3. SentTo(server)' > 0 /\ SentTo(client)' = SentTo(client)
      BY <1>3, <1>17, <2>1
    <3>4. Partner(client)' # NoPeer /\ connected[client][1] # NoPeer
      BY <1>2, <1>6, <2>1
    <3>5. SentTo(server)' \in Nat
      BY <1>10, <1>12, <1>3, <2>1
    <3>6. QED
      BY <1>3, <1>4, <3>1, <3>2, <3>3, <3>4, <3>5, <2>1 DEF ClientStage
  <2>2. CASE e = server
    <3>1. SentTo(client)' > 0 /\ SentTo(server)' = SentTo(server)
      BY <1>3, <1>17, <2>2
    <3>2. Partner(client)' = Partner(client)
      BY <1>3, <1>7, <2>2
    <3>3. phase'[client] = phase[client]
      BY <1>2, <1>3, <2>2
    <3>4. QED
      BY <1>3, <1>4, <1>5, <3>1, <3>2, <3>3 DEF ClientStage
  <2>3. QED
    BY <1>3, <2>1, <2>2
<1>19. ServerStage'
  <2>1. CASE e = client
    <3>1. SentTo(server)' > 0 /\ SentTo(client)' = SentTo(client)
      BY <1>3, <1>17, <2>1
    <3>2. Partner(server)' = Partner(server)
      BY <1>3, <1>7, <2>1
    <3>3. phase'[server] = phase[server]
      BY <1>2, <1>3, <2>1
    <3>4. QED
      BY <1>3, <1>5, <3>1, <3>2, <3>3 DEF ServerStage
  <2>2. CASE e = server
    <3>1. SentTo(client)' > 0 /\ SentTo(server)' = SentTo(server)
      BY <1>3, <1>17, <2>2
    <3>2. SentTo(server) > 0
      BY <1>2, <1>6, <2>2 DEF ServerStage
    <3>3. Partner(server)' # NoPeer /\ scheduledAccepted'[server] = <<>>
      BY <1>2, <1>6, <2>2
    <3>4. sentAccepted'[server] # <<>> =>
             phase'[server] \notin {"app", "retryData", "retryFragment"}
      BY <1>2, <2>2 DEF Stopped
    <3>5. QED
      BY <3>1, <3>2, <3>3, <3>4 DEF ServerStage
  <2>3. QED
    BY <1>3, <2>1, <2>2
<1>20. OnlyHeartbeats'
  <2>1. ASSUME NEW x \in Endpoint, NEW r \in Queue, NEW i \in DOMAIN scheduled'[x][r]
        PROVE  /\ DrainOrder[r].kind = "Heartbeat"
               /\ scheduled'[x][r][i].id = 1
               /\ scheduled'[x][r][i].address = Other(x)
               /\ connected'[x][1] # NoPeer
    <3> DEFINE old == scheduled[x][r]
    <3>1. old \in Seq(Scheduled)
      BY DEF DummyTypeOK, TypeOK, ProtocolTypeOK
    <3>2. \A k \in DOMAIN old :
             /\ DrainOrder[r].kind = "Heartbeat"
             /\ old[k].id = 1 /\ old[k].address = Other(x)
             /\ connected[x][1] # NoPeer
      BY DEF OnlyHeartbeats
    <3>3. scheduled'[x][r] = old \/ (old # <<>> /\ scheduled'[x][r] = Tail(old))
      <4>1. scheduled[e][q] # <<>>
        BY DEF SendScheduled, NextInLine
      <4>2. scheduled' = [scheduled EXCEPT ![e][q] = Tail(@)]
        BY <1>2
      <4>3. CASE x = e /\ r = q
        <5>1. scheduled'[e][q] = Tail(scheduled[e][q])
          BY <4>2 DEF DummyTypeOK, TypeOK, ProtocolTypeOK
        <5>2. QED
          BY <4>1, <4>3, <5>1
      <4>4. CASE x # e \/ r # q
        BY <4>2, <4>4 DEF DummyTypeOK, TypeOK, ProtocolTypeOK
      <4>5. QED
        BY <4>3, <4>4
    <3> HIDE DEF old
    <3>4. CASE scheduled'[x][r] = old
      BY <1>5, <2>1, <3>2, <3>4
    <3>5. CASE old # <<>> /\ scheduled'[x][r] = Tail(old)
      <4>1. i \in DOMAIN Tail(old)
        BY <2>1, <3>5
      <4>2. i + 1 \in DOMAIN old /\ Tail(old)[i] = old[i + 1]
        <5>1. Len(old) # 0
          BY <3>1, <3>5, EmptySeq
        <5>2. QED
          BY <3>1, <4>1, <5>1
      <4>3. QED
        BY <1>5, <3>2, <3>5, <4>2
    <3>6. QED
      BY <3>3, <3>4, <3>5
  <2>2. QED
    BY <1>2, <2>1 DEF OnlyHeartbeats
<1>21. QED
  BY <1>1, <1>14, <1>15, <1>16, <1>18, <1>19, <1>20

\* The poll_heartbeat loops of both managers.
LEMMA SendHeartbeatInv ==
  ASSUME DummyInv, NEW e \in Endpoint, Poll(e), NEW q \in Queue,
         \/ e = client /\ ClientSend(e, q) /\ UNCHANGED serverVars
         \/ e = server /\ ServerSend(e, q) /\ UNCHANGED clientVars
  PROVE  DummyInv'
<1>1. CASE e = client /\ ClientSend(e, q) /\ UNCHANGED serverVars
  <2> DEFINE item == Head(scheduled[client][q])
  <2>1. SendScheduled(client, q, Promoted(client, item.id, item.address))
    BY <1>1 DEF ClientSend
  <2>2. item.id = 1 /\ item.address = server /\ connected[client][1] # NoPeer
    <3>1. scheduled[client][q] # <<>> /\ scheduled[client][q] \in Seq(Scheduled)
      BY <1>1, <2>1
      DEF SendScheduled, NextInLine, DummyInv, DummyTypeOK, TypeOK, ProtocolTypeOK
    <3>2. Len(scheduled[client][q]) # 0
      BY <3>1, EmptySeq
    <3>3. 1 \in DOMAIN scheduled[client][q] /\ item = scheduled[client][q][1]
      BY <3>1, <3>2
    <3>4. QED
      BY <1>1, <3>3, TwoEnds DEF DummyInv, OnlyHeartbeats
  <2>3. awaiting[client][server] = NoPeer
    BY <2>2 DEF DummyInv, ClientStage
  <2>4. Promoted(client, item.id, item.address) = connected[client]
    BY <2>2, <2>3 DEF Promoted
  <2>5. awaiting' = [awaiting EXCEPT ![client][server] = NoPeer]
    BY <1>1, <2>2 DEF ClientSend, NoLongerAwaiting
  <2>6. awaiting'[client][server] = awaiting[client][server]
    BY <2>3, <2>5, TwoEnds DEF DummyInv, DummyTypeOK, TypeOK, ClientTypeOK
  <2>7. UNCHANGED <<awaitingAck, requesting, scheduledRequest, sentRequest,
                    scheduledAccepted, connectionIdTracker, sentAccepted>>
    BY <1>1 DEF ClientSend, serverVars
  <2> HIDE DEF item
  <2> DEFINE peers == Promoted(client, item.id, item.address)
  <2>8. SendScheduled(e, q, peers) /\ peers = connected[e]
    BY <1>1, <2>1, <2>4
  <2> HIDE DEF peers
  <2>9. QED
    BY <1>1, <2>6, <2>7, <2>8, TwoEnds, HeartbeatInv
<1>2. CASE e = server /\ ServerSend(e, q) /\ UNCHANGED clientVars
  <2>1. SendScheduled(e, q, connected[e]) /\ scheduledAccepted[server] = <<>>
    BY <1>2 DEF ServerSend
  <2>2. UNCHANGED <<awaiting, awaitingAck, requesting, scheduledRequest, sentRequest,
                    scheduledAccepted, connectionIdTracker, sentAccepted>>
    BY <1>2 DEF ServerSend, clientVars, serverVars
  <2>3. QED
    BY <2>1, <2>2, HeartbeatInv
<1>3. QED
  BY <1>1, <1>2

\* The request leaves: the first packet either way.
LEMMA RequestInv ==
  ASSUME DummyInv, Poll(client), SendConnectionRequest(client), UNCHANGED serverVars
  PROVE  DummyInv'
<1> USE DEF DummyInv
<1> DEFINE peer == requesting[client][server]
           p == IntoPacket(client, "ConnectionRequest", HandshakeItem(0, server), peer)
<1>1. /\ client \in Endpoint /\ server \in Endpoint /\ client # server
      /\ Other(client) = server /\ Other(server) = client
      /\ \A x \in Endpoint : x = client \/ x = server
  BY TwoEnds
<1>2. /\ phase[client] = "send" /\ Running(client)
      /\ scheduledRequest[client] = <<server>>
      /\ peer # NoPeer /\ peer.sequence = 1
      /\ SentTo(server) = 0 /\ Partner(client) = NoPeer
  <2>1. phase[client] = "send" /\ scheduledRequest[client] # <<>>
    BY DEF SendConnectionRequest
  <2>2. Running(client)
    BY <2>1 DEF Running, Stopped
  <2>3. QED
    BY <2>1, <2>2 DEF ClientStage
<1>3. connected[client][1] = NoPeer /\ awaiting[client][server] = NoPeer
  BY <1>2 DEF Partner
<1>4. sentRequest[client] = <<>>
  BY <1>2 DEF ClientStage
<1>5. peer \in Peer
  BY <1>1, <1>2, TwoEnds DEF DummyTypeOK, TypeOK, ClientTypeOK
<1>6. Head(scheduledRequest[client]) = server /\ Tail(scheduledRequest[client]) = <<>>
  BY <1>2
<1>7. /\ SendRequest(client, p, sentRequest[client], "send")
      /\ scheduledRequest' = [scheduledRequest EXCEPT ![client] = Tail(@)]
      /\ UNCHANGED <<connected, scheduled, sent, api, awaitingAck, connectionIdTracker,
                     scheduledAccepted, sentAccepted>>
  BY <1>2, <1>6 DEF SendConnectionRequest, serverVars
<1>8. /\ p.kind = "ConnectionRequest" /\ p.src = client /\ p.dst = server /\ p.id = 0
      /\ p.sequence = 1
  BY <1>2 DEF IntoPacket, HandshakeItem
<1>9. p \in Packet
  <2>1. peer.sequence \in Sequence /\ peer.remoteAck \in Ack
    BY <1>5 DEF Peer
  <2>2. 0 \in 0 .. ConnectionIdLimit /\ 0 \in PacketId /\ 0 \in FragmentByte /\ 1 \in FragmentByte
    BY WidthAssumption DEF PacketId, FragmentByte
  <2>3. "ConnectionRequest" \in Kind
    BY DEF Kind
  <2> HIDE DEF peer
  <2>4. QED
    BY <1>1, <2>1, <2>2, <2>3, MadePacket DEF IntoPacket, HandshakeItem
<1> HIDE DEF p
<1>10. DummyTypeOK'
  BY <1>1, PollType
<1>11. network' = network \cup {p}
  BY <1>7 DEF SendRequest
<1>12. /\ network' \ network = {p}
       /\ SentTo(server)' = 1 /\ SentTo(client)' = SentTo(client)
  BY <1>1, <1>2, <1>8, <1>9, <1>11, Counts
<1>13. Pending(server)' = Pending(server) \o <<p>> /\ Pending(client)' = Pending(client)
  BY <1>1, <1>9, <1>10, <1>12, PollBoxes
<1>14. scheduledRequest'[client] = <<>>
  BY <1>6, <1>7, TwoEnds DEF DummyTypeOK, TypeOK, ClientTypeOK
<1>15. /\ \A x \in Endpoint : x # client => phase'[x] = phase[x]
       /\ \/ /\ phase'[client] = "exhausted"
             /\ sentRequest'[client] = <<>>
             /\ UNCHANGED <<requesting, awaiting>>
          \/ /\ phase'[client] = "send"
             /\ requesting'[client][server] = NoPeer
             /\ awaiting'[client][server] # NoPeer
             /\ awaiting'[client][server].sequence = 2
             /\ awaiting'[client][server].address = server
             /\ Len(sentRequest'[client]) = 1
  <2>1. p.dst = server /\ requesting[client][p.dst] # NoPeer
    BY <1>2, <1>8
  <2>2. CASE peer.sequence = SequenceLimit
    <3>1. /\ phase' = [phase EXCEPT ![client] = "exhausted"]
          /\ sentRequest' = [sentRequest EXCEPT ![client] = sentRequest[client]]
          /\ UNCHANGED <<requesting, awaiting>>
      BY <1>7, <2>1, <2>2 DEF SendRequest
    <3>2. QED
      BY <1>1, <1>4, <3>1, TwoEnds
      DEF DummyTypeOK, TypeOK, ProtocolTypeOK, ClientTypeOK
  <2>3. CASE peer.sequence # SequenceLimit
    <3> DEFINE next == [peer EXCEPT !.sequence = @ + 1]
               kept == [packet |-> p, time |-> clock[client]]
    <3>1. /\ phase' = [phase EXCEPT ![client] = "send"]
          /\ requesting' = [requesting EXCEPT ![client][server] = NoPeer]
          /\ awaiting' = [awaiting EXCEPT ![client][server] = next]
          /\ sentRequest' = [sentRequest EXCEPT ![client] =
                               Append(sentRequest[client], kept)]
      BY <1>7, <2>1, <2>3 DEF SendRequest
    <3>2. next \in Peer /\ next.sequence = 2 /\ next.address = server
      <4>1. peer.address = server
        BY <1>2 DEF ClientStage
      <4>2. QED
        BY <1>2, <1>5, <2>3, <4>1, NextSequenceType DEF Peer
    <3> HIDE DEF next, kept
    <3>3. /\ phase'[client] = "send" /\ \A x \in Endpoint : x # client => phase'[x] = phase[x]
      BY <1>1, <3>1 DEF DummyTypeOK, TypeOK, ProtocolTypeOK
    <3>4. requesting'[client][server] = NoPeer /\ awaiting'[client][server] = next
      BY <1>1, <3>1, TwoEnds DEF DummyTypeOK, TypeOK, ClientTypeOK
    <3>5. Len(sentRequest'[client]) = 1
      <4>1. sentRequest'[client] = Append(<<>>, kept)
        BY <1>4, <3>1, TwoEnds DEF DummyTypeOK, TypeOK, ClientTypeOK
      <4>2. QED
        BY <4>1
    <3>6. QED
      BY <3>2, <3>3, <3>4, <3>5, NoPeerAssumption
  <2>4. QED
    BY <2>2, <2>3
<1>16. Running(client)' => phase'[client] = "send"
  BY <1>15 DEF Running, Stopped
<1>17. \A x \in Endpoint : Running(x)' => Running(x)
  BY <1>1, <1>2, <1>15 DEF Running
<1>18. Running(client)' =>
          /\ Partner(client)' # NoPeer /\ Partner(client)'.sequence = 2
          /\ requesting'[client][server] = NoPeer
  BY <1>3, <1>7, <1>15, <1>16 DEF Partner
<1>19. Partner(server)' = Partner(server)
  BY <1>1, <1>7 DEF Partner
<1>20. PacketsNumbered' /\ NextInOrder'
  <2>1. WellNumbered(p)
    BY <1>1, <1>8 DEF WellNumbered
  <2>2. \A x \in Endpoint : LastHandled(x)' = LastHandled(x)
    BY <1>7 DEF LastHandled
  <2>3. \A x \in Endpoint : HasHeard(x)' => HasHeard(x)
    BY <1>1, <1>3, <1>7, <1>19 DEF HasHeard
  <2>4. \A x \in Endpoint : connected[x][1] # NoPeer => connected'[x][1] # NoPeer
    BY <1>7
  <2>5. Running(client)' => Partner(client)'.sequence = p.sequence + 1
    BY <1>8, <1>18
  <2>6. p.sequence = SentTo(Other(client)) + 1
    BY <1>1, <1>2, <1>8
  <2>7. QED
    BY <1>1, <1>8, <1>9, <1>11, <1>13, <1>17, <1>19, <2>1, <2>2, <2>3, <2>4, <2>5, <2>6,
       Said
<1>21. BatchIsHandled'
  BY <1>1, <1>2, <1>15, PollBatch
<1>22. OneLink'
  BY <1>7 DEF OneLink
<1>23. ClientStage'
  <2>1. sentRequest'[client] # <<>> =>
           phase'[client] \notin {"app", "retryData"} /\ Len(sentRequest'[client]) = 1
    BY <1>15
  <2>2. connected'[client][1] = NoPeer /\ SentTo(server)' > 0 /\ SentTo(server)' # 0
    BY <1>3, <1>7, <1>12
  <2>3. Running(client)' =>
           /\ requesting'[client][server] = NoPeer
           /\ scheduledRequest'[client] = <<>>
           /\ Partner(client)' # NoPeer
    BY <1>14, <1>18
  <2>4. \A x \in {requesting'[client][server], awaiting'[client][server]} :
           x # NoPeer => x.address = server
    BY <1>15 DEF ClientStage
  <2>5. QED
    BY <2>1, <2>2, <2>3, <2>4 DEF ClientStage
<1>24. ServerStage'
  BY <1>1, <1>7, <1>12, <1>15, <1>19 DEF ServerStage
<1>25. OnlyHeartbeats'
  BY <1>7 DEF OnlyHeartbeats
<1>26. QED
  BY <1>10, <1>20, <1>21, <1>22, <1>23, <1>24, <1>25

\* The accept leaves: the first packet the other way.
LEMMA AcceptInv ==
  ASSUME DummyInv, Poll(server), SendConnectionAccepted(server), UNCHANGED clientVars
  PROVE  DummyInv'
<1> USE DEF DummyInv
<1> DEFINE peer == awaitingAck[server][1]
           p == IntoPacket(server, "ConnectionAccepted", HandshakeItem(1, client), peer)
<1>1. /\ client \in Endpoint /\ server \in Endpoint /\ client # server
      /\ Other(client) = server /\ Other(server) = client
      /\ \A x \in Endpoint : x = client \/ x = server
  BY TwoEnds
<1>2. /\ phase[server] = "send" /\ Running(server)
      /\ scheduledAccepted[server] = << [id |-> 1, address |-> client] >>
      /\ SentTo(client) = 0 /\ Partner(server) # NoPeer
  <2>1. phase[server] = "send" /\ scheduledAccepted[server] # <<>>
    BY DEF SendConnectionAccepted
  <2>2. Running(server)
    BY <2>1 DEF Running, Stopped
  <2>3. QED
    BY <2>1, <2>2 DEF ServerStage
<1>3. connected[server][1] = NoPeer /\ peer # NoPeer /\ Partner(server) = peer
  <2>1. connected[server][1] = NoPeer
    BY <1>2 DEF ServerStage
  <2>2. QED
    BY <1>1, <1>2, <2>1 DEF Partner
<1>4. sentAccepted[server] = <<>> /\ SentTo(server) > 0
  BY <1>2 DEF ServerStage
<1>5. peer \in Peer /\ peer.sequence = 1
  <2>1. peer \in Peer
    BY <1>3, FirstId, TwoEnds DEF DummyTypeOK, TypeOK, ServerTypeOK
  <2>2. peer.sequence = SentTo(client) + 1
    BY <1>1, <1>2, <1>3 DEF PacketsNumbered
  <2>3. QED
    BY <1>2, <2>1, <2>2
<1>6. /\ Head(scheduledAccepted[server]).id = 1
      /\ Head(scheduledAccepted[server]).address = client
      /\ Tail(scheduledAccepted[server]) = <<>>
  BY <1>2
<1>7. /\ SendAccepted(server, p, sentAccepted[server], "send")
      /\ scheduledAccepted' = [scheduledAccepted EXCEPT ![server] = Tail(@)]
      /\ UNCHANGED <<connected, scheduled, sent, api, connectionIdTracker,
                     requesting, awaiting, scheduledRequest, sentRequest>>
  BY <1>3, <1>6 DEF SendConnectionAccepted, clientVars
<1>8. /\ p.kind = "ConnectionAccepted" /\ p.src = server /\ p.dst = client /\ p.id = 1
      /\ p.sequence = 1
  BY <1>5 DEF IntoPacket, HandshakeItem
<1>9. p \in Packet
  <2>1. peer.sequence \in Sequence /\ peer.remoteAck \in Ack
    BY <1>5 DEF Peer
  <2>2. 1 \in 0 .. ConnectionIdLimit /\ 0 \in PacketId /\ 0 \in FragmentByte /\ 1 \in FragmentByte
    BY WidthAssumption DEF PacketId, FragmentByte
  <2>3. "ConnectionAccepted" \in Kind
    BY DEF Kind
  <2> HIDE DEF peer
  <2>4. QED
    BY <1>1, <2>1, <2>2, <2>3, MadePacket DEF IntoPacket, HandshakeItem
<1> HIDE DEF p
<1>10. DummyTypeOK'
  BY <1>1, PollType
<1>11. network' = network \cup {p}
  BY <1>7 DEF SendAccepted
<1>12. /\ network' \ network = {p}
       /\ SentTo(client)' = 1 /\ SentTo(server)' = SentTo(server)
  BY <1>1, <1>2, <1>8, <1>9, <1>11, Counts
<1>13. Pending(client)' = Pending(client) \o <<p>> /\ Pending(server)' = Pending(server)
  BY <1>1, <1>9, <1>10, <1>12, PollBoxes
<1>14. scheduledAccepted'[server] = <<>>
  BY <1>6, <1>7, TwoEnds DEF DummyTypeOK, TypeOK, ServerTypeOK
<1>15. /\ \A x \in Endpoint : x # server => phase'[x] = phase[x]
       /\ \A id \in ConnectionId : id # 1 => awaitingAck'[server][id] = awaitingAck[server][id]
       /\ awaitingAck'[server][1] # NoPeer
       /\ awaitingAck'[server][1].address = peer.address
       /\ awaitingAck'[server][1].remoteAck = peer.remoteAck
       /\ \/ /\ phase'[server] = "exhausted"
             /\ sentAccepted'[server] = <<>>
          \/ /\ phase'[server] = "send"
             /\ awaitingAck'[server][1].sequence = 2
             /\ Len(sentAccepted'[server]) = 1
  <2>1. p.id = 1 /\ awaitingAck[server][p.id] # NoPeer
    BY <1>3, <1>8
  <2>2. CASE peer.sequence = SequenceLimit
    <3>1. /\ phase' = [phase EXCEPT ![server] = "exhausted"]
          /\ sentAccepted' = [sentAccepted EXCEPT ![server] = sentAccepted[server]]
          /\ UNCHANGED awaitingAck
      BY <1>7, <2>1, <2>2 DEF SendAccepted
    <3>2. QED
      BY <1>1, <1>3, <1>4, <3>1, TwoEnds
      DEF DummyTypeOK, TypeOK, ProtocolTypeOK, ServerTypeOK
  <2>3. CASE peer.sequence # SequenceLimit
    <3> DEFINE next == [peer EXCEPT !.sequence = @ + 1]
               kept == [packet |-> p, time |-> clock[server]]
    <3>1. /\ phase' = [phase EXCEPT ![server] = "send"]
          /\ awaitingAck' = [awaitingAck EXCEPT ![server][1].sequence = @ + 1]
          /\ sentAccepted' = [sentAccepted EXCEPT ![server] =
                                Append(sentAccepted[server], kept)]
      BY <1>7, <2>1, <2>3 DEF SendAccepted
    <3>2. /\ next \in Peer /\ next.sequence = 2
          /\ next.address = peer.address /\ next.remoteAck = peer.remoteAck
      BY <1>5, <2>3, NextSequenceType DEF Peer
    <3>3. /\ awaitingAck'[server][1] = next
          /\ \A id \in ConnectionId : id # 1 => awaitingAck'[server][id] = awaitingAck[server][id]
      BY <3>1, FirstId, TwoEnds DEF DummyTypeOK, TypeOK, ServerTypeOK
    <3> HIDE DEF next, kept
    <3>4. /\ phase'[server] = "send" /\ \A x \in Endpoint : x # server => phase'[x] = phase[x]
      BY <1>1, <3>1 DEF DummyTypeOK, TypeOK, ProtocolTypeOK
    <3>5. Len(sentAccepted'[server]) = 1
      <4>1. sentAccepted'[server] = Append(<<>>, kept)
        BY <1>4, <3>1, TwoEnds DEF DummyTypeOK, TypeOK, ServerTypeOK
      <4>2. QED
        BY <4>1
    <3>6. QED
      BY <3>2, <3>3, <3>4, <3>5, NoPeerAssumption
  <2>4. QED
    BY <2>2, <2>3
<1>16. Running(server)' => phase'[server] = "send" /\ awaitingAck'[server][1].sequence = 2
  BY <1>15 DEF Running, Stopped
<1>17. \A x \in Endpoint : Running(x)' => Running(x)
  BY <1>1, <1>2, <1>15 DEF Running
<1>18. Partner(server)' = awaitingAck'[server][1] /\ Partner(client)' = Partner(client)
  BY <1>1, <1>3, <1>7 DEF Partner
<1>19. PacketsNumbered' /\ NextInOrder'
  <2>1. WellNumbered(p)
    BY <1>1, <1>8 DEF WellNumbered
  <2>2. \A x \in Endpoint : LastHandled(x)' = LastHandled(x)
    BY <1>1, <1>3, <1>7, <1>15 DEF LastHandled
  <2>3. \A x \in Endpoint : HasHeard(x)' => HasHeard(x)
    BY <1>1, <1>2, <1>7, <1>18 DEF HasHeard
  <2>4. \A x \in Endpoint : connected[x][1] # NoPeer => connected'[x][1] # NoPeer
    BY <1>7
  <2>5. Running(server)' => Partner(server)'.sequence = p.sequence + 1
    BY <1>8, <1>16, <1>18
  <2>6. p.sequence = SentTo(Other(server)) + 1
    BY <1>1, <1>2, <1>8
  <2>7. QED
    BY <1>1, <1>8, <1>9, <1>11, <1>13, <1>17, <1>18, <2>1, <2>2, <2>3, <2>4, <2>5, <2>6,
       Said
<1>20. BatchIsHandled'
  BY <1>1, <1>2, <1>15, PollBatch
<1>21. OneLink'
  BY <1>1, <1>3, <1>7, <1>15 DEF OneLink
<1>22. ClientStage'
  <2>1. Running(client)' => Running(client)
    BY <1>1, <1>17
  <2>2. phase'[client] = phase[client]
    BY <1>1, <1>15
  <2>3. SentTo(client)' > 0
    BY <1>12
  <2>4. QED
    BY <1>7, <1>12, <1>18, <2>1, <2>2, <2>3 DEF ClientStage
<1>23. ServerStage'
  <2>1. sentAccepted'[server] # <<>> =>
           /\ phase'[server] \notin {"app", "retryData", "retryFragment"}
           /\ Len(sentAccepted'[server]) = 1
    BY <1>15
  <2>2. SentTo(client)' > 0 /\ SentTo(server)' > 0
    BY <1>4, <1>12
  <2>3. Partner(server)' # NoPeer /\ scheduledAccepted'[server] = <<>>
    BY <1>14, <1>15, <1>18
  <2>4. QED
    BY <2>1, <2>2, <2>3 DEF ServerStage
<1>24. OnlyHeartbeats'
  BY <1>7 DEF OnlyHeartbeats
<1>25. QED
  BY <1>10, <1>19, <1>20, <1>21, <1>22, <1>23, <1>24

\* What handling a packet does not touch.
LEMMA HandleFrame ==
  ASSUME DummyInv, NEW e \in Endpoint, Handle(e)
  PROVE  /\ turn[e] = "poll" /\ Running(e)
         /\ phase[e] \in {"send", "poll"}
         /\ inbox[e] # <<>>
         /\ inbox' = [inbox EXCEPT ![e] = Tail(@)]
         /\ UNCHANGED <<network, scheduled, sent, turn, outbox, channel>>
         /\ Pending(e) # <<>>
         /\ Head(Pending(e)) = Head(inbox[e])
         /\ Pending(e)' = Tail(Pending(e))
         /\ Pending(Other(e))' = Pending(Other(e))
         /\ DummyTypeOK'
         /\ BatchIsHandled'
<1> USE DEF DummyInv
<1>1. /\ turn[e] = "poll" /\ phase[e] \in {"send", "poll"} /\ inbox[e] # <<>>
      /\ inbox' = [inbox EXCEPT ![e] = Tail(@)]
      /\ UNCHANGED <<network, scheduled, sent, turn, outbox, channel>>
  BY DEF Handle, Drained
<1>2. Running(e)
  BY <1>1 DEF Running, Stopped
<1>3. /\ Pending(e) # <<>>
      /\ Head(Pending(e)) = Head(inbox[e])
      /\ Pending(e)' = Tail(Pending(e))
      /\ Pending(Other(e))' = Pending(Other(e))
  BY <1>1, PendingHeard
<1>4. Head(inbox[e]) \in network
  BY <1>2, <1>3, NextPacket
<1>5. DummyTypeOK'
  BY <1>4, HandleType
<1>6. \A x \in Endpoint : x # e => phase'[x] = phase[x]
  <2>1. CASE e = client
    <3>1. Returns(client)
      BY <2>1, TwoEnds DEF Handle
    <3>2. QED
      BY <2>1, <3>1 DEF Returns, DummyTypeOK, TypeOK, ProtocolTypeOK
  <2>2. CASE e = server
    <3>1. ServerOnReceived(server, Head(inbox[server]))
      BY <2>2, TwoEnds DEF Handle
    <3>2. Returns(server) \/ phase' = [phase EXCEPT ![server] = "exhausted"]
      <4>1. WellNumbered(Head(inbox[server]))
        BY <1>2, <1>3, <2>2, NextPacket
      <4>2. Head(inbox[server]).kind \in
               {"Heartbeat", "ConnectionRequest", "ConnectionAccepted"}
        BY <4>1 DEF WellNumbered
      <4>3. QED
        BY <3>1, <4>2 DEF ServerOnReceived, OnConnectionRequest, Refused,
                          ServerOnHeartbeat, AckPeer
    <3>3. QED
      BY <2>2, <3>2 DEF Returns, DummyTypeOK, TypeOK, ProtocolTypeOK
  <2>3. QED
    BY <2>1, <2>2, TwoEnds
<1>7. BatchIsHandled'
  BY <1>1, <1>6 DEF BatchIsHandled, DummyTypeOK
<1>8. QED
  BY <1>1, <1>2, <1>3, <1>5, <1>7

\* The client handles the accept, or a heartbeat: it is connected.
LEMMA HandleClientInv ==
  ASSUME DummyInv, Handle(client)
  PROVE  DummyInv'
<1> USE DEF DummyInv
<1> DEFINE p == Head(inbox[client])
           peer == Partner(client)
<1>1. /\ client \in Endpoint /\ server \in Endpoint /\ client # server
      /\ Other(client) = server /\ Other(server) = client
      /\ \A x \in Endpoint : x = client \/ x = server
  BY TwoEnds
<1>2. /\ Running(client) /\ phase[client] \in {"send", "poll"}
      /\ UNCHANGED <<network, scheduled, sent>>
      /\ Pending(client) # <<>> /\ Head(Pending(client)) = p
      /\ Pending(client)' = Tail(Pending(client)) /\ Pending(server)' = Pending(server)
      /\ DummyTypeOK' /\ BatchIsHandled'
  BY <1>1, HandleFrame
<1>3. /\ p \in network /\ WellNumbered(p) /\ p.src = server
      /\ p.sequence = LastHandled(client) + 1 /\ SentTo(client) > 0
  BY <1>1, <1>2, NextPacket
<1>4. Returns(client) /\ ClientOnReceived(client, p) /\ UNCHANGED serverVars
  BY <1>1 DEF Handle
<1>5. p \in Packet /\ client \in Clients /\ server \in Servers
  BY <1>3, TwoEnds DEF DummyTypeOK, TypeOK, ProtocolTypeOK
<1> HIDE DEF p
<1>6. /\ phase'[client] = "poll" /\ phase'[server] = phase[server]
      /\ Running(server)' = Running(server)
  BY <1>1, <1>4 DEF Returns, Running, DummyTypeOK, TypeOK, ProtocolTypeOK
<1>7. /\ UNCHANGED <<requesting, scheduledRequest, sentRequest, awaitingAck,
                     connectionIdTracker, scheduledAccepted, sentAccepted>>
  BY <1>4 DEF ClientOnReceived, serverVars
<1>8. /\ SentTo(server) > 0 /\ SentTo(server) \in Nat
      /\ requesting[client][server] = NoPeer /\ peer # NoPeer
  <2>1. Partner(server) # NoPeer
    BY <1>3 DEF ServerStage
  <2>2. SentTo(server) > 0 /\ SentTo(server) \in Nat
    BY <1>1, <2>1, SentToType DEF ServerStage
  <2>3. QED
    BY <1>2, <2>2 DEF ClientStage
<1>9. peer \in Peer /\ peer.address = server
  <2>1. CASE connected[client][1] # NoPeer
    BY <1>1, <2>1, FirstId DEF Partner, OneLink, DummyTypeOK, TypeOK, ProtocolTypeOK
  <2>2. CASE connected[client][1] = NoPeer
    BY <1>1, <1>5, <1>8, <2>2 DEF Partner, ClientStage, DummyTypeOK, TypeOK, ClientTypeOK
  <2>3. QED
    BY <2>1, <2>2
<1>10. LastHandled(client) \in Nat
  BY <1>1, LastHandledType
<1>11. /\ connected'[client][1] = Acked(peer, p)
       /\ \A x \in Endpoint, id \in ConnectionId :
             x # client \/ id # 1 => connected'[x][id] = connected[x][id]
       /\ awaiting'[client][server] = NoPeer
       /\ UNCHANGED api
  <2>1. CASE connected[client][1] = NoPeer
    <3>1. p.sequence = 1
      BY <1>1, <1>3, <2>1 DEF LastHandled
    <3>2. p.kind = "ConnectionAccepted" /\ p.id = 1
      BY <1>1, <1>3, <3>1 DEF WellNumbered
    <3>3. peer = awaiting[client][server]
      BY <2>1 DEF Partner
    <3>4. OnConnectionAccepted(client, p)
      BY <1>4, <3>2 DEF ClientOnReceived
    <3>5. Establish(client, p) /\ UNCHANGED api
      BY <1>3, <1>8, <2>1, <3>2, <3>3, <3>4 DEF OnConnectionAccepted
    <3> HIDE DEF peer
    <3>6. /\ connected' = [connected EXCEPT ![client][1] = Acked(peer, p)]
          /\ awaiting' = [awaiting EXCEPT ![client][server] = NoPeer]
      BY <1>3, <3>2, <3>3, <3>5 DEF Establish, NoLongerAwaiting
    <3>7. QED
      BY <1>1, <1>5, <3>5, <3>6, FirstId
      DEF DummyTypeOK, TypeOK, ProtocolTypeOK, ClientTypeOK
  <2>2. CASE connected[client][1] # NoPeer
    <3>1. LastHandled(client) > 0
      BY <1>1, <1>2, <1>8, <2>2 DEF NextInOrder
    <3>2. p.kind = "Heartbeat" /\ p.id = 1
      BY <1>3, <1>10, <3>1 DEF WellNumbered
    <3>3. peer = connected[client][1]
      BY <2>2 DEF Partner
    <3>4. OnHeartbeat(client, p)
      BY <1>4, <3>2 DEF ClientOnReceived
    <3>5. AckConnected(client, p) /\ UNCHANGED api
      BY <2>2, <3>2, <3>4 DEF OnHeartbeat
    <3> HIDE DEF peer
    <3>6. connected' = [connected EXCEPT ![client][1] = Acked(@, p)] /\ UNCHANGED awaiting
      BY <3>2, <3>5 DEF AckConnected
    <3>7. awaiting'[client][server] = NoPeer
      BY <2>2, <3>6 DEF ClientStage
    <3>8. QED
      BY <1>1, <3>3, <3>5, <3>6, <3>7, FirstId DEF DummyTypeOK, TypeOK, ProtocolTypeOK
  <2>3. QED
    BY <2>1, <2>2
<1>12. /\ Acked(peer, p) # NoPeer
       /\ Acked(peer, p).address = server
       /\ Acked(peer, p).sequence = peer.sequence
       /\ Acked(peer, p).remoteAck = p.sequence
  <2>1. Acked(peer, p) \in Peer
    BY <1>5, <1>9, AckedType
  <2> HIDE DEF peer
  <2>2. QED
    BY <1>9, <2>1, NoPeerAssumption DEF Acked, Peer
<1>13. Partner(client)' = Acked(peer, p) /\ LastHandled(client)' = LastHandled(client) + 1
  <2> HIDE DEF peer
  <2>1. QED
    BY <1>3, <1>11, <1>12 DEF Partner, LastHandled
<1>14. /\ Partner(server)' = Partner(server)
       /\ LastHandled(server)' = LastHandled(server)
       /\ HasHeard(server)' = HasHeard(server)
  BY <1>1, <1>7, <1>11, FirstId DEF Partner, LastHandled, HasHeard
<1>15. PacketsNumbered' /\ NextInOrder'
  <2>1. peer.sequence = SentTo(server) + 1
    BY <1>1, <1>2, <1>8 DEF PacketsNumbered
  <2>2. Partner(client)'.sequence = SentTo(Other(client)) + 1
    BY <1>1, <1>12, <1>13, <2>1
  <2>3. \A x \in Endpoint : connected[x][1] # NoPeer => connected'[x][1] # NoPeer
    BY <1>1, <1>11, <1>12, FirstId
  <2>4. \A x \in Endpoint : Running(x)' => Running(x)
    BY <1>1, <1>2, <1>6
  <2> HIDE DEF peer
  <2>5. QED
    BY <1>1, <1>2, <1>13, <1>14, <2>2, <2>3, <2>4, Handled
<1>16. OneLink'
  <2>1. \A x \in Endpoint, id \in ConnectionId :
           \/ x = client /\ id = 1
           \/ connected'[x][id] = connected[x][id]
    BY <1>11
  <2>2. connected'[client][1].address = server
    BY <1>11, <1>12
  <2> HIDE DEF peer
  <2>3. QED
    BY <1>1, <1>7, <2>1, <2>2 DEF OneLink
<1>17. SentTo(server)' = SentTo(server) /\ SentTo(client)' = SentTo(client)
  BY <1>2 DEF SentTo
<1>18. ClientStage'
  <2>1. Partner(client)' # NoPeer
    BY <1>12, <1>13
  <2>2. scheduledRequest[client] = <<>>
    BY <1>2, <1>8 DEF ClientStage
  <2> HIDE DEF peer
  <2>3. QED
    BY <1>3, <1>6, <1>7, <1>8, <1>11, <1>17, <2>1, <2>2 DEF ClientStage
<1>19. ServerStage'
  BY <1>1, <1>6, <1>7, <1>11, <1>14, <1>17, FirstId DEF ServerStage
<1>20. OnlyHeartbeats'
  <2>1. \A x \in Endpoint : connected[x][1] # NoPeer => connected'[x][1] # NoPeer
    BY <1>1, <1>11, <1>12, FirstId
  <2>2. QED
    BY <1>2, <1>11, <2>1 DEF OnlyHeartbeats
<1>21. QED
  BY <1>2, <1>15, <1>16, <1>18, <1>19, <1>20

\* The server handles the request: it grants the only id, or has none to grant.
LEMMA HandleRequestInv ==
  ASSUME DummyInv, Handle(server), Partner(server) = NoPeer
  PROVE  DummyInv'
<1> USE DEF DummyInv
<1> DEFINE p == Head(inbox[server])
<1>1. /\ client \in Endpoint /\ server \in Endpoint /\ client # server
      /\ Other(client) = server /\ Other(server) = client
      /\ \A x \in Endpoint : x = client \/ x = server
  BY TwoEnds
<1>2. /\ Running(server) /\ phase[server] \in {"send", "poll"}
      /\ UNCHANGED <<network, scheduled, sent>>
      /\ Pending(server) # <<>> /\ Head(Pending(server)) = p
      /\ Pending(server)' = Tail(Pending(server)) /\ Pending(client)' = Pending(client)
      /\ DummyTypeOK' /\ BatchIsHandled'
  BY <1>1, HandleFrame
<1>3. /\ p \in network /\ WellNumbered(p) /\ p.src = client
      /\ p.sequence = LastHandled(server) + 1 /\ SentTo(server) > 0
  BY <1>1, <1>2, NextPacket
<1>4. ServerOnReceived(server, p) /\ UNCHANGED clientVars
  BY <1>1 DEF Handle
<1>5. p \in Packet /\ client \in Clients /\ server \in Servers
  BY <1>3, TwoEnds DEF DummyTypeOK, TypeOK, ProtocolTypeOK
<1> HIDE DEF p
<1>6. UNCHANGED <<requesting, awaiting, scheduledRequest, sentRequest, sentAccepted>>
  BY <1>4 DEF ServerOnReceived, clientVars
<1>7. connected[server][1] = NoPeer /\ awaitingAck[server][1] = NoPeer
  BY <1>1 DEF Partner
<1>8. p.sequence = 1 /\ p.kind = "ConnectionRequest"
  <2>1. LastHandled(server) = 0
    BY <1>7 DEF LastHandled
  <2>2. p.sequence = 1
    BY <1>3, <2>1
  <2>3. QED
    BY <1>3, <2>2 DEF WellNumbered
<1>9. OnConnectionRequest(server, p)
  BY <1>4, <1>8 DEF ServerOnReceived
<1>10. ~ConnectionRequestAnotherState(server, client)
  BY <1>1, <1>7 DEF ConnectionRequestAnotherState, OneLink
<1>11. /\ connectionIdTracker[server] = 1 /\ scheduledAccepted[server] = <<>>
       /\ SentTo(client) = 0 /\ sentAccepted[server] = <<>>
  BY DEF ServerStage
<1>12. /\ UNCHANGED <<connected, api>>
       /\ \/ /\ phase' = [phase EXCEPT ![server] = "exhausted"]
             /\ UNCHANGED <<awaitingAck, connectionIdTracker, scheduledAccepted>>
          \/ /\ phase' = [phase EXCEPT ![server] = "poll"]
             /\ scheduledAccepted'[server] = << [id |-> 1, address |-> client] >>
             /\ awaitingAck'[server][1] = NewPeer(client, 1)
             /\ \A id \in ConnectionId : id # 1 => awaitingAck'[server][id] = NoPeer
  <2>1. CASE connectionIdTracker[server] = ConnectionIdLimit
    BY <1>3, <1>9, <1>10, <2>1 DEF OnConnectionRequest
  <2>2. CASE connectionIdTracker[server] # ConnectionIdLimit
    <3> DEFINE item == [id |-> 1, address |-> client]
               new == NewPeer(client, 1)
    <3>1. /\ Returns(server)
          /\ scheduledAccepted' = [scheduledAccepted EXCEPT ![server] = Append(@, item)]
          /\ awaitingAck' = [awaitingAck EXCEPT ![server][1] = new]
          /\ UNCHANGED <<connected, api>>
      BY <1>3, <1>8, <1>9, <1>10, <1>11, <2>2 DEF OnConnectionRequest
    <3> HIDE DEF item, new
    <3>2. scheduledAccepted'[server] = <<item>>
      <4>1. scheduledAccepted'[server] = Append(<<>>, item)
        BY <1>5, <1>11, <3>1 DEF DummyTypeOK, TypeOK, ServerTypeOK
      <4>2. QED
        BY <4>1
    <3>3. /\ awaitingAck'[server][1] = new
          /\ \A id \in ConnectionId : id # 1 => awaitingAck'[server][id] = awaitingAck[server][id]
      BY <1>5, <3>1, FirstId DEF DummyTypeOK, TypeOK, ServerTypeOK
    <3>4. \A id \in ConnectionId : id # 1 => awaitingAck[server][id] = NoPeer
      BY <1>1 DEF OneLink
    <3>5. QED
      BY <3>1, <3>2, <3>3, <3>4 DEF Returns, item, new
  <2>3. QED
    BY <2>1, <2>2
<1>13. \A x \in Endpoint : x # server => phase'[x] = phase[x]
  BY <1>12 DEF DummyTypeOK, TypeOK, ProtocolTypeOK
<1>14. /\ NewPeer(client, 1) # NoPeer
       /\ NewPeer(client, 1).address = client
       /\ NewPeer(client, 1).sequence = 1
       /\ NewPeer(client, 1).remoteAck = 1
  <2>1. NewPeer(client, 1) \in Peer
    BY <1>1, NewPeerType, WidthAssumption DEF Ack
  <2>2. QED
    BY <2>1, NoPeerAssumption DEF NewPeer
<1>15. \/ /\ phase'[server] = "exhausted" /\ ~Running(server)'
          /\ UNCHANGED <<awaitingAck, connectionIdTracker, scheduledAccepted>>
       \/ /\ phase'[server] = "poll"
          /\ Partner(server)' = NewPeer(client, 1)
          /\ LastHandled(server)' = 1
          /\ scheduledAccepted'[server] = << [id |-> 1, address |-> client] >>
          /\ awaitingAck'[server][1] = NewPeer(client, 1)
          /\ \A id \in ConnectionId : id # 1 => awaitingAck'[server][id] = NoPeer
  <2>1. CASE /\ phase' = [phase EXCEPT ![server] = "exhausted"]
             /\ UNCHANGED <<awaitingAck, connectionIdTracker, scheduledAccepted>>
    <3>1. phase'[server] = "exhausted"
      BY <1>1, <2>1 DEF DummyTypeOK, TypeOK, ProtocolTypeOK
    <3>2. QED
      BY <2>1, <3>1 DEF Running, Stopped
  <2>2. CASE /\ phase' = [phase EXCEPT ![server] = "poll"]
             /\ scheduledAccepted'[server] = << [id |-> 1, address |-> client] >>
             /\ awaitingAck'[server][1] = NewPeer(client, 1)
             /\ \A id \in ConnectionId : id # 1 => awaitingAck'[server][id] = NoPeer
    <3>1. phase'[server] = "poll"
      BY <1>1, <2>2 DEF DummyTypeOK, TypeOK, ProtocolTypeOK
    <3>2. Partner(server)' = NewPeer(client, 1) /\ LastHandled(server)' = 1
      BY <1>1, <1>7, <1>12, <1>14, <2>2 DEF Partner, LastHandled
    <3>3. QED
      BY <2>2, <3>1, <3>2
  <2>3. QED
    BY <1>12, <2>1, <2>2
<1>16. /\ Partner(client)' = Partner(client)
       /\ LastHandled(client)' = LastHandled(client)
       /\ HasHeard(client)' = HasHeard(client)
  BY <1>1, <1>6, <1>12 DEF Partner, LastHandled, HasHeard
<1>17. SentTo(server)' = SentTo(server) /\ SentTo(client)' = SentTo(client)
  BY <1>2 DEF SentTo
<1>18. PacketsNumbered' /\ NextInOrder'
  <2>1. Running(server)' => LastHandled(server)' = LastHandled(server) + 1
    BY <1>3, <1>8, <1>15
  <2>2. Running(server)' => Partner(server)'.sequence = SentTo(Other(server)) + 1
    BY <1>1, <1>11, <1>14, <1>15
  <2>3. \A x \in Endpoint : connected[x][1] # NoPeer => connected'[x][1] # NoPeer
    BY <1>12
  <2>4. \A x \in Endpoint : Running(x)' => Running(x)
    BY <1>1, <1>2, <1>13 DEF Running
  <2>5. QED
    BY <1>1, <1>2, <1>16, <2>1, <2>2, <2>3, <2>4, Handled
<1>19. OneLink'
  BY <1>1, <1>7, <1>12, <1>14, <1>15 DEF OneLink
<1>20. ClientStage'
  BY <1>1, <1>6, <1>12, <1>13, <1>16, <1>17 DEF ClientStage, Running
<1>21. ServerStage'
  <2>1. sentAccepted'[server] = <<>> /\ connected'[server][1] = NoPeer /\ SentTo(server)' > 0
    BY <1>3, <1>6, <1>7, <1>11, <1>12, <1>17
  <2>2. CASE UNCHANGED <<awaitingAck, connectionIdTracker, scheduledAccepted>>
    BY <1>11, <1>17, <2>1, <2>2 DEF ServerStage
  <2>3. CASE /\ Partner(server)' = NewPeer(client, 1)
             /\ scheduledAccepted'[server] = << [id |-> 1, address |-> client] >>
    BY <1>11, <1>14, <1>17, <2>1, <2>3 DEF ServerStage
  <2>4. QED
    BY <1>15, <2>2, <2>3
<1>22. OnlyHeartbeats'
  BY <1>2, <1>12 DEF OnlyHeartbeats
<1>23. QED
  BY <1>2, <1>18, <1>19, <1>20, <1>21, <1>22

\* The server handles a heartbeat: the first connects its client.
LEMMA HandleHeartbeatInv ==
  ASSUME DummyInv, Handle(server), Partner(server) # NoPeer
  PROVE  DummyInv'
<1> USE DEF DummyInv
<1> DEFINE p == Head(inbox[server])
           peer == Partner(server)
<1>1. /\ client \in Endpoint /\ server \in Endpoint /\ client # server
      /\ Other(client) = server /\ Other(server) = client
      /\ \A x \in Endpoint : x = client \/ x = server
  BY TwoEnds
<1>2. /\ Running(server) /\ phase[server] \in {"send", "poll"}
      /\ UNCHANGED <<network, scheduled, sent>>
      /\ Pending(server) # <<>> /\ Head(Pending(server)) = p
      /\ Pending(server)' = Tail(Pending(server)) /\ Pending(client)' = Pending(client)
      /\ DummyTypeOK' /\ BatchIsHandled'
  BY <1>1, HandleFrame
<1>3. /\ p \in network /\ WellNumbered(p) /\ p.src = client
      /\ p.sequence = LastHandled(server) + 1 /\ SentTo(server) > 0
  BY <1>1, <1>2, NextPacket
<1>4. ServerOnReceived(server, p) /\ UNCHANGED clientVars
  BY <1>1 DEF Handle
<1>5. p \in Packet /\ client \in Clients /\ server \in Servers
  BY <1>3, TwoEnds DEF DummyTypeOK, TypeOK, ProtocolTypeOK
<1> HIDE DEF p
<1>6. UNCHANGED <<requesting, awaiting, scheduledRequest, sentRequest, sentAccepted>>
  BY <1>4 DEF ServerOnReceived, clientVars
<1>7. p.kind = "Heartbeat" /\ p.id = 1 /\ connected[client][1] # NoPeer
  <2>1. LastHandled(server) > 0 /\ LastHandled(server) \in Nat
    BY <1>1, <1>2, LastHandledType DEF NextInOrder
  <2>2. p.sequence > 1
    BY <1>3, <2>1
  <2>3. QED
    BY <1>3, <2>2 DEF WellNumbered
<1>8. ServerOnHeartbeat(server, p)
  BY <1>4, <1>7 DEF ServerOnReceived
<1>9. AckPeer(server, p) /\ UNCHANGED api
  BY <1>1, <1>7, <1>8 DEF ServerOnHeartbeat, KnownId, Partner
<1>10. peer \in Peer /\ peer.address = client
  <2>1. CASE connected[server][1] # NoPeer
    BY <1>1, <2>1, FirstId DEF Partner, OneLink, DummyTypeOK, TypeOK, ProtocolTypeOK
  <2>2. CASE connected[server][1] = NoPeer
    BY <1>1, <1>5, <2>2, FirstId DEF Partner, OneLink, DummyTypeOK, TypeOK, ServerTypeOK
  <2>3. QED
    BY <2>1, <2>2
<1>11. SentTo(client) > 0 /\ scheduledAccepted[server] = <<>>
  <2>1. SentTo(client) > 0
    BY <1>7 DEF ClientStage
  <2>2. QED
    BY <2>1 DEF ServerStage
<1>12. /\ connected'[server][1] = Acked(peer, p)
       /\ \A x \in Endpoint, id \in ConnectionId :
             x # server \/ id # 1 => connected'[x][id] = connected[x][id]
  <2>1. connected' = [connected EXCEPT ![server][1] =
                        Acked(IF @ # NoPeer THEN @ ELSE awaitingAck[server][1], p)]
    BY <1>7, <1>9 DEF AckPeer
  <2>2. peer = IF connected[server][1] # NoPeer THEN connected[server][1]
               ELSE awaitingAck[server][1]
    BY <1>1 DEF Partner
  <2> HIDE DEF peer
  <2>3. connected' = [connected EXCEPT ![server][1] = Acked(peer, p)]
    BY <1>1, <2>1, <2>2, FirstId DEF DummyTypeOK, TypeOK, ProtocolTypeOK
  <2>4. QED
    BY <1>1, <2>3, FirstId DEF DummyTypeOK, TypeOK, ProtocolTypeOK
<1>13. \A id \in ConnectionId : awaitingAck'[server][id] = NoPeer
  <2>1. \A id \in ConnectionId : id # 1 => awaitingAck[server][id] = NoPeer
    BY <1>1 DEF OneLink
  <2>2. connected[server][1] # NoPeer => awaitingAck[server][1] = NoPeer
    BY <1>1, FirstId DEF OneLink
  <2>3. awaitingAck' = IF connected[server][1] # NoPeer THEN awaitingAck
                       ELSE [awaitingAck EXCEPT ![server][1] = NoPeer]
    BY <1>7, <1>9 DEF AckPeer
  <2>4. QED
    BY <1>5, <2>1, <2>2, <2>3, FirstId DEF DummyTypeOK, TypeOK, ServerTypeOK
<1>14. /\ UNCHANGED <<connectionIdTracker, scheduledAccepted>>
       /\ phase'[server] = "poll" /\ phase'[client] = phase[client]
  BY <1>1, <1>9 DEF AckPeer, Returns, DummyTypeOK, TypeOK, ProtocolTypeOK
<1>15. /\ Acked(peer, p) # NoPeer
       /\ Acked(peer, p).address = client
       /\ Acked(peer, p).sequence = peer.sequence
       /\ Acked(peer, p).remoteAck = p.sequence
  <2>1. Acked(peer, p) \in Peer
    BY <1>5, <1>10, AckedType
  <2> HIDE DEF peer
  <2>2. QED
    BY <1>10, <2>1, NoPeerAssumption DEF Acked, Peer
<1>16. Partner(server)' = Acked(peer, p) /\ LastHandled(server)' = LastHandled(server) + 1
  <2> HIDE DEF peer
  <2>1. QED
    BY <1>3, <1>12, <1>15 DEF Partner, LastHandled
<1>17. /\ Partner(client)' = Partner(client)
       /\ LastHandled(client)' = LastHandled(client)
       /\ HasHeard(client)' = HasHeard(client)
  BY <1>1, <1>6, <1>12, FirstId DEF Partner, LastHandled, HasHeard
<1>18. PacketsNumbered' /\ NextInOrder'
  <2>1. peer.sequence = SentTo(client) + 1
    BY <1>1, <1>2 DEF PacketsNumbered
  <2>2. Partner(server)'.sequence = SentTo(Other(server)) + 1
    BY <1>1, <1>15, <1>16, <2>1
  <2>3. \A x \in Endpoint : connected[x][1] # NoPeer => connected'[x][1] # NoPeer
    BY <1>1, <1>12, <1>15, FirstId
  <2>4. \A x \in Endpoint : Running(x)' => Running(x)
    BY <1>1, <1>2, <1>14 DEF Running
  <2> HIDE DEF peer
  <2>5. QED
    BY <1>1, <1>2, <1>16, <1>17, <2>2, <2>3, <2>4, Handled
<1>19. OneLink'
  <2>1. \A x \in Endpoint, id \in ConnectionId :
           \/ x = server /\ id = 1
           \/ connected'[x][id] = connected[x][id]
    BY <1>12
  <2>2. connected'[server][1].address = client
    BY <1>12, <1>15
  <2> HIDE DEF peer
  <2>3. QED
    BY <1>1, <1>13, <2>1, <2>2 DEF OneLink
<1>20. SentTo(server)' = SentTo(server) /\ SentTo(client)' = SentTo(client)
  BY <1>2 DEF SentTo
<1>21. ClientStage'
  BY <1>1, <1>6, <1>12, <1>14, <1>17, <1>20, FirstId DEF ClientStage, Running
<1>22. ServerStage'
  <2>1. Partner(server)' # NoPeer
    BY <1>15, <1>16
  <2> HIDE DEF peer
  <2>2. QED
    BY <1>3, <1>6, <1>11, <1>14, <1>20, <2>1 DEF ServerStage
<1>23. OnlyHeartbeats'
  <2>1. \A x \in Endpoint : connected[x][1] # NoPeer => connected'[x][1] # NoPeer
    BY <1>1, <1>12, <1>15, FirstId
  <2>2. QED
    BY <1>2, <1>9, <2>1 DEF OnlyHeartbeats
<1>24. QED
  BY <1>2, <1>18, <1>19, <1>21, <1>22, <1>23

-----------------------------------------------------------------------------
(***************************************************************************)
(* The invariant, and what follows from it.                                *)
(***************************************************************************)

\* Before the client asks, nothing was sent and nobody is known.
LEMMA DummyInitInv ==
  ASSUME DummyInit
  PROVE  DummyInv
<1>1. /\ client \in Endpoint /\ server \in Endpoint /\ client # server
      /\ Clients = {client} /\ Servers = {server}
      /\ \A x \in Endpoint : x = client \/ x = server
  BY TwoEnds
<1>2. Init
  BY DEF DummyInit
<1>3. /\ network = {} /\ phase = [e \in Endpoint |-> "app"]
      /\ connected = [e \in Endpoint |-> [id \in ConnectionId |-> NoPeer]]
      /\ scheduled = [e \in Endpoint |-> [q \in Queue |-> <<>>]]
      /\ sent = [e \in Endpoint |-> [k \in SentKind |-> <<>>]]
      /\ api = [e \in Endpoint |-> <<>>]
  BY <1>2 DEF Init, ProtocolInit
<1>4. /\ requesting[client][server] = NoPeer /\ awaiting[client][server] = NoPeer
      /\ scheduledRequest[client] = <<>> /\ sentRequest[client] = <<>>
  BY <1>1, <1>2 DEF Init, ClientInit
<1>5. /\ \A id \in ConnectionId : awaitingAck[server][id] = NoPeer
      /\ connectionIdTracker[server] = 1
      /\ scheduledAccepted[server] = <<>> /\ sentAccepted[server] = <<>>
  BY <1>1, <1>2 DEF Init, ServerInit
<1>6. DummyTypeOK
  <2>1. TypeOK
    BY <1>2, InitType
  <2>2. turn \in [Endpoint -> Turn]
    BY DEF DummyInit, Turn
  <2>3. \A S : <<>> \in Seq(S)
    OBVIOUS
  <2>4. /\ outbox \in [Endpoint -> Seq(Packet)]
        /\ inbox \in [Endpoint -> Seq(Packet)]
        /\ channel \in [Endpoint -> Seq(Seq(Packet))]
    BY <2>3 DEF DummyInit
  <2>5. QED
    BY <2>1, <2>2, <2>4 DEF DummyTypeOK
<1>7. \A e \in Endpoint : Partner(e) = NoPeer /\ LastHandled(e) = 0 /\ SentTo(e) = 0
  <2>1. \A e \in Endpoint : connected[e][1] = NoPeer
    BY <1>3, FirstId
  <2>2. awaitingAck[server][1] = NoPeer
    BY <1>5, FirstId
  <2>3. \A e \in Endpoint : SentTo(e) = 0
    <3>1. \A e \in Endpoint : {p \in network : p.dst = e} = {}
      BY <1>3
    <3>2. QED
      BY <3>1, FS_EmptySet DEF SentTo
  <2>4. QED
    BY <1>1, <1>4, <2>1, <2>2, <2>3 DEF Partner, LastHandled
<1>8. \A e \in Endpoint : Pending(e) = <<>>
  <2> SUFFICES ASSUME NEW e \in Endpoint PROVE Pending(e) = <<>>
    OBVIOUS
  <2>1. inbox[e] = <<>> /\ channel[e] = <<>> /\ outbox[Other(e)] = <<>>
    BY OtherOf DEF DummyInit
  <2>2. FlattenSeq(<<>>) = <<>>
    BY DEF FlattenSeq
  <2>3. Pending(e) = (<<>> \o <<>>) \o <<>>
    BY <2>1, <2>2 DEF Pending
  <2>4. QED
    BY <2>3
<1>9. BatchIsHandled
  BY <1>3 DEF BatchIsHandled, DummyInit
<1>10. OneLink
  BY <1>1, <1>3, <1>5 DEF OneLink
<1>11. ClientStage
  BY <1>1, <1>3, <1>4, <1>7, FirstId DEF ClientStage
<1>12. ServerStage
  BY <1>1, <1>3, <1>5, <1>7, FirstId DEF ServerStage
<1>13. OnlyHeartbeats
  BY <1>3 DEF OnlyHeartbeats, SentKind
<1>14. PacketsNumbered
  BY <1>3, <1>7, FS_EmptySet DEF PacketsNumbered
<1>15. NextInOrder
  BY <1>7, <1>8 DEF NextInOrder
<1>16. QED
  BY <1>6, <1>9, <1>10, <1>11, <1>12, <1>13, <1>14, <1>15 DEF DummyInv

\* Every step keeps it.
LEMMA DummyNextInv ==
  ASSUME DummyInv, [DummyNext]_dummyVars
  PROVE  DummyInv'
<1>1. CASE AskForConnection
  BY <1>1, AskInv
<1>2. ASSUME NEW e \in Endpoint, Thread(e) PROVE DummyInv'
  <2>1. CASE Poll(e)
    <3>1. CASE PollClient(e)
      <4>1. e = client /\ ClientPolls(e) /\ UNCHANGED serverVars
        BY <3>1 DEF PollClient
      <4>2. CASE RetryConnectionRequest(e) \/ ClientRetryDataTransfer(e)
        BY <2>1, <4>1, <4>2, RetryInv
      <4>3. CASE SendConnectionRequest(e)
        BY <2>1, <4>1, <4>3, RequestInv
      <4>4. CASE \E q \in Queue : ClientSend(e, q)
        BY <2>1, <4>1, <4>4, SendHeartbeatInv
      <4>5. CASE ClientPoll(e)
        BY <2>1, <4>1, <4>5, PollEndInv
      <4>6. QED
        BY <4>1, <4>2, <4>3, <4>4, <4>5 DEF ClientPolls
    <3>2. CASE PollServer(e)
      <4>1. e = server /\ ServerPolls(e) /\ UNCHANGED clientVars
        BY <3>2 DEF PollServer
      <4>2. CASE \/ RetryConnectionAccepted(e) \/ ServerRetryDataTransfer(e)
                 \/ ServerRetryFragment(e)
        BY <2>1, <4>1, <4>2, RetryInv
      <4>3. CASE SendConnectionAccepted(e)
        BY <2>1, <4>1, <4>3, AcceptInv
      <4>4. CASE \E q \in Queue : ServerSend(e, q)
        BY <2>1, <4>1, <4>4, SendHeartbeatInv
      <4>5. CASE ServerPoll(e)
        BY <2>1, <4>1, <4>5, PollEndInv
      <4>6. QED
        BY <4>1, <4>2, <4>3, <4>4, <4>5 DEF ServerPolls
    <3>3. QED
      BY <2>1, <3>1, <3>2 DEF Poll
  <2>2. CASE Handle(e)
    <3>1. e = client \/ e = server
      BY TwoEnds
    <3>2. CASE e = client
      BY <2>2, <3>2, HandleClientInv
    <3>3. CASE e = server
      BY <2>2, <3>3, HandleRequestInv, HandleHeartbeatInv
    <3>4. QED
      BY <3>1, <3>2, <3>3
  <2>3. CASE HandleNothing(e)
    BY <2>3, HandleNothingInv
  <2>4. CASE BeatUnreliably(e)
    BY <2>4, BeatInv DEF BeatUnreliably
  <2>5. CASE BeatReliably(e)
    BY <2>5, BeatInv DEF BeatReliably
  <2>6. CASE SendBatch(e) \/ ReceiveBatch(e)
    BY <2>6, BatchesInv
  <2>7. QED
    BY <1>2, <2>1, <2>2, <2>3, <2>4, <2>5, <2>6 DEF Thread
<1>3. CASE UNCHANGED dummyVars
  <2>1. UNCHANGED <<vars, turn, outbox, inbox, channel>>
    BY <1>3 DEF dummyVars
  <2>2. DummyTypeOK'
    BY <2>1 DEF DummyInv, DummyTypeOK, TypeOK, ProtocolTypeOK, ClientTypeOK, ServerTypeOK,
                vars, protocolVars, clientVars, serverVars
  <2>3. BatchIsHandled' /\ OnlyHeartbeats'
    BY <2>1 DEF DummyInv, BatchIsHandled, OnlyHeartbeats, vars, protocolVars
  <2>4. \A x \in Endpoint : Pending(x)' = Pending(x)
    BY <2>1 DEF Pending
  <2>5. \A x \in Endpoint : Running(x)' => Running(x)
    BY <2>1 DEF Running, vars, protocolVars
  <2>6. OneLink' /\ PacketsNumbered' /\ NextInOrder'
    BY <2>1, <2>4, <2>5, Quiet DEF DummyInv, vars, protocolVars, clientVars, serverVars
  <2>7. ClientStage' /\ ServerStage'
    BY <2>1, <2>5, StagesStay
    DEF DummyInv, ClientStage, ServerStage, vars, protocolVars, clientVars, serverVars
  <2>8. QED
    BY <2>2, <2>3, <2>6, <2>7 DEF DummyInv
<1>4. QED
  BY <1>1, <1>2, <1>3 DEF DummyNext

\* What an end has acked last is what it has handled last.
LEMMA HeardIsLastHandled ==
  ASSUME DummyTypeOK, OneLink, NEW e \in Endpoint
  PROVE  Heard(e) = LastHandled(e)
<1> DEFINE peers == {connected[e][id] : id \in ConnectionId}
                 \cup (IF e = client THEN {} ELSE {awaitingAck[e][id] : id \in ConnectionId})
           S == {0} \cup {peer.remoteAck : peer \in peers \ {NoPeer}}
           n == LastHandled(e)
<1>1. n \in Nat
  BY LastHandledType
<1>2. ASSUME NEW peer \in peers \ {NoPeer}
      PROVE  peer.remoteAck = n
  <2>1. CASE \E id \in ConnectionId : peer = connected[e][id]
    <3>1. connected[e][1] # NoPeer /\ peer = connected[e][1]
      BY <1>2, <2>1 DEF OneLink
    <3>2. QED
      BY <3>1 DEF LastHandled
  <2>2. CASE e # client /\ \E id \in ConnectionId : peer = awaitingAck[e][id]
    <3>1. e = server
      BY <2>2, TwoEnds
    <3>2. awaitingAck[e][1] # NoPeer /\ peer = awaitingAck[e][1] /\ connected[e][1] = NoPeer
      BY <1>2, <2>2, <3>1 DEF OneLink
    <3>3. QED
      BY <3>1, <3>2 DEF LastHandled
  <2>3. QED
    BY <1>2, <2>1, <2>2
<1>3. n \in S
  <2>1. CASE connected[e][1] # NoPeer
    <3>1. connected[e][1] \in peers \ {NoPeer}
      BY <2>1, FirstId
    <3>2. QED
      BY <1>2, <3>1
  <2>2. CASE connected[e][1] = NoPeer /\ e = server /\ awaitingAck[e][1] # NoPeer
    <3>1. awaitingAck[e][1] \in peers \ {NoPeer}
      BY <2>2, FirstId, TwoEnds
    <3>2. QED
      BY <1>2, <3>1
  <2>3. CASE connected[e][1] = NoPeer /\ ~(e = server /\ awaitingAck[e][1] # NoPeer)
    BY <2>3 DEF LastHandled
  <2>4. QED
    BY <2>1, <2>2, <2>3
<1>4. \A m \in S : m = 0 \/ m = n
  BY <1>2
<1>5. Heard(e) = Max(S)
  BY DEF Heard
<1> HIDE DEF S, n
<1>6. Max(S) = n
  <2>1. \A m \in S : n >= m
    BY <1>1, <1>4
  <2>2. \A m \in S : (\A k \in S : m >= k) => m = n
    BY <1>1, <1>3, <1>4
  <2>3. QED
    BY <1>3, <2>1, <2>2 DEF Max
<1>7. QED
  BY <1>5, <1>6 DEF n

\* The invariant of the two loops holds of every state they reach.
THEOREM DummyInductive == DummySpec => []DummyInv
<1>1. DummyInit => DummyInv
  BY DummyInitInv
<1>2. DummyInv /\ [DummyNext]_dummyVars => DummyInv'
  BY DummyNextInv
<1>3. QED
  BY <1>1, <1>2, PTL DEF DummySpec

\* Every state of the two loops has its types, for every lag and every width.
THEOREM DummyTypeCorrect == DummySpec => []DummyTypeOK
<1>1. DummyInv => DummyTypeOK
  BY DEF DummyInv
<1>2. QED
  BY <1>1, DummyInductive, PTL

(***************************************************************************)
(* The boxes and the channels lose, repeat and reorder nothing, however    *)
(* far the threads drift apart.                                            *)
(***************************************************************************)
THEOREM InOrderOnceHolds == DummySpec => []InOrderOnce
<1>1. DummyInv => InOrderOnce
  <2> SUFFICES ASSUME DummyInv PROVE InOrderOnce
    OBVIOUS
  <2>1. \A e \in Endpoint : Heard(e) = LastHandled(e)
    BY HeardIsLastHandled DEF DummyInv
  <2>2. QED
    BY <2>1 DEF DummyInv, NextInOrder, InOrderOnce, Running, SentTo
<1>2. QED
  BY <1>1, DummyInductive, PTL

(***************************************************************************)
(* No handler refuses a packet: over an ordered link each finds the peer   *)
(* of its packet in the state it expects.                                  *)
(***************************************************************************)
THEOREM NothingRefusedHolds == DummySpec => []NothingRefused
<1>1. DummyInv => NothingRefused
  BY DEF DummyInv, OnlyHeartbeats, NothingRefused
<1>2. QED
  BY <1>1, DummyInductive, PTL

=============================================================================
