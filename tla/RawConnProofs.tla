---------------------------- MODULE RawConnProofs ---------------------------
(* Proofs about RawConn. *)
EXTENDS RawConn, NaturalsInduction, WellFoundedInduction, SequenceTheorems, TLAPS

-----------------------------------------------------------------------------
(* Recursive functions on 0..n.                                            *)

(* A set of numbers with 0 and every successor is Nat.                     *)
LEMMA NatSetInduction ==
  ASSUME NEW S \in SUBSET Nat, 0 \in S, \A n \in S : n + 1 \in S
  PROVE  S = Nat
<1> SUFFICES ASSUME S # Nat PROVE FALSE
  OBVIOUS
<1> DEFINE R == OpToRel(<, Nat)
           T == Nat \ S
<1>1. T # {} /\ T \in SUBSET Nat
  BY Zenon
<1>2. IsWellFoundedOn(R, Nat)
  BY NatLessThanWellFounded, Zenon
<1> HIDE DEF R
<1>3. PICK x \in T : \A y \in T : ~(<<y, x>> \in R)
  BY <1>1, <1>2, WFMin, Zenon
<1>4. x \in Nat /\ x # 0
  BY <1>3
<1>5. x - 1 \in Nat /\ x - 1 < x
  BY <1>4
<1>6. <<x - 1, x>> \in R
  BY <1>4, <1>5 DEF R, OpToRel
<1>7. x - 1 \in S
  BY <1>3, <1>5, <1>6
<1>8. x - 1 + 1 = x
  BY <1>4
<1> QED
  BY <1>7, <1>8, <1>3

(* A function may be defined by its first value and a step.                *)
Unfolds(f, n, x, step) == f[0] = x /\ \A i \in 1..n : f[i] = step[<<i, f[i - 1]>>]

LEMMA RecursionExists ==
  ASSUME NEW V, NEW x \in V, NEW n \in Nat, NEW step \in [(1..n) \X V -> V]
  PROVE  \E f \in [0..n -> V] : Unfolds(f, n, x, step)
<1> DEFINE Up(m, f) == f[0] = x /\ \A i \in 1..m : f[i] = step[<<i, f[i - 1]>>]
           S == {m \in Nat : m <= n => \E f \in [0..m -> V] : Up(m, f)}
<1>1. 0 \in S
  <2>1. [i \in 0..0 |-> x] \in [0..0 -> V] /\ Up(0, [i \in 0..0 |-> x])
    OBVIOUS
  <2> QED
    BY <2>1, Zenon
<1>2. ASSUME NEW m \in S PROVE m + 1 \in S
  <2> SUFFICES ASSUME m + 1 <= n PROVE \E f \in [0..(m + 1) -> V] : Up(m + 1, f)
    OBVIOUS
  <2>1. m \in Nat /\ m <= n /\ m + 1 \in 1..n
    OBVIOUS
  <2>2. PICK f \in [0..m -> V] : Up(m, f)
    BY <2>1
  <2> DEFINE g == [i \in 0..(m + 1) |-> IF i = m + 1 THEN step[<<m + 1, f[m]>>] ELSE f[i]]
  <2>3. step[<<m + 1, f[m]>>] \in V
    <3>1. f[m] \in V
      BY <2>1, <2>2
    <3> QED
      BY <2>1, <3>1
  <2>4. g \in [0..(m + 1) -> V]
    BY <2>1, <2>2, <2>3
  <2>5. \A i \in 0..m : g[i] = f[i]
    BY <2>1
  <2>6. g[m + 1] = step[<<m + 1, f[m]>>]
    BY <2>1
  <2> HIDE DEF g
  <2>7. \A i \in 1..(m + 1) : g[i] = step[<<i, g[i - 1]>>]
    <3>1. ASSUME NEW i \in 1..m PROVE g[i] = step[<<i, g[i - 1]>>]
      <4>1. i \in 0..m /\ i - 1 \in 0..m
        BY <2>1
      <4> QED
        BY <2>2, <2>5, <4>1
    <3>2. m + 1 - 1 = m /\ g[m] = f[m]
      BY <2>1, <2>5
    <3>3. \A i \in 1..(m + 1) : i \in 1..m \/ i = m + 1
      BY <2>1
    <3>4. g[m + 1] = step[<<m + 1, g[m + 1 - 1]>>]
      BY <2>6, <3>2, Zenon
    <3>5. ASSUME NEW i \in 1..(m + 1) PROVE g[i] = step[<<i, g[i - 1]>>]
      <4>1. CASE i \in 1..m
        BY <3>1, <4>1
      <4>2. CASE i = m + 1
        BY <3>4, <4>2
      <4> QED
        BY <3>3, <4>1, <4>2
    <3> QED
      BY <3>5
  <2>8. Up(m + 1, g)
    BY <2>1, <2>2, <2>5, <2>7
  <2> QED
    BY <2>4, <2>8, Zenon
<1> HIDE DEF Up
<1>3. S = Nat
  BY <1>1, <1>2, NatSetInduction, Zenon
<1>4. \E f \in [0..n -> V] : Up(n, f)
  BY <1>3
<1> QED
  BY <1>4 DEF Up, Unfolds

-----------------------------------------------------------------------------
(* The queue of a connection.                                              *)

Datum == [src : UDPAddr, data : Seq(Byte)]

LEMMA ReceivedType == \A f \in Frame : Received(f) \in Datum
<1> SUFFICES ASSUME NEW f \in Frame PROVE Received(f) \in Datum
  OBVIOUS
<1>1. f.data \in Seq(Byte) /\ f.pad \in Seq(Byte) /\ f.src \in UDPAddr
  BY DEF Frame
<1>2. f.data \o f.pad \in Seq(Byte)
  BY <1>1, ConcatProperties
<1> QED
  BY <1>1, <1>2 DEF Received, Datum

(* k is the function kept of Kept.                                         *)
KeptBy(k, c, s) ==
  /\ k \in [0..Len(s) -> Seq(Datum)]
  /\ k[0] = <<>>
  /\ \A i \in 1..Len(s) : k[i] = IF ForConn(c, s[i])
                                 THEN Append(k[i - 1], Received(s[i]))
                                 ELSE k[i - 1]

LEMMA KeptUnfold ==
  ASSUME NEW c, NEW s \in Seq(Frame)
  PROVE  \E k : KeptBy(k, c, s) /\ Kept(c, s) = k[Len(s)]
<1> DEFINE V == Seq(Datum)
           n == Len(s)
           E(i, v) == IF ForConn(c, s[i]) THEN Append(v, Received(s[i])) ELSE v
           step == [p \in (1..n) \X V |-> E(p[1], p[2])]
           Is(k) == k = [i \in 0..n |-> IF i = 0 THEN <<>> ELSE E(i, k[i - 1])]
           kk == CHOOSE k : Is(k)
<1>1. n \in Nat /\ <<>> \in V
  BY LenProperties, EmptySeq
<1>2. \A i \in 1..n, v \in V : E(i, v) \in V
  <2>1. \A i \in 1..n : Received(s[i]) \in Datum
    BY ElementOfSeq, ReceivedType
  <2>2. ASSUME NEW i \in 1..n, NEW v \in V PROVE E(i, v) \in V
    <3>1. Append(v, Received(s[i])) \in V
      BY <2>1, AppendProperties
    <3> QED
      BY <3>1
  <2> QED
    BY <2>2
<1>3. step \in [(1..n) \X V -> V]
  <2> HIDE DEF E, V, n
  <2> QED
    BY <1>2
<1>4. PICK k \in [0..n -> V] : Unfolds(k, n, <<>>, step)
  <2> HIDE DEF E, V, n, step
  <2> QED
    BY <1>1, <1>3, RecursionExists, Zenon
<1>5. \A i \in 1..n : i - 1 \in 0..n /\ i \in 0..n
  BY <1>1
<1>6. k[0] = <<>> /\ \A i \in 1..n : k[i] = E(i, k[i - 1])
  BY <1>4, <1>5, Zenon DEF Unfolds
<1>7. Kept(c, s) = kk[n]
  BY DEF Kept
<1> HIDE DEF E
<1>8. Is(k)
  <2>1. \A i \in 0..n : i = 0 \/ i \in 1..n
    BY <1>1
  <2>2. \A i \in 0..n : k[i] = IF i = 0 THEN <<>> ELSE E(i, k[i - 1])
    BY <1>4, <1>6, <2>1, Zenon
  <2> HIDE DEF n, V
  <2> QED
    BY <1>4, <2>2
<1>9. Is(kk)
  BY <1>8, Zenon
<1> HIDE DEF kk, V
<1>10. /\ kk[0] = <<>> /\ \A i \in 1..n : kk[i] = E(i, kk[i - 1])
  <2>1. 0 \in 0..n /\ \A i \in 1..n : i \in 0..n /\ i # 0
    BY <1>1
  <2> HIDE DEF n
  <2> QED
    BY <1>9, <2>1, Zenon
<1> HIDE DEF Is
<1>11. \A i \in 0..n : kk[i] = k[i]
  <2> DEFINE S == {i \in Nat : i <= n => kk[i] = k[i]}
  <2>1. 0 \in S
    BY <1>6, <1>10
  <2>2. ASSUME NEW i \in S PROVE i + 1 \in S
    <3> SUFFICES ASSUME i + 1 <= n PROVE kk[i + 1] = k[i + 1]
      OBVIOUS
    <3>1. i + 1 \in 1..n /\ i + 1 - 1 = i /\ kk[i] = k[i]
      BY <1>1
    <3>2. kk[i + 1] = E(i + 1, kk[i + 1 - 1]) /\ k[i + 1] = E(i + 1, k[i + 1 - 1])
      BY <1>6, <1>10, <3>1
    <3> QED
      BY <3>1, <3>2
  <2>3. S = Nat
    BY <2>1, <2>2, NatSetInduction, Zenon
  <2> QED
    BY <1>1, <2>3
<1>12. Kept(c, s) = k[n]
  BY <1>1, <1>7, <1>11
<1> QED
  BY <1>4, <1>6, <1>12 DEF E, V, KeptBy

LEMMA KeptType ==
  ASSUME NEW c, NEW s \in Seq(Frame)
  PROVE  Kept(c, s) \in Seq(Datum)
<1>1. PICK k : KeptBy(k, c, s) /\ Kept(c, s) = k[Len(s)]
  BY KeptUnfold
<1>2. Len(s) \in 0..Len(s)
  BY LenProperties
<1> QED
  BY <1>1, <1>2 DEF KeptBy

LEMMA KeptEmpty == \A c : Kept(c, <<>>) = <<>>
<1>1. ASSUME NEW c PROVE Kept(c, <<>>) = <<>>
  <2>1. <<>> \in Seq(Frame) /\ Len(<<>>) = 0
    BY EmptySeq
  <2>2. PICK k : KeptBy(k, c, <<>>) /\ Kept(c, <<>>) = k[Len(<<>>)]
    BY <2>1, KeptUnfold, Zenon
  <2> QED
    BY <2>1, <2>2 DEF KeptBy
<1> QED
  BY <1>1

StepAt(k, c, s, i, j) ==
  k[j] = IF ForConn(c, s[j]) THEN Append(k[i], Received(s[j])) ELSE k[i]

LEMMA KeptStep ==
  ASSUME NEW c, NEW s, NEW k, KeptBy(k, c, s), NEW i \in Nat, NEW j \in 1..Len(s), j - 1 = i
  PROVE  StepAt(k, c, s, i, j)
<1>1. k[j] = IF ForConn(c, s[j]) THEN Append(k[j - 1], Received(s[j])) ELSE k[j - 1]
  BY Zenon DEF KeptBy
<1> QED
  BY <1>1, Zenon DEF StepAt

(* A frame is received at the end of the queue.                            *)
LEMMA KeptAppend ==
  ASSUME NEW c, NEW s \in Seq(Frame), NEW f \in Frame
  PROVE  Kept(c, Append(s, f)) = IF ForConn(c, f) THEN Append(Kept(c, s), Received(f))
                                                  ELSE Kept(c, s)
<1> DEFINE t == Append(s, f)
           n == Len(s)
<1>1. /\ n \in Nat /\ t \in Seq(Frame) /\ Len(t) = n + 1
      /\ t[n + 1] = f /\ \A i \in 1..n : t[i] = s[i]
  BY LenProperties, AppendProperties
<1>2. PICK k : KeptBy(k, c, s) /\ Kept(c, s) = k[Len(s)]
  BY KeptUnfold
<1> HIDE DEF t
<1>3. PICK l : KeptBy(l, c, t) /\ Kept(c, t) = l[Len(t)]
  BY <1>1, KeptUnfold
<1>4. l[0] = k[0]
  BY <1>2, <1>3, Zenon DEF KeptBy
<1>5. ASSUME NEW i \in Nat, i + 1 <= n, l[i] = k[i] PROVE l[i + 1] = k[i + 1]
  <2>1. /\ i + 1 \in 1..Len(s) /\ i + 1 \in 1..Len(t) /\ i + 1 - 1 = i
        /\ t[i + 1] = s[i + 1]
    BY <1>1, <1>5
  <2>2. StepAt(k, c, s, i, i + 1)
    BY <1>2, <2>1, KeptStep
  <2>3. StepAt(l, c, t, i, i + 1)
    BY <1>3, <2>1, KeptStep
  <2> QED
    BY <1>5, <2>1, <2>2, <2>3 DEF StepAt
<1>6. {i \in Nat : i <= n => l[i] = k[i]} = Nat
  <2> DEFINE S == {i \in Nat : i <= n => l[i] = k[i]}
  <2>1. 0 \in S
    BY <1>4
  <2>2. ASSUME NEW i \in S PROVE i + 1 \in S
    BY <1>1, <1>5
  <2> QED
    BY <2>1, <2>2, NatSetInduction, Zenon
<1>7. l[n] = k[n]
  BY <1>1, <1>6
<1>8. n + 1 \in 1..Len(t) /\ n + 1 - 1 = n
  BY <1>1
<1>9. StepAt(l, c, t, n, n + 1)
  BY <1>1, <1>3, <1>8, KeptStep
<1> QED
  BY <1>1, <1>2, <1>3, <1>7, <1>9, Zenon DEF t, StepAt

LEMMA AppendAfter ==
  \A x, y \in Seq(Datum) : \A e \in Datum : Append(x \o y, e) = x \o Append(y, e)
<1> SUFFICES ASSUME NEW x \in Seq(Datum), NEW y \in Seq(Datum), NEW e \in Datum
             PROVE  Append(x \o y, e) = x \o Append(y, e)
  BY Zenon
<1>1. <<e>> \in Seq(Datum) /\ x \o y \in Seq(Datum)
  BY ConcatProperties
<1>2. Append(x \o y, e) = (x \o y) \o <<e>> /\ Append(y, e) = y \o <<e>>
  BY <1>1, AppendIsConcat
<1>3. (x \o y) \o <<e>> = x \o (y \o <<e>>)
  BY <1>1, ConcatAssociative
<1> QED
  BY <1>2, <1>3

(* Reading takes a frame off the front of the queue, if it was in it.      *)
LEMMA KeptTail ==
  ASSUME NEW c, NEW s \in Seq(Frame), s # <<>>
  PROVE  Kept(c, s) = (IF ForConn(c, Head(s)) THEN <<Received(Head(s))>> ELSE <<>>)
                      \o Kept(c, Tail(s))
<1> DEFINE t == Tail(s)
           n == Len(t)
           x == IF ForConn(c, Head(s)) THEN <<Received(Head(s))>> ELSE <<>>
<1>1. /\ n \in Nat /\ t \in Seq(Frame) /\ Len(s) = n + 1
      /\ Head(s) = s[1] /\ Head(s) \in Frame /\ \A i \in 1..n : t[i] = s[i + 1]
  BY LenProperties, HeadTailProperties, EmptySeq
<1>2. PICK k : KeptBy(k, c, s) /\ Kept(c, s) = k[Len(s)]
  BY KeptUnfold
<1> HIDE DEF t
<1>3. PICK l : KeptBy(l, c, t) /\ Kept(c, t) = l[Len(t)]
  BY <1>1, KeptUnfold
<1>4. x \in Seq(Datum)
  BY <1>1, ReceivedType
<1>5. k[0 + 1] = x /\ l[0] = <<>>
  <2>1. 0 \in Nat /\ 1 \in 1..Len(s) /\ 1 - 1 = 0 /\ 0 + 1 = 1
    BY <1>1
  <2>2. k[0] = <<>> /\ l[0] = <<>>
    BY <1>2, <1>3, Zenon DEF KeptBy
  <2>3. StepAt(k, c, s, 0, 1)
    BY <1>2, <2>1, KeptStep, Zenon
  <2>4. Append(<<>>, Received(s[1])) = <<Received(s[1])>>
    <3>1. <<>> \in Seq(Datum) /\ Received(s[1]) \in Datum
      BY <1>1, ReceivedType, EmptySeq
    <3> HIDE DEF Received
    <3>2. Append(<<>>, Received(s[1])) = <<>> \o <<Received(s[1])>>
      BY <3>1, AppendIsConcat
    <3>3. <<Received(s[1])>> \in Seq(Datum)
      BY <3>1
    <3> QED
      BY <3>2, <3>3, ConcatEmptySeq
  <2> QED
    BY <1>1, <2>1, <2>2, <2>3, <2>4, Zenon DEF StepAt
<1> HIDE DEF x
<1>6. k[0 + 1] = x \o l[0]
  <2>1. x \o <<>> = x
    BY <1>4, ConcatEmptySeq
  <2> QED
    BY <1>5, <2>1, Zenon
<1>7. ASSUME NEW i \in Nat, i + 1 <= n, k[i + 1] = x \o l[i]
      PROVE  k[i + 1 + 1] = x \o l[i + 1]
  <2>1. i \in 0..n /\ i + 1 \in Nat /\ i + 1 \in 1..n /\ i + 1 - 1 = i
    BY <1>1, <1>7
  <2>2. i + 1 + 1 \in 1..Len(s) /\ i + 1 + 1 - 1 = i + 1
    BY <1>1, <1>7
  <2>3. t[i + 1] \in Frame /\ t[i + 1] = s[i + 1 + 1]
    BY <1>1, <2>1, ElementOfSeq
  <2>4. StepAt(k, c, s, i + 1, i + 1 + 1)
    BY <1>2, <2>1, <2>2, KeptStep
  <2>5. StepAt(l, c, t, i, i + 1)
    BY <1>3, <2>1, KeptStep
  <2> DEFINE r == Received(t[i + 1])
             b == l[i]
  <2>6. b \in Seq(Datum) /\ r \in Datum
    BY <1>3, <2>1, <2>3, ReceivedType DEF KeptBy
  <2>7. k[i + 1 + 1] = IF ForConn(c, t[i + 1]) THEN Append(x \o b, r) ELSE x \o b
    BY <1>7, <2>3, <2>4, Zenon DEF StepAt
  <2>8. l[i + 1] = IF ForConn(c, t[i + 1]) THEN Append(b, r) ELSE b
    BY <2>5, Zenon DEF StepAt
  <2> HIDE DEF r, b
  <2>9. Append(x \o b, r) = x \o Append(b, r)
    BY <1>4, <2>6, AppendAfter, Zenon
  <2> QED
    BY <2>7, <2>8, <2>9, Zenon
<1>8. {i \in Nat : i <= n => k[i + 1] = x \o l[i]} = Nat
  <2> DEFINE S == {i \in Nat : i <= n => k[i + 1] = x \o l[i]}
  <2>1. 0 \in S
    BY <1>6
  <2>2. ASSUME NEW i \in S PROVE i + 1 \in S
    <3> SUFFICES ASSUME i + 1 <= n PROVE k[i + 1 + 1] = x \o l[i + 1]
      <4>1. i + 1 \in Nat
        OBVIOUS
      <4> QED
        BY <4>1, Zenon
    <3>1. i \in Nat /\ i <= n
      BY <1>1
    <3>2. k[i + 1] = x \o l[i]
      BY <3>1, Zenon
    <3> HIDE DEF S
    <3> QED
      BY <1>7, <3>1, <3>2, Zenon
  <2> QED
    BY <2>1, <2>2, NatSetInduction, Zenon
<1>9. k[n + 1] = x \o l[n]
  BY <1>1, <1>8
<1> QED
  BY <1>1, <1>2, <1>3, <1>9, Zenon DEF t, x

-----------------------------------------------------------------------------
(* Checksums.                                                              *)

LEMMA WordValue == Word = 65536 /\ Word \in Nat
<1>1. Word = 65536
  BY DEF Word, Base
<1> QED
  BY <1>1

LEMMA Uint16Range == \A x : x \in Uint16 <=> (x \in Nat /\ x < Word)
<1>1. Word \in Nat
  BY WordValue
<1> QED
  BY <1>1 DEF Uint16

LEMMA ModWord == \A a \in Nat : a % Word \in Uint16 /\ a \div Word \in Nat
<1>1. \A a \in Nat : a % 65536 \in Nat /\ a % 65536 < 65536 /\ a \div 65536 \in Nat
  OBVIOUS
<1> QED
  BY <1>1, WordValue, Uint16Range

(* v is the function v of Checksum.                                        *)
SumBy(v, buf, initial) ==
  /\ v \in [0..Len(buf) -> Nat]
  /\ v[0] = initial
  /\ \A i \in 1..Len(buf) : v[i] = v[i - 1] + buf[i] * (IF i % 2 = 1 THEN Base ELSE 1)

LEMMA ChecksumUnfold ==
  ASSUME NEW buf \in Seq(Byte), NEW initial \in Nat
  PROVE  \E v : /\ SumBy(v, buf, initial)
               /\ Checksum(buf, initial) =
                    ChecksumCombine(v[Len(buf)] % Word, v[Len(buf)] \div Word)
<1> DEFINE n == Len(buf)
           E(i, a) == a + buf[i] * (IF i % 2 = 1 THEN Base ELSE 1)
           step == [p \in (1..n) \X Nat |-> E(p[1], p[2])]
           Is(v) == v = [i \in 0..n |-> IF i = 0 THEN initial ELSE E(i, v[i - 1])]
           vv == CHOOSE v : Is(v)
<1>1. n \in Nat
  BY LenProperties
<1>2. \A i \in 1..n, a \in Nat : E(i, a) \in Nat
  <2>1. \A i \in 1..n : buf[i] \in Byte
    BY ElementOfSeq
  <2>2. \A b \in Byte : b * Base \in Nat /\ b * 1 \in Nat
    BY DEF Byte, Base
  <2> HIDE DEF n
  <2>3. ASSUME NEW i \in 1..n, NEW a \in Nat PROVE E(i, a) \in Nat
    <3>1. buf[i] * Base \in Nat /\ buf[i] * 1 \in Nat
      BY <2>1, <2>2
    <3>2. CASE i % 2 = 1
      BY <3>1, <3>2
    <3>3. CASE i % 2 # 1
      BY <3>1, <3>3
    <3> QED
      BY <3>2, <3>3
  <2> QED
    BY <2>3
<1>3. step \in [(1..n) \X Nat -> Nat]
  <2> HIDE DEF E, n
  <2> QED
    BY <1>2, Zenon
<1>4. PICK v \in [0..n -> Nat] : Unfolds(v, n, initial, step)
  <2> HIDE DEF E, n, step
  <2> QED
    BY <1>1, <1>3, RecursionExists, Zenon
<1>5. \A i \in 1..n : i - 1 \in 0..n /\ i \in 0..n
  BY <1>1
<1> HIDE DEF E
<1>6. v[0] = initial /\ \A i \in 1..n : v[i] = E(i, v[i - 1])
  BY <1>4, <1>5, Zenon DEF Unfolds
<1>7. Checksum(buf, initial) = ChecksumCombine(vv[n] % Word, vv[n] \div Word)
  BY DEF Checksum, E
<1>8. Is(v)
  <2>1. \A i \in 0..n : i = 0 \/ i \in 1..n
    BY <1>1
  <2>2. \A i \in 0..n : v[i] = IF i = 0 THEN initial ELSE E(i, v[i - 1])
    BY <1>4, <1>6, <2>1, Zenon
  <2> HIDE DEF n
  <2> QED
    BY <1>4, <2>2
<1>9. Is(vv)
  BY <1>8, Zenon
<1> HIDE DEF vv
<1>10. vv[0] = initial /\ \A i \in 1..n : vv[i] = E(i, vv[i - 1])
  <2>1. 0 \in 0..n /\ \A i \in 1..n : i \in 0..n /\ i # 0
    BY <1>1
  <2> HIDE DEF n
  <2> QED
    BY <1>9, <2>1, Zenon
<1> HIDE DEF Is
<1>11. vv[n] = v[n]
  <2> DEFINE S == {i \in Nat : i <= n => vv[i] = v[i]}
  <2>1. 0 \in S
    BY <1>6, <1>10
  <2>2. ASSUME NEW i \in S PROVE i + 1 \in S
    <3> SUFFICES ASSUME i + 1 <= n PROVE vv[i + 1] = v[i + 1]
      OBVIOUS
    <3>1. i + 1 \in 1..n /\ i + 1 - 1 = i /\ vv[i] = v[i]
      BY <1>1
    <3>2. vv[i + 1] = E(i + 1, vv[i + 1 - 1]) /\ v[i + 1] = E(i + 1, v[i + 1 - 1])
      BY <1>6, <1>10, <3>1
    <3> QED
      BY <3>1, <3>2
  <2>3. S = Nat
    BY <2>1, <2>2, NatSetInduction, Zenon
  <2> QED
    BY <1>1, <2>3
<1> QED
  BY <1>4, <1>6, <1>7, <1>11, Zenon DEF E, SumBy

LEMMA ChecksumType ==
  ASSUME NEW buf \in Seq(Byte), NEW initial \in Nat
  PROVE  Checksum(buf, initial) \in Uint16
<1>1. PICK v : /\ SumBy(v, buf, initial)
               /\ Checksum(buf, initial) =
                    ChecksumCombine(v[Len(buf)] % Word, v[Len(buf)] \div Word)
  BY ChecksumUnfold
<1>2. v[Len(buf)] \in Nat
  <2>1. Len(buf) \in 0..Len(buf)
    BY LenProperties
  <2> QED
    BY <1>1, <2>1 DEF SumBy
<1>3. \A a, b \in Nat : ChecksumCombine(a, b) \in Uint16
  <2> SUFFICES ASSUME NEW a \in Nat, NEW b \in Nat
               PROVE  (a + b + (a + b) \div Word) % Word \in Uint16
    BY DEF ChecksumCombine
  <2>1. a + b \in Nat
    OBVIOUS
  <2>2. (a + b) \div Word \in Nat
    BY <2>1, ModWord
  <2>3. a + b + (a + b) \div Word \in Nat
    BY <2>2
  <2> QED
    BY <2>3, ModWord
<1>4. v[Len(buf)] % Word \in Nat /\ v[Len(buf)] \div Word \in Nat
  BY <1>2, ModWord, Uint16Range, Zenon
<1> QED
  BY <1>1, <1>3, <1>4

LEMMA NotType == \A x \in Uint16 : Not(x) \in Uint16
BY WordValue, Uint16Range DEF Not

-----------------------------------------------------------------------------
(* Headers.                                                                *)

LEMMA PutUint16Type ==
  ASSUME NEW v \in Nat
  PROVE  /\ PutUint16(v) \in Seq(Byte)
         /\ Len(PutUint16(v)) = 2
         /\ PutUint16(v)[1] = (v \div Base) % Base
         /\ PutUint16(v)[2] = v % Base
<1>1. (v \div Base) % Base \in Byte /\ v % Base \in Byte
  BY DEF Base, Byte
<1> QED
  BY <1>1 DEF PutUint16

(* What PutUint16 wrote, GetUint16 reads.                                  *)
LEMMA Uint16RoundTrip ==
  ASSUME NEW v \in Uint16
  PROVE  ((v \div Base) % Base) * Base + (v % Base) = v
<1>1. v \in Nat /\ v < 65536
  BY WordValue, Uint16Range
<1>2. v \div 256 \in 0..255
  BY <1>1
<1>3. 256 * (v \div 256) + (v % 256) = v
  BY <1>1
<1>4. (v \div 256) % 256 = v \div 256 /\ v % 256 \in Nat
  BY <1>1, <1>2
<1>5. ASSUME NEW q \in 0..255, NEW r \in Nat, 256 * q + r = v
      PROVE  q * 256 + r = v
  BY <1>5
<1> QED
  BY <1>2, <1>3, <1>4, <1>5 DEF Base

LEMMA DropProps ==
  ASSUME NEW s \in Seq(Byte), NEW n \in 0..Len(s)
  PROVE  /\ Drop(s, n) \in Seq(Byte)
         /\ Len(Drop(s, n)) = Len(s) - n
         /\ \A i \in 1..(Len(s) - n) : Drop(s, n)[i] = s[n + i]
<1>1. Len(s) \in Nat /\ n \in Nat /\ n <= Len(s)
  BY LenProperties
<1>2. \A i \in (n + 1)..Len(s) : s[i] \in Byte
  BY <1>1, ElementOfSeq
<1> DEFINE m == n + 1
           l == Len(s)
           d == SubSeq(s, m, l)
<1>3. m \in Int /\ l \in Int
  BY <1>1
<1>4. /\ d \in Seq(Byte) /\ Len(d) = (IF m <= l THEN l - m + 1 ELSE 0)
      /\ \A i \in 1..(l - m + 1) : d[i] = s[m + i - 1]
  BY <1>2, <1>3, SubSeqProperties
<1>5. l - m + 1 = l - n /\ (~(m <= l) => l - n = 0) /\ \A i \in 1..(l - n) : m + i - 1 = n + i
  BY <1>1
<1>6. Drop(s, n) = d
  BY DEF Drop
<1> HIDE DEF m, d
<1> QED
  BY <1>4, <1>5, <1>6, Zenon

LEMMA TakeProps ==
  ASSUME NEW s \in Seq(Byte), NEW n \in Nat
  PROVE  /\ Take(s, n) \in Seq(Byte)
         /\ Len(Take(s, n)) = IF n < Len(s) THEN n ELSE Len(s)
         /\ \A i \in 1..Len(Take(s, n)) : Take(s, n)[i] = s[i]
<1> DEFINE l == IF n < Len(s) THEN n ELSE Len(s)
           t == SubSeq(s, 1, l)
<1>1. Len(s) \in Nat /\ l \in Int /\ l \in Nat /\ l <= Len(s)
  BY LenProperties
<1>2. \A i \in 1..l : s[i] \in Byte
  BY <1>1, ElementOfSeq
<1>3. Take(s, n) = t
  BY DEF Take
<1> HIDE DEF l
<1>4. /\ t \in Seq(Byte) /\ Len(t) = (IF 1 <= l THEN l - 1 + 1 ELSE 0)
      /\ \A i \in 1..(l - 1 + 1) : t[i] = s[1 + i - 1]
  BY <1>1, <1>2, SubSeqProperties
<1>5. l - 1 + 1 = l /\ (~(1 <= l) => l = 0) /\ \A i \in 1..l : 1 + i - 1 = i
  BY <1>1
<1> HIDE DEF t
<1>6. Len(t) = l /\ \A i \in 1..l : t[i] = s[i]
  BY <1>4, <1>5
<1> QED
  BY <1>3, <1>4, <1>6 DEF l

LEMMA IPSeq ==
  ASSUME NEW a \in IPs
  PROVE  a \in Seq(Byte) /\ Len(a) = 4
<1>1. a \in Seq(Byte)
  <2>1. a \in [1..4 -> Byte] /\ 4 \in Nat
    BY DEF IPs
  <2> QED
    BY <2>1, SeqDef, Zenon
<1>2. Len(a) \in Nat /\ DOMAIN a = 1..Len(a)
  BY <1>1, LenProperties
<1>3. DOMAIN a = 1..4
  BY DEF IPs
<1>4. 1..Len(a) = 1..4
  BY <1>2, <1>3, Zenon
<1>5. 4 \in 1..4
  OBVIOUS
<1>6. 4 <= Len(a) /\ Len(a) \in 1..Len(a)
  BY <1>2, <1>4, <1>5
<1> QED
  BY <1>1, <1>2, <1>4, <1>6

(* t is the four bytes of s that follow the first k.                       *)
Field(t, s, k) == t \in Seq(Byte) /\ Len(t) = 4 /\ \A i \in 1..4 : t[i] = s[k + i]

LEMMA FourBytes ==
  ASSUME NEW s \in Seq(Byte), Len(s) >= 20,
         NEW m \in 1..17, NEW n \in 1..20, n = m + 3, NEW k \in 0..16, k = m - 1
  PROVE  Field(SubSeq(s, m, n), s, k)
<1> DEFINE t == SubSeq(s, m, n)
<1>1. Len(s) \in Nat /\ m \in Int /\ n \in Int
  BY LenProperties
<1>2. \A i \in m..n : i \in 1..Len(s)
  BY <1>1
<1>3. \A i \in m..n : s[i] \in Byte
  BY <1>2, ElementOfSeq
<1>4. n - m + 1 = 4 /\ m <= n /\ \A i \in 1..4 : m + i - 1 = k + i
  OBVIOUS
<1>5. /\ t \in Seq(Byte) /\ Len(t) = (IF m <= n THEN n - m + 1 ELSE 0)
      /\ \A i \in 1..(n - m + 1) : t[i] = s[m + i - 1]
  BY <1>1, <1>3, SubSeqProperties
<1> HIDE DEF t
<1>6. t \in Seq(Byte) /\ Len(t) = 4 /\ \A i \in 1..4 : t[i] = s[k + i]
  BY <1>4, <1>5
<1> QED
  BY <1>6 DEF t, Field

(* The addresses in a header.                                              *)
LEMMA AddressFields ==
  ASSUME NEW s \in Seq(Byte), Len(s) >= 20
  PROVE  Field(SourceAddress(s), s, 12) /\ Field(DestinationAddress(s), s, 16)
<1> DEFINE F(m, n, k) == Field(SubSeq(s, m, n), s, k)
<1>1. \A m \in 1..17, n \in 1..20, k \in 0..16 : n = m + 3 /\ k = m - 1 => F(m, n, k)
  BY FourBytes, Zenon
<1> HIDE DEF F
<1>2. F(13, 16, 12) /\ F(17, 20, 16)
  BY <1>1
<1> QED
  BY <1>2 DEF F, SourceAddress, DestinationAddress

LEMMA FieldEqual ==
  ASSUME NEW s, NEW k, NEW t, Field(t, s, k), NEW u, Field(u, s, k)
  PROVE  t = u
<1>1. t \in Seq(Byte) /\ u \in Seq(Byte) /\ Len(t) = Len(u) /\ \A i \in 1..Len(t) : t[i] = u[i]
  BY Zenon DEF Field
<1> QED
  BY <1>1, SeqEqual

LEMMA IPProps ==
  ASSUME NEW ip \in IPs \cup {<<>>}
  PROVE  /\ ip \in Seq(Byte)
         /\ IP4(ip) \in IPs /\ IP4(ip) \in Seq(Byte) /\ Len(IP4(ip)) = 4
<1>2. <<0, 0, 0, 0>> \in IPs
  BY DEF IPs, Byte, Base
<1>3. IP4(ip) \in IPs
  BY <1>2 DEF IP4
<1>4. <<>> \in Seq(Byte)
  BY EmptySeq
<1> QED
  BY <1>3, <1>4, IPSeq, Zenon

(* s is a followed by b.                                                   *)
Joins(s, a, b) ==
  /\ s \in Seq(Byte) /\ Len(s) = Len(a) + Len(b)
  /\ \A i \in 1..Len(a) : s[i] = a[i]
  /\ \A i \in 1..Len(b) : s[Len(a) + i] = b[i]

LEMMA JoinProps ==
  ASSUME NEW a \in Seq(Byte), NEW b \in Seq(Byte)
  PROVE  Joins(a \o b, a, b)
<1> DEFINE s == a \o b
<1>1. /\ s \in Seq(Byte) /\ Len(s) = Len(a) + Len(b)
      /\ \A i \in 1..Len(a) + Len(b) : s[i] = IF i <= Len(a) THEN a[i] ELSE b[i - Len(a)]
  BY ConcatProperties
<1>2. Len(a) \in Nat /\ Len(b) \in Nat
  BY LenProperties
<1> HIDE DEF s
<1>3. ASSUME NEW i \in 1..Len(a) PROVE s[i] = a[i]
  BY <1>1, <1>2
<1>4. ASSUME NEW i \in 1..Len(b) PROVE s[Len(a) + i] = b[i]
  <2>1. Len(a) + i \in 1..Len(a) + Len(b) /\ ~(Len(a) + i <= Len(a)) /\ Len(a) + i - Len(a) = i
    BY <1>2
  <2> QED
    BY <1>1, <2>1
<1> QED
  BY <1>1, <1>3, <1>4 DEF s, Joins

(* The bytes of an IP header without options, and of a UDP header.         *)
IsHeader(h, src, dst) ==
  /\ h \in Seq(Byte) /\ Len(h) = 20
  /\ h[1] = 69 /\ h[10] = UDPProtocolNumber
  /\ \A i \in 1..4 : h[12 + i] = src[i] /\ h[16 + i] = dst[i]

LEMMA EncodeProps ==
  ASSUME NEW totalLen \in Nat, NEW ttl \in Byte, NEW sum \in Nat,
         NEW src \in IPs \cup {<<>>}, NEW dst \in IPs \cup {<<>>}
  PROVE  IsHeader(Encode(totalLen, IPv4MinimumSize, ttl, UDPProtocolNumber, sum, src, dst),
                  IP4(src), IP4(dst))
<1> DEFINE a == <<69, 0>>
           b == PutUint16(totalLen)
           c == <<0, 0, 0, 0, ttl, UDPProtocolNumber>>
           d == PutUint16(sum)
           e == IP4(src)
           g == IP4(dst)
           ab == a \o b
           abc == ab \o c
           abcd == abc \o d
           abcde == abcd \o e
           all == abcde \o g
<1>1. a \in Seq(Byte) /\ Len(a) = 2 /\ a[1] = 69
  BY DEF Byte, Base
<1>2. b \in Seq(Byte) /\ Len(b) = 2 /\ d \in Seq(Byte) /\ Len(d) = 2
  BY PutUint16Type
<1>3. c \in Seq(Byte) /\ Len(c) = 6 /\ c[6] = UDPProtocolNumber
  BY DEF Byte, Base, UDPProtocolNumber
<1>4. e \in Seq(Byte) /\ Len(e) = 4 /\ g \in Seq(Byte) /\ Len(g) = 4
  BY IPProps
<1>5. Encode(totalLen, IPv4MinimumSize, ttl, UDPProtocolNumber, sum, src, dst) = all
  <2>1. 64 + ((IPv4MinimumSize \div 4) % 16) = 69
    BY DEF IPv4MinimumSize
  <2> QED
    BY <2>1, Zenon DEF Encode
<1> HIDE DEF a, b, c, d, e, g
<1>6. ab \in Seq(Byte) /\ Len(ab) = 4 /\ ab[1] = 69
  <2>1. Joins(ab, a, b)
    BY <1>1, <1>2, JoinProps, Zenon
  <2> HIDE DEF ab
  <2> QED
    BY <1>1, <1>2, <2>1 DEF Joins
<1> HIDE DEF ab
<1>7. abc \in Seq(Byte) /\ Len(abc) = 10 /\ abc[1] = 69 /\ abc[10] = UDPProtocolNumber
  <2>1. Joins(abc, ab, c)
    BY <1>3, <1>6, JoinProps, Zenon
  <2> HIDE DEF abc
  <2> QED
    BY <1>3, <1>6, <2>1 DEF Joins
<1> HIDE DEF abc
<1>8. abcd \in Seq(Byte) /\ Len(abcd) = 12 /\ abcd[1] = 69 /\ abcd[10] = UDPProtocolNumber
  <2>1. Joins(abcd, abc, d)
    BY <1>2, <1>7, JoinProps, Zenon
  <2> HIDE DEF abcd
  <2> QED
    BY <1>2, <1>7, <2>1 DEF Joins
<1> HIDE DEF abcd
<1>9. /\ abcde \in Seq(Byte) /\ Len(abcde) = 16
      /\ abcde[1] = 69 /\ abcde[10] = UDPProtocolNumber
      /\ \A i \in 1..4 : abcde[12 + i] = e[i]
  <2>1. Joins(abcde, abcd, e)
    BY <1>4, <1>8, JoinProps, Zenon
  <2> HIDE DEF abcde
  <2> QED
    BY <1>4, <1>8, <2>1 DEF Joins
<1> HIDE DEF abcde
<1>10. /\ all \in Seq(Byte) /\ Len(all) = 20
       /\ all[1] = 69 /\ all[10] = UDPProtocolNumber
       /\ \A i \in 1..4 : all[12 + i] = e[i] /\ all[16 + i] = g[i]
  <2>1. Joins(all, abcde, g)
    BY <1>4, <1>9, JoinProps, Zenon
  <2> HIDE DEF all
  <2> QED
    BY <1>4, <1>9, <2>1 DEF Joins
<1> QED
  BY <1>5, <1>10, Zenon DEF IsHeader, e, g

IsUDP(u, src, dst, length) ==
  /\ u \in Seq(Byte) /\ Len(u) = 8
  /\ u[1] * Base + u[2] = src
  /\ u[3] * Base + u[4] = dst
  /\ u[5] * Base + u[6] = length

LEMMA EncodeUDPProps ==
  ASSUME NEW src \in Uint16, NEW dst \in Uint16, NEW length \in Uint16, NEW sum \in Nat
  PROVE  IsUDP(EncodeUDP(src, dst, length, sum), src, dst, length)
<1> DEFINE a == PutUint16(src)
           b == PutUint16(dst)
           c == PutUint16(length)
           d == PutUint16(sum)
           ab == a \o b
           abc == ab \o c
           all == abc \o d
<1>1. src \in Nat /\ dst \in Nat /\ length \in Nat
  BY Uint16Range
<1>2. ASSUME NEW v \in Uint16
      PROVE  /\ PutUint16(v) \in Seq(Byte) /\ Len(PutUint16(v)) = 2
             /\ PutUint16(v)[1] * Base + PutUint16(v)[2] = v
  <2>1. v \in Nat
    BY Uint16Range
  <2> QED
    BY <2>1, PutUint16Type, Uint16RoundTrip
<1>3. /\ a \in Seq(Byte) /\ Len(a) = 2 /\ a[1] * Base + a[2] = src
      /\ b \in Seq(Byte) /\ Len(b) = 2 /\ b[1] * Base + b[2] = dst
      /\ c \in Seq(Byte) /\ Len(c) = 2 /\ c[1] * Base + c[2] = length
  BY <1>2, Zenon
<1>4. d \in Seq(Byte) /\ Len(d) = 2
  BY PutUint16Type
<1>5. EncodeUDP(src, dst, length, sum) = all
  BY Zenon DEF EncodeUDP
<1> HIDE DEF a, b, c, d
<1>6. /\ ab \in Seq(Byte) /\ Len(ab) = 4
      /\ ab[1] = a[1] /\ ab[2] = a[2] /\ ab[3] = b[1] /\ ab[4] = b[2]
  <2>1. Joins(ab, a, b)
    BY <1>3, JoinProps, Zenon
  <2> HIDE DEF ab
  <2> QED
    BY <1>3, <2>1 DEF Joins
<1> HIDE DEF ab
<1>7. /\ abc \in Seq(Byte) /\ Len(abc) = 6
      /\ abc[1] = ab[1] /\ abc[2] = ab[2] /\ abc[3] = ab[3] /\ abc[4] = ab[4]
      /\ abc[5] = c[1] /\ abc[6] = c[2]
  <2>1. Joins(abc, ab, c)
    BY <1>3, <1>6, JoinProps, Zenon
  <2> HIDE DEF abc
  <2> QED
    BY <1>3, <1>6, <2>1 DEF Joins
<1> HIDE DEF abc
<1>8. /\ all \in Seq(Byte) /\ Len(all) = 8
      /\ all[1] = abc[1] /\ all[2] = abc[2] /\ all[3] = abc[3] /\ all[4] = abc[4]
      /\ all[5] = abc[5] /\ all[6] = abc[6]
  <2>1. Joins(all, abc, d)
    BY <1>4, <1>7, JoinProps, Zenon
  <2> HIDE DEF all
  <2> QED
    BY <1>4, <1>7, <2>1 DEF Joins
<1> HIDE DEF all
<1> QED
  BY <1>3, <1>5, <1>6, <1>7, <1>8, Zenon DEF IsUDP

(* A header, a UDP header and data make a frame that says so.              *)
Sent(s, src, dst, data) ==
  [bytes |-> s, udp |-> TRUE, src |-> src, dst |-> dst, data |-> data, pad |-> <<>>]

LEMMA SentSays ==
  ASSUME NEW src \in UDPAddr, NEW dst \in UDPAddr, NEW data \in Seq(Byte), NEW h, NEW u,
         IsHeader(h, src.ip, dst.ip),
         IsUDP(u, src.port, dst.port, UDPMinimumSize + Len(data))
  PROVE  /\ Sent(h \o u \o data, src, dst, data) \in Frame
         /\ Says(Sent(h \o u \o data, src, dst, data))
<1> DEFINE l == Len(data)
           s == h \o u \o data
           f == Sent(s, src, dst, data)
           udp == Drop(s, 20)
<1>1. l \in Nat /\ h \in Seq(Byte) /\ Len(h) = 20 /\ u \in Seq(Byte) /\ Len(u) = 8
  BY LenProperties DEF IsHeader, IsUDP
<1>2. Joins(h \o u, h, u)
  BY <1>1, JoinProps
<1>3. Joins(s, h \o u, data)
  BY <1>2, JoinProps DEF Joins
<1> HIDE DEF s
<1>4. s \in Seq(Byte) /\ Len(s) = 28 + l
  BY <1>1, <1>2, <1>3 DEF Joins
<1>5. \A i \in 1..20 : s[i] = h[i]
  <2>1. \A i \in 1..20 : i \in 1..Len(h) /\ i \in 1..Len(h \o u)
    BY <1>1, <1>2 DEF Joins
  <2> QED
    BY <1>2, <1>3, <2>1, Zenon DEF Joins
<1>6. \A i \in 1..8 : s[20 + i] = u[i]
  <2>1. \A i \in 1..8 : /\ i \in 1..Len(u) /\ 20 + i \in 1..Len(h \o u)
                       /\ Len(h) + i = 20 + i
    BY <1>1, <1>2 DEF Joins
  <2> QED
    BY <1>2, <1>3, <2>1, Zenon DEF Joins
<1>7. \A i \in 1..l : s[28 + i] = data[i]
  <2>1. \A i \in 1..l : Len(h \o u) + i = 28 + i
    BY <1>1, <1>2 DEF Joins
  <2> QED
    BY <1>3, <2>1 DEF Joins
<1>8. s[1] = 69 /\ s[10] = UDPProtocolNumber
  BY <1>5 DEF IsHeader
<1>9. HeaderLength(s) = 20 /\ Protocol(s) = UDPProtocolNumber
  BY <1>8 DEF HeaderLength, Protocol
<1>10. /\ udp \in Seq(Byte) /\ Len(udp) = 8 + l
       /\ \A i \in 1..(8 + l) : udp[i] = s[20 + i]
  <2>1. 20 \in 0..Len(s) /\ Len(s) - 20 = 8 + l
    BY <1>1, <1>4
  <2> QED
    BY <1>4, <2>1, DropProps, Zenon
<1> HIDE DEF udp
<1>11. \A i \in 1..8 : udp[i] = u[i]
  <2>1. \A i \in 1..8 : i \in 1..(8 + l)
    BY <1>1
  <2> QED
    BY <1>6, <1>10, <2>1, Zenon
<1>12. /\ GetUint16(udp, 0) = src.port /\ GetUint16(udp, 2) = dst.port
       /\ GetUint16(udp, 4) = UDPMinimumSize + l
  BY <1>11 DEF GetUint16, IsUDP
<1>13. Drop(udp, 8) = data
  <2>1. 8 \in 0..Len(udp) /\ Len(udp) - 8 = l
    BY <1>1, <1>10
  <2>2. /\ Drop(udp, 8) \in Seq(Byte) /\ Len(Drop(udp, 8)) = l
        /\ \A i \in 1..l : Drop(udp, 8)[i] = udp[8 + i]
    <3>1. /\ Drop(udp, 8) \in Seq(Byte) /\ Len(Drop(udp, 8)) = Len(udp) - 8
          /\ \A i \in 1..(Len(udp) - 8) : Drop(udp, 8)[i] = udp[8 + i]
      BY <1>10, <2>1, DropProps, Zenon
    <3> QED
      BY <2>1, <3>1, Zenon
  <2>3. \A i \in 1..l : udp[8 + i] = data[i]
    <3>1. \A i \in 1..l : 8 + i \in 1..(8 + l) /\ 20 + (8 + i) = 28 + i
      BY <1>1
    <3> QED
      BY <1>7, <1>10, <3>1, Zenon
  <2> QED
    BY <2>2, <2>3, SeqEqual
<1>14. SourceAddress(s) = src.ip /\ DestinationAddress(s) = dst.ip
  <2>1. src.ip \in IPs /\ dst.ip \in IPs
    BY DEF UDPAddr
  <2>2. /\ src.ip \in Seq(Byte) /\ Len(src.ip) = 4 /\ dst.ip \in Seq(Byte) /\ Len(dst.ip) = 4
    BY <2>1, IPSeq
  <2>3. Len(s) >= 20
    BY <1>1, <1>4
  <2>4. Field(SourceAddress(s), s, 12) /\ Field(DestinationAddress(s), s, 16)
    BY <1>4, <2>3, AddressFields
  <2>5. \A i \in 1..4 : s[12 + i] = src.ip[i] /\ s[16 + i] = dst.ip[i]
    <3>1. \A i \in 1..4 : 12 + i \in 1..20 /\ 16 + i \in 1..20
      OBVIOUS
    <3>2. \A i \in 1..4 : h[12 + i] = src.ip[i] /\ h[16 + i] = dst.ip[i]
      BY Zenon DEF IsHeader
    <3>3. ASSUME NEW i \in 1..4 PROVE s[12 + i] = src.ip[i] /\ s[16 + i] = dst.ip[i]
      BY <1>5, <3>1, <3>2, Zenon
    <3> QED
      BY <3>3
  <2>6. Field(src.ip, s, 12) /\ Field(dst.ip, s, 16)
    BY <2>2, <2>5, Zenon DEF Field
  <2>7. SourceAddress(s) = src.ip
    BY <2>4, <2>6, FieldEqual
  <2>8. DestinationAddress(s) = dst.ip
    BY <2>4, <2>6, FieldEqual
  <2> QED
    BY <2>7, <2>8
<1>15. f \in Frame
  BY <1>4, EmptySeq DEF Frame, Sent
<1>16. data \o <<>> = data
  BY ConcatEmptySeq
<1>17. /\ src = [ip |-> src.ip, port |-> src.port]
       /\ dst = [ip |-> dst.ip, port |-> dst.port]
  BY DEF UDPAddr
<1>18. /\ f.bytes = s /\ f.udp = TRUE /\ f.src = src /\ f.dst = dst
       /\ f.data = data /\ f.pad = <<>>
  BY DEF Sent
<1>19. /\ 20 >= IPv4MinimumSize /\ 28 + l >= 20 + UDPMinimumSize /\ UDPMinimumSize = 8
       /\ 28 + l >= IPv4MinimumSize
  BY <1>1 DEF IPv4MinimumSize, UDPMinimumSize
<1> HIDE DEF f
<1>20. Says(f)
  BY <1>4, <1>9, <1>12, <1>13, <1>14, <1>16, <1>17, <1>18, <1>19
     DEF Says, SourcePort, DestinationPort, udp
<1> QED
  BY <1>15, <1>20 DEF f, s

LEMMA IP4Same == \A ip \in IPs : IP4(ip) = ip
<1> SUFFICES ASSUME NEW ip \in IPs PROVE ip # <<>>
  BY Zenon DEF IP4
<1>1. Len(ip) = 4
  BY IPSeq
<1>2. Len(<<>>) = 0
  BY EmptySeq
<1> QED
  BY <1>1, <1>2

LEMMA udp4pktSays ==
  ASSUME NEW packet \in Seq(Byte), UDPMinimumSize + Len(packet) \in Uint16,
         NEW dest \in UDPAddr, NEW src \in [ip : IPs \cup {<<>>}, port : Uint16]
  PROVE  LET f == Sent(udp4pkt(packet, dest, src), [src EXCEPT !.ip = IP4(@)], dest, packet)
         IN f \in Frame /\ Says(f)
<1> DEFINE from == [src EXCEPT !.ip = IP4(@)]
           length == UDPMinimumSize + Len(packet)
           Header(sum) == Encode(IPv4MinimumSize + UDPMinimumSize + Len(packet), IPv4MinimumSize,
                                 30, UDPProtocolNumber, sum, src.ip, dest.ip)
           xsum == Checksum(packet, PseudoHeaderChecksum(UDPProtocolNumber, src.ip, dest.ip))
           udp == EncodeUDP(src.port, dest.port, length, 0)
           hsum == Not(Checksum(Header(0), 0))
           usum == Not(CalculateChecksum(udp, xsum, length))
           h == Header(hsum)
           u == EncodeUDP(src.port, dest.port, length, usum)
<1>1. /\ src.ip \in IPs \cup {<<>>} /\ src.port \in Uint16
      /\ dest.ip \in IPs /\ dest.port \in Uint16
  BY DEF UDPAddr
<1>2. from \in UDPAddr /\ from.ip = IP4(src.ip) /\ from.port = src.port /\ IP4(dest.ip) = dest.ip
  BY <1>1, IPProps, IP4Same DEF UDPAddr
<1>3. /\ IPv4MinimumSize + UDPMinimumSize + Len(packet) \in Nat /\ 30 \in Byte
      /\ length \in Uint16 /\ 0 \in Nat
  BY LenProperties DEF IPv4MinimumSize, UDPMinimumSize, Byte, Base
<1>4. ASSUME NEW sum \in Nat PROVE IsHeader(Header(sum), from.ip, dest.ip)
  BY <1>1, <1>2, <1>3, EncodeProps
<1>5. ASSUME NEW sum \in Nat
      PROVE  IsUDP(EncodeUDP(src.port, dest.port, length, sum), from.port, dest.port, length)
  BY <1>1, <1>2, <1>3, EncodeUDPProps
<1>6. udp4pkt(packet, dest, src) = h \o u \o packet
  BY Zenon DEF udp4pkt
<1> HIDE DEF Header
<1>7. hsum \in Nat
  <2>1. Header(0) \in Seq(Byte)
    BY <1>4 DEF IsHeader
  <2> QED
    BY <1>3, <2>1, ChecksumType, NotType, Uint16Range, Zenon
<1>8. usum \in Nat
  <2>1. src.ip \in Seq(Byte) /\ dest.ip \in Seq(Byte)
    BY <1>1, IPProps, Zenon
  <2>2. <<0, UDPProtocolNumber>> \in Seq(Byte)
    BY DEF UDPProtocolNumber, Byte, Base
  <2>3. \A b \in Seq(Byte), i \in Nat : Checksum(b, i) \in Nat
    BY ChecksumType, Uint16Range, Zenon
  <2>4. PseudoHeaderChecksum(UDPProtocolNumber, src.ip, dest.ip) \in Nat
    BY <1>3, <2>1, <2>2, <2>3, Zenon DEF PseudoHeaderChecksum
  <2>5. xsum \in Nat
    BY <2>3, <2>4
  <2>6. udp \in Seq(Byte)
    BY <1>3, <1>5 DEF IsUDP
  <2>7. length \in Nat
    BY <1>3, Uint16Range
  <2> HIDE DEF udp, xsum, length
  <2>8. PutUint16(length) \in Seq(Byte)
    BY <2>7, PutUint16Type
  <2>9. Checksum(PutUint16(length), xsum) \in Nat
    BY <2>3, <2>5, <2>8, Zenon
  <2>10. CalculateChecksum(udp, xsum, length) \in Uint16
    BY <2>6, <2>9, ChecksumType DEF CalculateChecksum
  <2> QED
    BY <2>10, NotType, Uint16Range
<1> HIDE DEF hsum, usum
<1>9. IsHeader(h, from.ip, dest.ip) /\ IsUDP(u, from.port, dest.port, length)
  BY <1>4, <1>5, <1>7, <1>8, Zenon
<1> HIDE DEF h, u, from
<1>10. /\ Sent(h \o u \o packet, from, dest, packet) \in Frame
       /\ Says(Sent(h \o u \o packet, from, dest, packet))
  BY <1>2, <1>9, SentSays
<1> QED
  BY <1>6, <1>10, Zenon DEF from

LEMMA MakeRawSays ==
  ASSUME NEW payload \in Seq(Byte), UDPMinimumSize + Len(payload) \in Uint16,
         NEW server \in UDPAddr, NEW client \in UDPAddr
  PROVE  LET f == Sent(MakeRawUDPPacket(payload, server, client), client, server, payload)
         IN f \in Frame /\ Says(f)
<1> DEFINE length == UDPMinimumSize + Len(payload)
           Header(sum) == Encode(IPv4MinimumSize + UDPMinimumSize + Len(payload), IPv4MinimumSize,
                                 64, UDPProtocolNumber, sum, client.ip, server.ip)
           hsum == Not(Checksum(Header(0), 0))
           h == Header(hsum)
           u == EncodeUDP(client.port, server.port, length, 0)
<1>1. /\ client.ip \in IPs /\ client.port \in Uint16
      /\ server.ip \in IPs /\ server.port \in Uint16
  BY DEF UDPAddr
<1>2. IP4(client.ip) = client.ip /\ IP4(server.ip) = server.ip
  BY <1>1, IP4Same
<1>3. /\ IPv4MinimumSize + UDPMinimumSize + Len(payload) \in Nat /\ 64 \in Byte
      /\ length \in Uint16 /\ 0 \in Nat
  BY LenProperties DEF IPv4MinimumSize, UDPMinimumSize, Byte, Base
<1>4. ASSUME NEW sum \in Nat PROVE IsHeader(Header(sum), client.ip, server.ip)
  BY <1>1, <1>2, <1>3, EncodeProps
<1>5. IsUDP(u, client.port, server.port, length)
  BY <1>1, <1>3, EncodeUDPProps
<1>6. MakeRawUDPPacket(payload, server, client) = h \o u \o payload
  BY Zenon DEF MakeRawUDPPacket
<1> HIDE DEF Header
<1>7. hsum \in Nat
  <2>1. Header(0) \in Seq(Byte)
    BY <1>4 DEF IsHeader
  <2> QED
    BY <1>3, <2>1, ChecksumType, NotType, Uint16Range, Zenon
<1> HIDE DEF hsum
<1>8. IsHeader(h, client.ip, server.ip)
  BY <1>4, <1>7, Zenon
<1> HIDE DEF h, u
<1>9. /\ Sent(h \o u \o payload, client, server, payload) \in Frame
      /\ Says(Sent(h \o u \o payload, client, server, payload))
  BY <1>5, <1>8, SentSays
<1> QED
  BY <1>6, <1>9, Zenon

-----------------------------------------------------------------------------
(* Reading a frame.                                                        *)

(* A buffer for the longest headers gets the headers of the frame.         *)
SameHeaders(a, b, len) ==
  /\ HeaderLength(a) = HeaderLength(b) /\ Protocol(a) = Protocol(b)
  /\ SourceAddress(a) = SourceAddress(b) /\ DestinationAddress(a) = DestinationAddress(b)
  /\ SourcePort(Drop(a, len)) = SourcePort(Drop(b, len))
  /\ DestinationPort(Drop(a, len)) = DestinationPort(Drop(b, len))
  /\ GetUint16(Drop(a, len), 4) = GetUint16(Drop(b, len), 4)

LEMMA HeaderLengthRange ==
  ASSUME NEW s \in Seq(Byte), Len(s) >= 1
  PROVE  HeaderLength(s) \in 0..60
<1>1. s[1] \in Byte
  BY LenProperties
<1>2. \A b \in Byte : b % 16 \in 0..15
  BY DEF Byte, Base
<1>3. \A q \in 0..15 : q * 4 \in 0..60
  OBVIOUS
<1> QED
  BY <1>1, <1>2, <1>3, Zenon DEF HeaderLength

LEMMA CutHeaders ==
  ASSUME NEW s \in Seq(Byte), NEW len \in 20..60, Len(s) >= len + 8, NEW m \in Nat, m >= 68
  PROVE  SameHeaders(Take(s, m), s, len)
<1> DEFINE t == Take(s, m)
           u == Drop(t, len)
           w == Drop(s, len)
<1>1. /\ Len(s) \in Nat /\ len \in Nat /\ t \in Seq(Byte) /\ Len(t) \in Nat
      /\ Len(t) >= len + 8 /\ \A i \in 1..Len(t) : t[i] = s[i]
  <2>1. Len(s) \in Nat
    BY LenProperties
  <2>2. /\ t \in Seq(Byte) /\ Len(t) = (IF m < Len(s) THEN m ELSE Len(s))
        /\ \A i \in 1..Len(t) : t[i] = s[i]
    BY TakeProps
  <2> HIDE DEF t
  <2> QED
    BY <2>1, <2>2
<1> HIDE DEF t
<1>2. \A i \in 1..(len + 8) : t[i] = s[i]
  <2>1. \A i \in 1..(len + 8) : i \in 1..Len(t)
    BY <1>1
  <2> QED
    BY <1>1, <2>1, Zenon
<1>3. t[1] = s[1] /\ t[10] = s[10] /\ \A i \in 1..4 : t[12 + i] = s[12 + i] /\ t[16 + i] = s[16 + i]
  <2>1. /\ 1 \in 1..(len + 8) /\ 10 \in 1..(len + 8)
        /\ \A i \in 1..4 : 12 + i \in 1..(len + 8) /\ 16 + i \in 1..(len + 8)
    BY <1>1
  <2> QED
    BY <1>2, <2>1, Zenon
<1>4. Len(s) >= 20 /\ Len(t) >= 20
  BY <1>1
<1>5. SourceAddress(t) = SourceAddress(s)
  <2>1. Field(SourceAddress(t), t, 12) /\ Field(SourceAddress(s), s, 12)
    BY <1>1, <1>4, AddressFields, Zenon
  <2>2. Field(SourceAddress(t), s, 12)
    BY <1>3, <2>1, Zenon DEF Field
  <2> QED
    BY <2>1, <2>2, FieldEqual, Zenon
<1>6. DestinationAddress(t) = DestinationAddress(s)
  <2>1. Field(DestinationAddress(t), t, 16) /\ Field(DestinationAddress(s), s, 16)
    BY <1>1, <1>4, AddressFields, Zenon
  <2>2. Field(DestinationAddress(t), s, 16)
    BY <1>3, <2>1, Zenon DEF Field
  <2> QED
    BY <2>1, <2>2, FieldEqual, Zenon
<1>7. \A i \in 1..8 : u[i] = w[i]
  <2>1. len \in 0..Len(s) /\ len \in 0..Len(t)
    BY <1>1
  <2>2. \A i \in 1..(Len(t) - len) : u[i] = t[len + i]
    BY <1>1, <2>1, DropProps
  <2>3. \A i \in 1..(Len(s) - len) : w[i] = s[len + i]
    BY <2>1, DropProps
  <2>4. ASSUME NEW i \in 1..8 PROVE u[i] = w[i]
    <3>1. i \in 1..(Len(t) - len) /\ i \in 1..(Len(s) - len) /\ len + i \in 1..(len + 8)
      BY <1>1
    <3> QED
      BY <1>2, <2>2, <2>3, <3>1
  <2> QED
    BY <2>4
<1> HIDE DEF u, w
<1>8. /\ u[0 + 1] = w[0 + 1] /\ u[0 + 2] = w[0 + 2] /\ u[2 + 1] = w[2 + 1]
      /\ u[2 + 2] = w[2 + 2] /\ u[4 + 1] = w[4 + 1] /\ u[4 + 2] = w[4 + 2]
  BY <1>7
<1>9. /\ SourcePort(u) = SourcePort(w) /\ DestinationPort(u) = DestinationPort(w)
      /\ GetUint16(u, 4) = GetUint16(w, 4)
  BY <1>8, Zenon DEF SourcePort, DestinationPort, GetUint16
<1>10. /\ HeaderLength(t) = HeaderLength(s) /\ Protocol(t) = Protocol(s)
       /\ SourceAddress(t) = SourceAddress(s) /\ DestinationAddress(t) = DestinationAddress(s)
  BY <1>3, <1>5, <1>6, Zenon DEF HeaderLength, Protocol
<1> QED
  BY <1>9, <1>10, Zenon DEF SameHeaders, t, u, w

(* ReadFrom's buffer also gets as much of the data as the reader's.        *)
LEMMA CutData ==
  ASSUME NEW s \in Seq(Byte), NEW len \in 20..60, Len(s) >= len + 8, NEW n \in Nat
  PROVE  Take(Drop(Drop(Take(s, 68 + n), len), 8), n) = Take(Drop(Drop(s, len), 8), n)
<1> DEFINE L == Len(s)
           t == Take(s, 68 + n)
           tu == Drop(t, len)
           td == Drop(tu, 8)
           tn == Take(td, n)
           su == Drop(s, len)
           sd == Drop(su, 8)
           sn == Take(sd, n)
<1>1. L \in Nat /\ 68 + n \in Nat /\ len \in Nat
  BY LenProperties
<1>2. /\ t \in Seq(Byte) /\ Len(t) = (IF 68 + n < L THEN 68 + n ELSE L)
      /\ \A i \in 1..Len(t) : t[i] = s[i]
  BY <1>1, TakeProps
<1> HIDE DEF t
<1>3. len \in 0..L /\ len \in 0..Len(t) /\ Len(t) - len >= 8 /\ Len(t) \in Nat
  BY <1>1, <1>2
<1>4. /\ tu \in Seq(Byte) /\ Len(tu) = Len(t) - len
      /\ \A i \in 1..(Len(t) - len) : tu[i] = t[len + i]
  BY <1>2, <1>3, DropProps, Zenon
<1>5. /\ su \in Seq(Byte) /\ Len(su) = L - len
      /\ \A i \in 1..(L - len) : su[i] = s[len + i]
  BY <1>3, DropProps
<1> HIDE DEF tu, su
<1>6. 8 \in 0..Len(tu) /\ 8 \in 0..Len(su)
  BY <1>1, <1>3, <1>4, <1>5
<1>7. /\ td \in Seq(Byte) /\ Len(td) = Len(tu) - 8
      /\ \A i \in 1..(Len(tu) - 8) : td[i] = tu[8 + i]
  BY <1>4, <1>6, DropProps, Zenon
<1>8. /\ sd \in Seq(Byte) /\ Len(sd) = Len(su) - 8
      /\ \A i \in 1..(Len(su) - 8) : sd[i] = su[8 + i]
  BY <1>5, <1>6, DropProps
<1> HIDE DEF td, sd
<1>9. /\ tn \in Seq(Byte) /\ Len(tn) = (IF n < Len(td) THEN n ELSE Len(td))
      /\ \A i \in 1..Len(tn) : tn[i] = td[i]
  BY <1>7, TakeProps
<1>10. /\ sn \in Seq(Byte) /\ Len(sn) = (IF n < Len(sd) THEN n ELSE Len(sd))
       /\ \A i \in 1..Len(sn) : sn[i] = sd[i]
  BY <1>8, TakeProps
<1> HIDE DEF tn, sn
<1>11. Len(tn) = Len(sn)
  <2>1. Len(sd) = L - len - 8
    BY <1>1, <1>5, <1>8
  <2>2. Len(td) = (IF 68 + n < L THEN 68 + n ELSE L) - len - 8
    BY <1>1, <1>2, <1>4, <1>7
  <2> HIDE DEF L
  <2> QED
    BY <1>1, <1>9, <1>10, <2>1, <2>2
<1>12. ASSUME NEW i \in 1..Len(tn) PROVE tn[i] = sn[i]
  <2> DEFINE k == Len(tn)
  <2>1. Len(td) \in Nat /\ Len(sd) \in Nat
    BY <1>7, <1>8, LenProperties
  <2>2. k \in Nat /\ k <= Len(td) /\ k <= Len(sd)
    BY <1>9, <1>10, <1>11, <2>1
  <2>3. i \in 1..k /\ i \in 1..Len(sn)
    BY <1>11
  <2> HIDE DEF k
  <2>4. i \in Nat /\ i <= Len(tu) - 8 /\ i <= Len(su) - 8
    BY <1>7, <1>8, <2>1, <2>2, <2>3
  <2>5. /\ i \in 1..(Len(tu) - 8) /\ i \in 1..(Len(su) - 8)
        /\ 8 + i \in 1..(Len(t) - len) /\ 8 + i \in 1..(L - len)
        /\ len + (8 + i) \in 1..Len(t)
    BY <1>1, <1>3, <1>4, <1>5, <2>3, <2>4
  <2>6. tn[i] = tu[8 + i] /\ sn[i] = su[8 + i]
    BY <1>7, <1>8, <1>9, <1>10, <2>3, <2>5, Zenon
  <2>7. tu[8 + i] = t[len + (8 + i)] /\ su[8 + i] = s[len + (8 + i)]
    BY <1>4, <1>5, <2>5
  <2>8. t[len + (8 + i)] = s[len + (8 + i)]
    BY <1>2, <2>5
  <2> QED
    BY <2>6, <2>7, <2>8
<1>13. tn = sn
  BY <1>9, <1>10, <1>11, <1>12, SeqEqual
<1> QED
  BY <1>13 DEF tn, td, tu, t, sn, sd, su

Said == {f \in Frame : Says(f)}

(* One iteration of ReadFrom sees what the sender said.                    *)
ReadOf(f, n, pkt, udp) ==
  /\ Protocol(pkt) = UDPProtocolNumber <=> f.udp
  /\ f.udp => /\ f.dst = [ip |-> DestinationAddress(pkt), port |-> DestinationPort(udp)]
              /\ f.src = [ip |-> SourceAddress(pkt), port |-> SourcePort(udp)]
              /\ Take(Drop(udp, UDPMinimumSize), n) = Take(f.data \o f.pad, n)

LEMMA ReadSaid ==
  ASSUME NEW f \in Said, NEW n \in Nat
  PROVE  LET pkt == Take(f.bytes, IPv4MaximumHeaderSize + UDPMinimumSize + n)
         IN ReadOf(f, n, pkt, Drop(pkt, HeaderLength(pkt)))
<1> DEFINE s == f.bytes
           len == HeaderLength(s)
           m == 68 + n
           pkt == Take(s, m)
<1>1. f \in Frame /\ Says(f) /\ s \in Seq(Byte)
  BY DEF Said, Frame
<1>2. IPv4MaximumHeaderSize + UDPMinimumSize + n = m /\ m \in Nat /\ m >= 68
  BY DEF IPv4MaximumHeaderSize, UDPMinimumSize
<1>3. Len(s) >= 20 /\ len >= 20 /\ Len(s) >= len + 8
  BY <1>1 DEF Says, IPv4MinimumSize, UDPMinimumSize
<1>4. Len(s) \in Nat /\ Len(s) >= 1
  BY <1>1, <1>3, LenProperties
<1>5. len \in 20..60
  <2>1. len \in 0..60
    BY <1>1, <1>4, HeaderLengthRange, Zenon
  <2> HIDE DEF len
  <2> QED
    BY <1>3, <2>1
<1> HIDE DEF len, m
<1>6. SameHeaders(pkt, s, len)
  BY <1>1, <1>2, <1>3, <1>5, CutHeaders, Zenon
<1>7. Take(Drop(Drop(pkt, len), 8), n) = Take(Drop(Drop(s, len), 8), n)
  BY <1>1, <1>3, <1>5, CutData, Zenon DEF m
<1>8. HeaderLength(pkt) = len
  BY <1>6 DEF SameHeaders, len
<1>9. ReadOf(f, n, pkt, Drop(pkt, len))
  <2>1. f.udp <=> Protocol(s) = UDPProtocolNumber
    BY <1>1 DEF Says
  <2>2. ASSUME f.udp
        PROVE  /\ f.src = [ip |-> SourceAddress(s), port |-> SourcePort(Drop(s, len))]
               /\ f.dst = [ip |-> DestinationAddress(s), port |-> DestinationPort(Drop(s, len))]
               /\ Drop(Drop(s, len), UDPMinimumSize) = f.data \o f.pad
    BY <1>1, <2>2, Zenon DEF Says, len
  <2>3. UDPMinimumSize = 8
    BY DEF UDPMinimumSize
  <2> HIDE DEF pkt
  <2> QED
    BY <1>6, <1>7, <2>1, <2>2, <2>3, Zenon DEF SameHeaders, ReadOf
<1> QED
  BY <1>2, <1>8, <1>9, Zenon

LEMMA HeadTailJoin ==
  ASSUME NEW r \in Datum, NEW q \in Seq(Datum)
  PROVE  <<r>> \o q # <<>> /\ Head(<<r>> \o q) = r /\ Tail(<<r>> \o q) = q
<1> DEFINE o == <<r>>
           t == o \o q
<1>1. o \in Seq(Datum) /\ Len(o) = 1 /\ o[1] = r
  OBVIOUS
<1>2. Len(q) \in Nat
  BY LenProperties
<1> HIDE DEF o
<1>3. /\ t \in Seq(Datum) /\ Len(t) = Len(o) + Len(q)
      /\ \A i \in 1..Len(o) + Len(q) : t[i] = IF i <= Len(o) THEN o[i] ELSE q[i - Len(o)]
  BY <1>1, ConcatProperties, Zenon
<1> HIDE DEF t
<1>4. Len(t) = 1 + Len(q) /\ t # <<>>
  <2>1. Len(t) = 1 + Len(q)
    BY <1>1, <1>2, <1>3
  <2>2. Len(<<>>) = 0
    BY EmptySeq
  <2> QED
    BY <1>2, <2>1, <2>2
<1>5. t[1] = r /\ \A i \in 1..Len(q) : t[i + 1] = q[i]
  <2>1. /\ 1 \in 1..Len(o) + Len(q) /\ 1 <= Len(o)
        /\ \A i \in 1..Len(q) : /\ i + 1 \in 1..Len(o) + Len(q)
                               /\ ~(i + 1 <= Len(o)) /\ i + 1 - Len(o) = i
    BY <1>1, <1>2
  <2> QED
    BY <1>1, <1>3, <2>1
<1>6. /\ Tail(t) \in Seq(Datum) /\ Len(Tail(t)) = Len(t) - 1
      /\ \A i \in 1..Len(Tail(t)) : Tail(t)[i] = t[i + 1]
  BY <1>3, <1>4, HeadTailProperties
<1>7. Head(t) = t[1]
  BY <1>3, <1>4
<1>8. Tail(t) = q
  <2>1. Len(Tail(t)) = Len(q)
    BY <1>2, <1>4, <1>6
  <2>2. \A i \in 1..Len(q) : Tail(t)[i] = q[i]
    BY <1>5, <1>6, <2>1
  <2> QED
    BY <1>6, <2>1, <2>2, SeqEqual
<1> QED
  BY <1>4, <1>5, <1>7, <1>8 DEF t, o

-----------------------------------------------------------------------------
(* The steps.                                                              *)

(* The frames on their way say what their senders meant.                   *)
WireInv ==
  /\ conf \in Configs
  /\ inbox \in [Sockets -> Seq(Said)]
  /\ got = [c \in Sockets |-> got[c]]
  /\ frames \in Nat

(* A datagram that is put on the wire is delivered to the connections that *)
(* it reaches and that it is for; any other frame is not.                  *)
Carried(f) == f \in Said /\ (f.udp => Service(f) \in Datagrams)
Wired(f, from) == Broadcast(from, f.bytes, f.udp, f.src, f.dst, f.data, f.pad)

LEMMA BroadcastStep ==
  ASSUME WireInv, NEW f, NEW from, Carried(f), Wired(f, from)
  PROVE  WireInv' /\ [UDP!Next]_(UDP!vars)
<1>1. f \in Said /\ f \in Frame /\ f = [bytes |-> f.bytes, udp |-> f.udp, src |-> f.src, dst |-> f.dst,
                                       data |-> f.data, pad |-> f.pad]
  BY DEF Carried, Said, Frame
<1>2. /\ inbox' = [c \in Sockets |-> IF c \in from THEN inbox[c] ELSE Append(inbox[c], f)]
      /\ conf' = conf /\ got' = got /\ frames' = frames + 1
  BY <1>1 DEF Wired, Broadcast
<1>3. WireInv'
  <2>1. ASSUME NEW c \in Sockets PROVE inbox[c] \in Seq(Said) /\ Append(inbox[c], f) \in Seq(Said)
    <3>1. inbox[c] \in Seq(Said)
      BY DEF WireInv
    <3> QED
      BY <1>1, <3>1, AppendProperties
  <2>2. inbox' \in [Sockets -> Seq(Said)]
    BY <1>2, <2>1
  <2> QED
    BY <1>2, <2>2 DEF WireInv
<1> DEFINE S == Conns \ from
<1>4. ASSUME NEW c \in Conns
      PROVE  Kept(c, inbox'[c]) = IF c \in S /\ ForConn(c, f)
                                  THEN Append(Kept(c, inbox[c]), Received(f))
                                  ELSE Kept(c, inbox[c])
  <2>1. c \in Sockets
    BY DEF Sockets
  <2>2. inbox[c] \in Seq(Frame)
    <3>1. inbox[c] \in Seq(Said) /\ Said \subseteq Frame
      BY <2>1 DEF WireInv, Said
    <3> QED
      BY <3>1, SeqMonotonic
  <2>3. CASE c \in from
    BY <1>2, <2>1, <2>3
  <2>4. CASE c \notin from
    <3>1. inbox'[c] = Append(inbox[c], f)
      BY <1>2, <2>1, <2>4
    <3> QED
      BY <1>1, <2>2, <2>4, <3>1, KeptAppend, Zenon
  <2> QED
    BY <2>3, <2>4
<1>5. CASE f.udp
  <2>1. [c \in Conns |-> Kept(c, inbox'[c])] =
          [c \in Conns |-> IF c \in S /\ ForConn(c, f)
                           THEN Append([d \in Conns |-> Kept(d, inbox[d])][c], Received(f))
                           ELSE [d \in Conns |-> Kept(d, inbox[d])][c]]
    BY <1>4
  <2>2. \A c : ForConn(c, f) <=> UDP!For(c, Service(f).dst)
    BY <1>5 DEF ForConn, Service, UDP!For
  <2>3. Received(f) = [src |-> Service(f).src, data |-> Service(f).data]
    BY DEF Received, Service
  <2>4. UDP!Deliver(Service(f), S)
    BY <1>2, <2>1, <2>2, <2>3, Zenon DEF UDP!Deliver, Queue
  <2>5. S \in SUBSET Conns
    OBVIOUS
  <2>6. UDP!Next
    BY <1>5, <2>4, <2>5, Zenon DEF Carried, UDP!Next
  <2> QED
    BY <1>3, <2>6
<1>6. CASE ~f.udp
  <2>1. \A c \in Conns : Kept(c, inbox'[c]) = Kept(c, inbox[c])
    BY <1>4, <1>6 DEF ForConn
  <2>2. UNCHANGED UDP!vars
    BY <1>2, <2>1 DEF UDP!vars, Queue
  <2> QED
    BY <1>3, <2>2
<1> QED
  BY <1>5, <1>6

LEMMA WriteToStep ==
  ASSUME WireInv, NEW c \in Conns, NEW data \in Data, NEW dest \in Addrs, WriteTo(c, data, dest)
  PROVE  WireInv' /\ [UDP!Next]_(UDP!vars)
<1> DEFINE from == [bound[c] EXCEPT !.ip = IP4(@)]
           s == udp4pkt(data, dest, bound[c])
           f == Sent(s, from, dest, data)
<1>1. /\ data \in Seq(Byte) /\ UDPMinimumSize + Len(data) \in Uint16 /\ dest \in UDPAddr
      /\ bound[c] \in [ip : IPs \cup {<<>>}, port : Uint16]
  BY RawConnAssumption
<1>2. f \in Said
  BY <1>1, udp4pktSays DEF Said
<1>3. Broadcast({c}, s, TRUE, from, dest, data, <<>>)
  BY Zenon DEF WriteTo
<1>4. data \o <<>> = data
  BY <1>1, ConcatEmptySeq
<1>5. [src |-> from, dst |-> dest, data |-> data] \in Datagrams
  <2>1. [src |-> from, dst |-> dest, data |-> data] \in
          {[src |-> [bound[d] EXCEPT !.ip = IP4(@)], dst |-> e, data |-> a] :
             d \in Conns, e \in Addrs, a \in Data}
    OBVIOUS
  <2> QED
    BY <2>1 DEF Datagrams
<1> HIDE DEF from, s
<1>6. /\ f.bytes = s /\ f.udp = TRUE /\ f.src = from /\ f.dst = dest
      /\ f.data = data /\ f.pad = <<>>
  BY DEF Sent
<1> HIDE DEF f
<1>7. Service(f) \in Datagrams
  BY <1>4, <1>5, <1>6, Zenon DEF Service
<1>8. Carried(f) /\ Wired(f, {c})
  BY <1>2, <1>3, <1>6, <1>7, Zenon DEF Carried, Wired
<1>9. PICK g : g = f
  OBVIOUS
<1> QED
  BY <1>8, <1>9, BroadcastStep

LEMMA SendRawStep ==
  ASSUME WireInv, NEW data \in Data, SendRaw(data)
  PROVE  WireInv' /\ [UDP!Next]_(UDP!vars)
<1> DEFINE s == MakeRawUDPPacket(data, conf.raddr, conf.laddr)
           f == Sent(s, conf.laddr, conf.raddr, data)
<1>1. /\ data \in Seq(Byte) /\ UDPMinimumSize + Len(data) \in Uint16
      /\ conf \in Configs /\ conf.raddr \in UDPAddr /\ conf.laddr \in UDPAddr
  BY RawConnAssumption DEF WireInv
<1>2. f \in Said
  BY <1>1, MakeRawSays DEF Said
<1>3. Broadcast({Client4}, s, TRUE, conf.laddr, conf.raddr, data, <<>>)
  BY Zenon DEF SendRaw
<1>4. data \o <<>> = data
  BY <1>1, ConcatEmptySeq
<1>5. [src |-> conf.laddr, dst |-> conf.raddr, data |-> data] \in Datagrams
  <2>1. [src |-> conf.laddr, dst |-> conf.raddr, data |-> data] \in
          {[src |-> cf.laddr, dst |-> cf.raddr, data |-> a] : cf \in Configs, a \in Data}
    BY <1>1
  <2> QED
    BY <2>1 DEF Datagrams
<1> HIDE DEF s
<1>6. /\ f.bytes = s /\ f.udp = TRUE /\ f.src = conf.laddr /\ f.dst = conf.raddr
      /\ f.data = data /\ f.pad = <<>>
  BY DEF Sent
<1> HIDE DEF f
<1>7. Service(f) \in Datagrams
  BY <1>4, <1>5, <1>6, Zenon DEF Service
<1>8. Carried(f) /\ Wired(f, {Client4})
  BY <1>2, <1>3, <1>6, <1>7, Zenon DEF Carried, Wired
<1>9. PICK g : g = f
  OBVIOUS
<1> QED
  BY <1>8, <1>9, BroadcastStep

LEMMA ArriveStep ==
  ASSUME WireInv, NEW f \in Foreign, Arrive(f)
  PROVE  WireInv' /\ [UDP!Next]_(UDP!vars)
<1>1. f \in Said
  BY RawConnAssumption DEF Said
<1>2. ASSUME f.udp PROVE Service(f) \in Datagrams
  <2>1. Service(f) \in {Service(g) : g \in {h \in Foreign : h.udp}}
    BY <1>2
  <2> QED
    BY <2>1 DEF Datagrams
<1>3. Carried(f) /\ Wired(f, {})
  BY <1>1, <1>2, Zenon DEF Carried, Wired, Arrive
<1> QED
  BY <1>3, BroadcastStep

LEMMA TailInv ==
  ASSUME WireInv, NEW c \in Sockets, inbox[c] # <<>>,
         inbox' = [inbox EXCEPT ![c] = Tail(@)], conf' = conf, got' = [d \in Sockets |-> got'[d]],
         frames' = frames
  PROVE  /\ WireInv' /\ Head(inbox[c]) \in Said /\ inbox[c] \in Seq(Frame)
         /\ inbox'[c] = Tail(inbox[c]) /\ \A d \in Sockets \ {c} : inbox'[d] = inbox[d]
<1>1. inbox \in [Sockets -> Seq(Said)] /\ inbox[c] \in Seq(Said)
  BY DEF WireInv
<1>2. Tail(inbox[c]) \in Seq(Said) /\ Head(inbox[c]) \in Said
  BY <1>1, HeadTailProperties
<1>3. inbox' \in [Sockets -> Seq(Said)]
  BY <1>1, <1>2
<1>4. inbox[c] \in Seq(Frame)
  BY <1>1, SeqMonotonic DEF Said
<1>5. inbox'[c] = Tail(inbox[c]) /\ \A d \in Sockets \ {c} : inbox'[d] = inbox[d]
  BY <1>1
<1> QED
  BY <1>2, <1>3, <1>4, <1>5, Zenon DEF WireInv

(* Reading takes the frames off in order, and returns those which are for  *)
(* the connection.                                                         *)
LEMMA ReadFromStep ==
  ASSUME WireInv, NEW c \in Conns, NEW n \in Buffers, ReadFrom(c, n)
  PROVE  WireInv' /\ [UDP!Next]_(UDP!vars)
<1> DEFINE f == Head(inbox[c])
           pkt == Take(f.bytes, IPv4MaximumHeaderSize + UDPMinimumSize + n)
           udp == Drop(pkt, HeaderLength(pkt))
           addr == [ip |-> DestinationAddress(pkt), port |-> DestinationPort(udp)]
           src == [ip |-> SourceAddress(pkt), port |-> SourcePort(udp)]
           data == Take(Drop(udp, UDPMinimumSize), n)
<1>1. /\ c \in Sockets /\ n \in Nat /\ inbox[c] # <<>>
      /\ inbox' = [inbox EXCEPT ![c] = Tail(@)] /\ conf' = conf /\ frames' = frames
  BY RawConnAssumption, Zenon DEF ReadFrom, Sockets
<1>2. \/ /\ Protocol(pkt) = UDPProtocolNumber
         /\ udpMatch(addr, bound[c])
         /\ got' = [got EXCEPT ![c] = <<[src |-> src, data |-> data]>>]
      \/ /\ Protocol(pkt) # UDPProtocolNumber \/ ~udpMatch(addr, bound[c])
         /\ got' = got
  BY Zenon DEF ReadFrom
<1>3. got' = [d \in Sockets |-> got'[d]] /\ \A d \in Sockets \ {c} : got'[d] = got[d]
  BY <1>1, <1>2 DEF WireInv
<1>4. /\ WireInv' /\ f \in Said /\ inbox[c] \in Seq(Frame)
      /\ inbox'[c] = Tail(inbox[c]) /\ \A d \in Sockets \ {c} : inbox'[d] = inbox[d]
  BY <1>1, <1>3, TailInv, Zenon
<1>5. ReadOf(f, n, pkt, udp)
  BY <1>1, <1>4, ReadSaid
<1> HIDE DEF pkt, udp
<1>6. f.udp => f.dst = addr /\ f.src = src /\ data = Take(f.data \o f.pad, n)
  BY <1>5, Zenon DEF ReadOf
<1>7. ForConn(c, f) <=> Protocol(pkt) = UDPProtocolNumber /\ udpMatch(addr, bound[c])
  <2>1. f.udp <=> Protocol(pkt) = UDPProtocolNumber
    BY <1>5, Zenon DEF ReadOf
  <2> HIDE DEF f, addr
  <2> QED
    BY <1>6, <2>1 DEF ForConn, udpMatch
<1>8. /\ f \in Frame /\ Received(f) \in Datum /\ Tail(inbox[c]) \in Seq(Frame)
      /\ Kept(c, Tail(inbox[c])) \in Seq(Datum)
  BY <1>1, <1>4, ReceivedType, KeptType, HeadTailProperties, Zenon DEF Said
<1> HIDE DEF f, addr, src, data
<1> DEFINE q == Kept(c, Tail(inbox[c]))
<1>9. Kept(c, inbox[c]) = (IF ForConn(c, f) THEN <<Received(f)>> ELSE <<>>) \o q
  BY <1>1, <1>4, KeptTail, Zenon DEF f
<1>10. Kept(c, inbox'[c]) = q /\ \A d \in Conns \ {c} : Kept(d, inbox'[d]) = Kept(d, inbox[d])
  BY <1>4 DEF Sockets
<1> HIDE DEF q
<1>11. CASE ForConn(c, f)
  <2>1. got' = [got EXCEPT ![c] = <<[src |-> src, data |-> data]>>] /\ f.udp
    BY <1>2, <1>7, <1>11 DEF ForConn
  <2>2. /\ Kept(c, inbox[c]) # <<>> /\ Head(Kept(c, inbox[c])) = Received(f)
        /\ Tail(Kept(c, inbox[c])) = q
    BY <1>8, <1>9, <1>11, HeadTailJoin DEF q
  <2>3. [src |-> src, data |-> data] = [src |-> Received(f).src, data |-> Take(Received(f).data, n)]
    BY <1>6, <2>1 DEF Received
  <2>4. [d \in Conns |-> Kept(d, inbox'[d])] =
          [[d \in Conns |-> Kept(d, inbox[d])] EXCEPT ![c] = q]
    BY <1>10, Zenon
  <2>5. [d \in Conns |-> got'[d]] =
          [[d \in Conns |-> got[d]] EXCEPT
             ![c] = <<[src |-> Received(f).src, data |-> Take(Received(f).data, n)]>>]
    <3> DEFINE v == <<[src |-> Received(f).src, data |-> Take(Received(f).data, n)]>>
    <3>1. got' = [got EXCEPT ![c] = v]
      BY <2>1, <2>3, Zenon
    <3> HIDE DEF v
    <3>2. got'[c] = v /\ \A d \in Conns \ {c} : got'[d] = got[d]
      BY <1>1, <3>1 DEF WireInv, Sockets
    <3>3. [d \in Conns |-> got'[d]] = [[d \in Conns |-> got[d]] EXCEPT ![c] = v]
      BY <3>2, Zenon
    <3> QED
      BY <3>3 DEF v
  <2>6. UDP!Receive(c, n)
    <3> DEFINE k == [d \in Conns |-> Kept(d, inbox[d])]
    <3>1. k[c] = Kept(c, inbox[c])
      OBVIOUS
    <3> HIDE DEF k
    <3>2. k[c] # <<>> /\ Head(k[c]) = Received(f) /\ Tail(k[c]) = q
      BY <2>2, <3>1
    <3>3. [d \in Conns |-> got'[d]] =
            [[d \in Conns |-> got[d]] EXCEPT
               ![c] = <<[src |-> Head(k[c]).src, data |-> Take(Head(k[c]).data, n)]>>]
      BY <2>5, <3>2, Zenon
    <3>4. [d \in Conns |-> Kept(d, inbox'[d])] = [k EXCEPT ![c] = Tail(k[c])]
      BY <2>4, <3>2, Zenon DEF k
    <3> QED
      BY <3>2, <3>3, <3>4, Zenon DEF UDP!Receive, Queue, Take, k
  <2>7. UDP!Next
    BY <2>6, Zenon DEF UDP!Next
  <2> QED
    BY <1>4, <2>7
<1>12. CASE ~ForConn(c, f)
  <2>1. got' = got
    BY <1>2, <1>7, <1>12
  <2>2. Kept(c, inbox[c]) = q
    BY <1>8, <1>9, <1>12, ConcatEmptySeq DEF q
  <2>3. \A d \in Conns : Kept(d, inbox'[d]) = Kept(d, inbox[d])
    BY <1>10, <2>2
  <2>4. UNCHANGED UDP!vars
    BY <2>1, <2>3 DEF UDP!vars, Queue
  <2> QED
    BY <1>4, <2>4
<1> QED
  BY <1>11, <1>12

LEMMA RecvfromStep ==
  ASSUME WireInv, Recvfrom
  PROVE  WireInv' /\ [UDP!Next]_(UDP!vars)
<1>1. /\ Client4 \in Sockets /\ inbox[Client4] # <<>>
      /\ inbox' = [inbox EXCEPT ![Client4] = Tail(@)] /\ conf' = conf /\ frames' = frames
  BY Zenon DEF Recvfrom, Sockets
<1>2. got' = got \/ \E v : got' = [got EXCEPT ![Client4] = v]
  BY Zenon DEF Recvfrom
<1>3. got' = [d \in Sockets |-> got'[d]] /\ \A d \in Sockets \ {Client4} : got'[d] = got[d]
  BY <1>1, <1>2 DEF WireInv
<1>4. WireInv' /\ \A d \in Sockets \ {Client4} : inbox'[d] = inbox[d]
  BY <1>1, <1>3, TailInv, Zenon
<1>5. \A d \in Conns : inbox'[d] = inbox[d] /\ got'[d] = got[d]
  BY <1>3, <1>4, RawConnAssumption DEF Sockets
<1>6. UNCHANGED UDP!vars
  BY <1>5 DEF UDP!vars, Queue
<1> QED
  BY <1>4, <1>6

LEMMA WireStep ==
  ASSUME WireInv, [Next]_vars
  PROVE  WireInv' /\ [UDP!Next]_(UDP!vars)
<1>1. CASE UNCHANGED vars
  BY <1>1 DEF vars, WireInv, UDP!vars, Queue
<1>2. CASE \E c \in Conns, data \in Data, dest \in Addrs : WriteTo(c, data, dest)
  BY <1>2, WriteToStep
<1>3. CASE \E data \in Data : SendRaw(data)
  BY <1>3, SendRawStep
<1>4. CASE \E f \in Foreign : Arrive(f)
  BY <1>4, ArriveStep
<1>5. CASE \E c \in Conns, n \in Buffers : ReadFrom(c, n)
  BY <1>5, ReadFromStep
<1>6. CASE Recvfrom
  BY <1>6, RecvfromStep
<1> QED
  BY <1>1, <1>2, <1>3, <1>4, <1>5, <1>6 DEF Next

LEMMA WireInit == Init => WireInv /\ UDP!Init
<1> SUFFICES ASSUME Init PROVE WireInv /\ UDP!Init
  OBVIOUS
<1>1. <<>> \in Seq(Said)
  BY EmptySeq
<1>2. WireInv
  BY <1>1 DEF Init, WireInv
<1>3. \A c \in Conns : inbox[c] = <<>> /\ got[c] = <<>>
  BY DEF Init, Sockets
<1>4. \A c \in Conns : Kept(c, inbox[c]) = <<>>
  BY <1>3, KeptEmpty
<1>5. UDP!Init
  BY <1>3, <1>4 DEF UDP!Init, Queue
<1> QED
  BY <1>2, <1>5

(* BroadcastRawUDPConn implements UDPService: what WriteTo, client4's      *)
(* MakeRawUDPPacket and other hosts put on the wire, ReadFrom returns once *)
(* and in order to the connections that it is for.                         *)
THEOREM RawConnImplementsUDP == Spec => ImplementsUDP
<1>1. Init => WireInv /\ UDP!Init
  BY WireInit
<1>2. WireInv /\ [Next]_vars => WireInv' /\ [UDP!Next]_(UDP!vars)
  BY WireStep
<1> QED
  BY <1>1, <1>2, PTL DEF Spec, ImplementsUDP, UDP!Spec

-----------------------------------------------------------------------------
(* client4's receiver.                                                     *)

LEMMA Zeros ==
  ASSUME NEW n \in Nat, NEW z, z = [i \in 1..n |-> 0]
  PROVE  z \in Seq(Byte) /\ Len(z) = n /\ \A i \in 1..n : z[i] = 0
<1>1. z \in [1..n -> Byte]
  BY DEF Byte, Base
<1>2. z \in Seq(Byte)
  BY <1>1, SeqDef
<1>3. Len(z) \in Nat /\ 1..Len(z) = 1..n
  BY <1>1, <1>2, LenProperties
<1>4. Len(z) = n
  <2>1. ASSUME Len(z) < n PROVE FALSE
    <3>1. n \in 1..n /\ n \notin 1..Len(z)
      BY <1>3, <2>1
    <3> QED
      BY <1>3, <3>1, Zenon
  <2>2. ASSUME n < Len(z) PROVE FALSE
    <3>1. Len(z) \in 1..Len(z) /\ Len(z) \notin 1..n
      BY <1>3, <2>2
    <3> QED
      BY <1>3, <3>1, Zenon
  <2> QED
    BY <1>3, <2>1, <2>2
<1> QED
  BY <1>2, <1>4

(* The data of a frame, and how long the frame is.                         *)
Placed(s, len, data, pad) ==
  /\ Len(s) = len + 8 + Len(data) + Len(pad)
  /\ \A i \in 1..Len(data) : s[len + 8 + i] = data[i]
  /\ \A i \in 1..Len(pad) : s[len + 8 + Len(data) + i] = pad[i]

LEMMA DataPlace ==
  ASSUME NEW s \in Seq(Byte), NEW len \in 20..60, Len(s) >= len + 8,
         NEW data \in Seq(Byte), NEW pad \in Seq(Byte), Drop(Drop(s, len), 8) = data \o pad
  PROVE  Placed(s, len, data, pad)
<1> DEFINE u == Drop(s, len)
           d == Drop(u, 8)
           a == Len(data)
           b == Len(pad)
<1>1. Len(s) \in Nat /\ len \in Nat /\ len \in 0..Len(s) /\ a \in Nat /\ b \in Nat
  BY LenProperties
<1>2. /\ u \in Seq(Byte) /\ Len(u) = Len(s) - len
      /\ \A i \in 1..(Len(s) - len) : u[i] = s[len + i]
  BY <1>1, DropProps
<1> HIDE DEF u
<1>3. 8 \in 0..Len(u)
  BY <1>1, <1>2
<1>4. /\ d \in Seq(Byte) /\ Len(d) = Len(u) - 8
      /\ \A i \in 1..(Len(u) - 8) : d[i] = u[8 + i]
  BY <1>2, <1>3, DropProps, Zenon
<1>5. Joins(d, data, pad)
  BY JoinProps, Zenon DEF u
<1> HIDE DEF d
<1>6. Len(u) - 8 = a + b /\ Len(s) - len = 8 + (a + b) /\ Len(s) = len + 8 + a + b
  BY <1>1, <1>2, <1>4, <1>5 DEF Joins
<1>7. ASSUME NEW i \in 1..(a + b) PROVE d[i] = s[len + 8 + i]
  <2>1. /\ i \in 1..(Len(u) - 8) /\ 8 + i \in 1..(Len(s) - len)
        /\ len + (8 + i) = len + 8 + i
    BY <1>1, <1>6
  <2>2. d[i] = u[8 + i] /\ u[8 + i] = s[len + (8 + i)]
    BY <1>2, <1>4, <2>1, Zenon
  <2> QED
    BY <2>1, <2>2
<1>8. ASSUME NEW i \in 1..a PROVE s[len + 8 + i] = data[i]
  <2>1. i \in 1..(a + b)
    BY <1>1
  <2>2. d[i] = data[i]
    BY <1>5 DEF Joins
  <2> QED
    BY <1>7, <2>1, <2>2
<1>9. ASSUME NEW i \in 1..b PROVE s[len + 8 + a + i] = pad[i]
  <2>1. a + i \in 1..(a + b) /\ len + 8 + (a + i) = len + 8 + a + i
    BY <1>1
  <2>2. d[a + i] = pad[i]
    BY <1>5 DEF Joins
  <2>3. d[a + i] = s[len + 8 + (a + i)]
    BY <1>7, <2>1
  <2> QED
    BY <2>1, <2>2, <2>3
<1> QED
  BY <1>6, <1>8, <1>9 DEF Placed

(* s followed by zeros, up to k bytes.                                     *)
Padded(t, s, k) ==
  /\ t \in Seq(Byte) /\ Len(t) = k
  /\ \A i \in 1..k : t[i] = IF i <= Len(s) THEN s[i] ELSE 0

LEMMA BufferProps ==
  ASSUME NEW s \in Seq(Byte), NEW k \in Nat
  PROVE  Padded(Take(s, k) \o [i \in 1..(k - Len(Take(s, k))) |-> 0], s, k)
<1> DEFINE t == Take(s, k)
           n == k - Len(t)
           z == [i \in 1..n |-> 0]
           b == t \o z
<1>1. Len(s) \in Nat
  BY LenProperties
<1>2. /\ t \in Seq(Byte) /\ Len(t) = (IF k < Len(s) THEN k ELSE Len(s))
      /\ \A i \in 1..Len(t) : t[i] = s[i]
  BY TakeProps
<1> HIDE DEF t
<1>3. n \in Nat /\ Len(t) \in Nat /\ Len(t) + n = k
  BY <1>1, <1>2
<1>4. z \in Seq(Byte) /\ Len(z) = n /\ \A i \in 1..n : z[i] = 0
  BY <1>3, Zeros, Zenon
<1> HIDE DEF z, n
<1>5. Joins(b, t, z)
  BY <1>2, <1>4, JoinProps
<1> HIDE DEF b
<1>6. b \in Seq(Byte) /\ Len(b) = k
  BY <1>3, <1>4, <1>5 DEF Joins
<1>7. ASSUME NEW i \in 1..k PROVE b[i] = IF i <= Len(s) THEN s[i] ELSE 0
  <2>1. CASE i <= Len(s)
    <3>1. i \in 1..Len(t)
      BY <1>1, <1>2, <2>1
    <3> QED
      BY <1>2, <1>5, <2>1, <3>1 DEF Joins
  <2>2. CASE ~(i <= Len(s))
    <3>1. i - Len(t) \in 1..n /\ Len(t) + (i - Len(t)) = i
      BY <1>1, <1>2, <1>3, <2>2
    <3>2. b[Len(t) + (i - Len(t))] = z[i - Len(t)]
      BY <1>4, <1>5, <3>1 DEF Joins
    <3> QED
      BY <1>4, <2>2, <3>1, <3>2
  <2> QED
    BY <2>1, <2>2
<1> QED
  BY <1>6, <1>7, Zenon DEF Padded, b, z, n, t

LEMMA TakePadded ==
  ASSUME NEW pad \in Seq(Byte)
  PROVE  Padded(Take(pad \o [i \in 1..8 |-> 0], 8), pad, 8)
<1> DEFINE z == [i \in 1..8 |-> 0]
           t == pad \o z
           e == Take(t, 8)
<1>1. Len(pad) \in Nat
  BY LenProperties
<1>2. z \in Seq(Byte) /\ Len(z) = 8 /\ \A i \in 1..8 : z[i] = 0
  BY Zeros, Zenon
<1> HIDE DEF z
<1>3. Joins(t, pad, z)
  BY <1>2, JoinProps
<1> HIDE DEF t
<1>4. t \in Seq(Byte) /\ Len(t) = Len(pad) + 8
  BY <1>2, <1>3 DEF Joins
<1>5. e \in Seq(Byte) /\ Len(e) = 8 /\ \A i \in 1..8 : e[i] = t[i]
  <2>1. /\ e \in Seq(Byte) /\ Len(e) = (IF 8 < Len(t) THEN 8 ELSE Len(t))
        /\ \A i \in 1..Len(e) : e[i] = t[i]
    BY <1>4, TakeProps, Zenon
  <2> HIDE DEF e
  <2>2. Len(e) = 8
    BY <1>1, <1>4, <2>1
  <2> QED
    BY <2>1, <2>2, Zenon
<1> HIDE DEF e
<1>6. ASSUME NEW i \in 1..8 PROVE t[i] = IF i <= Len(pad) THEN pad[i] ELSE 0
  <2>1. CASE i <= Len(pad)
    <3>1. i \in 1..Len(pad)
      BY <1>1, <2>1
    <3> QED
      BY <1>3, <2>1, <3>1 DEF Joins
  <2>2. CASE ~(i <= Len(pad))
    <3>1. i - Len(pad) \in 1..8 /\ Len(pad) + (i - Len(pad)) = i
      BY <1>1, <2>2
    <3>2. t[Len(pad) + (i - Len(pad))] = z[i - Len(pad)]
      BY <1>2, <1>3, <3>1, Zenon DEF Joins
    <3> QED
      BY <1>2, <2>2, <3>1, <3>2
  <2> QED
    BY <2>1, <2>2
<1> QED
  BY <1>5, <1>6 DEF Padded, e, t, z

PayloadIs(buf, len, pLen, data, e) == Payload(buf, len, pLen) = data \o e

LEMMA PayloadProps ==
  ASSUME NEW s \in Seq(Byte), NEW len \in 20..60,
         NEW data \in Seq(Byte), NEW pad \in Seq(Byte), Placed(s, len, data, pad),
         NEW k \in Nat, NEW pLen, pLen = 8 + Len(data), len + 8 + pLen <= k,
         NEW buf, Padded(buf, s, k), NEW e, Padded(e, pad, 8)
  PROVE  PayloadIs(buf, len, pLen, data, e)
<1> DEFINE a == Len(data)
           b == Len(pad)
           m == len + 9
           n == len + 8 + (8 + a)
           x == SubSeq(buf, m, n)
           y == data \o e
<1>1. a \in Nat /\ b \in Nat /\ len \in Nat
  BY LenProperties
<1>2. m \in Int /\ n \in Int /\ \A i \in m..n : i \in 1..k
  BY <1>1
<1>3. \A i \in m..n : buf[i] \in Byte
  BY <1>2, ElementOfSeq DEF Padded
<1>4. n - m + 1 = 8 + a /\ m <= n /\ \A i \in 1..(8 + a) : m + i - 1 = len + 8 + i
  BY <1>1
<1> HIDE DEF m, n
<1>5. /\ x \in Seq(Byte) /\ Len(x) = (IF m <= n THEN n - m + 1 ELSE 0)
      /\ \A i \in 1..(n - m + 1) : x[i] = buf[m + i - 1]
  BY <1>2, <1>3, SubSeqProperties
<1> HIDE DEF x
<1>6. Len(x) = 8 + a /\ \A i \in 1..(8 + a) : x[i] = buf[len + 8 + i]
  BY <1>4, <1>5
<1>7. Joins(y, data, e)
  BY JoinProps DEF Padded
<1> HIDE DEF y
<1>8. y \in Seq(Byte) /\ Len(y) = 8 + a
  <2>1. Len(y) = a + Len(e) /\ Len(e) = 8 /\ y \in Seq(Byte)
    BY <1>7 DEF Joins, Padded
  <2> QED
    BY <1>1, <2>1
<1>9. ASSUME NEW i \in 1..(8 + a) PROVE buf[len + 8 + i] = y[i]
  <2>1. len + 8 + i \in 1..k
    BY <1>1
  <2>2. buf[len + 8 + i] = IF len + 8 + i <= Len(s) THEN s[len + 8 + i] ELSE 0
    BY <2>1, Zenon DEF Padded
  <2>3. CASE i <= a
    <3>1. i \in 1..a /\ len + 8 + i <= Len(s)
      BY <1>1, <2>3 DEF Placed
    <3>2. y[i] = data[i] /\ s[len + 8 + i] = data[i]
      BY <1>7, <3>1 DEF Joins, Placed
    <3> QED
      BY <2>2, <3>1, <3>2
  <2>4. CASE ~(i <= a)
    <3> DEFINE j == i - a
    <3>1. /\ j \in 1..8 /\ a + j = i /\ len + 8 + a + j = len + 8 + i
          /\ (len + 8 + i <= Len(s) <=> j <= b) /\ (j <= b => j \in 1..b)
      <4> HIDE DEF a, b
      <4>1. Len(s) = len + 8 + a + b
        BY DEF a, b, Placed
      <4>2. j \in 1..8 /\ a + j = i
        BY <1>1, <2>4
      <4> QED
        BY <1>1, <4>1, <4>2
    <3> HIDE DEF j
    <3>2. y[a + j] = e[j]
      <4>1. j \in 1..Len(e)
        BY <3>1 DEF Padded
      <4> QED
        BY <1>7, <4>1 DEF Joins
    <3>3. e[j] = IF j <= b THEN pad[j] ELSE 0
      BY <3>1, Zenon DEF Padded
    <3>4. j <= b => s[len + 8 + a + j] = pad[j]
      BY <3>1, Zenon DEF Placed
    <3> QED
      BY <2>2, <3>1, <3>2, <3>3, <3>4
  <2> QED
    BY <2>3, <2>4
<1>10. x = y
  BY <1>5, <1>6, <1>8, <1>9, SeqEqual, Zenon
<1> QED
  BY <1>10, Zenon DEF Payload, PayloadIs, x, y, m, n

(* What Recvfrom finds in a frame that says what was meant.                *)
LEMMA RecvSaid ==
  ASSUME NEW f \in Said
  PROVE  LET pkt == Take(f.bytes, BufSize)
             len == HeaderLength(pkt)
             udp == Drop(pkt, len)
             pLen == GetUint16(udp, 4)
             buf == pkt \o [i \in 1..(BufSize - Len(pkt)) |-> 0]
             zeros == [i \in 1..8 |-> 0]
         IN /\ Protocol(pkt) = UDPProtocolNumber <=> f.udp
            /\ f.udp =>
                 /\ f.src = [ip |-> SourceAddress(pkt), port |-> SourcePort(udp)]
                 /\ f.dst.port = DestinationPort(udp)
                 /\ len + 8 + pLen <= BufSize <=> Len(f.bytes) - Len(f.pad) + 8 <= BufSize
                 /\ len + 8 + pLen <= BufSize =>
                      Payload(buf, len, pLen) = f.data \o Take(f.pad \o zeros, 8)
<1> DEFINE s == f.bytes
           len == HeaderLength(s)
           pkt == Take(s, BufSize)
           udp == Drop(pkt, len)
           pLen == GetUint16(udp, 4)
           buf == pkt \o [i \in 1..(BufSize - Len(pkt)) |-> 0]
           e == Take(f.pad \o [i \in 1..8 |-> 0], 8)
<1>1. f \in Frame /\ Says(f) /\ s \in Seq(Byte) /\ f.data \in Seq(Byte) /\ f.pad \in Seq(Byte)
  BY DEF Said, Frame
<1>2. BufSize \in Nat /\ BufSize >= 68
  BY RawConnAssumption DEF IPv4MaximumHeaderSize, UDPMinimumSize
<1>3. Len(s) >= 20 /\ len >= 20 /\ Len(s) >= len + 8
  BY <1>1, Zenon DEF Says, IPv4MinimumSize, UDPMinimumSize
<1>4. len \in 20..60
  <2>1. Len(s) \in Nat /\ Len(s) >= 1
    BY <1>1, <1>3, LenProperties
  <2>2. len \in 0..60
    BY <1>1, <2>1, HeaderLengthRange, Zenon
  <2> HIDE DEF len
  <2> QED
    BY <1>3, <2>2
<1> HIDE DEF len
<1>5. SameHeaders(pkt, s, len)
  BY <1>1, <1>2, <1>3, <1>4, CutHeaders, Zenon
<1>6. HeaderLength(pkt) = len
  BY <1>5 DEF SameHeaders, len
<1>7. Padded(buf, s, BufSize) /\ Padded(e, f.pad, 8)
  BY <1>1, <1>2, BufferProps, TakePadded
<1> HIDE DEF pkt, buf, e
<1>8. Protocol(pkt) = UDPProtocolNumber <=> f.udp
  BY <1>1, <1>5, Zenon DEF Says, SameHeaders
<1>9. ASSUME f.udp
      PROVE  /\ f.src = [ip |-> SourceAddress(pkt), port |-> SourcePort(udp)]
             /\ f.dst.port = DestinationPort(udp)
             /\ len + 8 + pLen <= BufSize <=> Len(s) - Len(f.pad) + 8 <= BufSize
             /\ len + 8 + pLen <= BufSize => Payload(buf, len, pLen) = f.data \o e
  <2>1. /\ f.src = [ip |-> SourceAddress(s), port |-> SourcePort(Drop(s, len))]
        /\ f.dst = [ip |-> DestinationAddress(s), port |-> DestinationPort(Drop(s, len))]
        /\ GetUint16(Drop(s, len), 4) = UDPMinimumSize + Len(f.data)
        /\ Drop(Drop(s, len), UDPMinimumSize) = f.data \o f.pad
    BY <1>1, <1>9, Zenon DEF Says, len
  <2>2. UDPMinimumSize = 8
    BY DEF UDPMinimumSize
  <2>3. pLen = 8 + Len(f.data)
    BY <1>5, <2>1, <2>2, Zenon DEF SameHeaders
  <2>4. Drop(Drop(s, len), 8) = f.data \o f.pad
    BY <2>1, <2>2, Zenon
  <2>5. Placed(s, len, f.data, f.pad)
    BY <1>1, <1>3, <1>4, <2>4, DataPlace, Zenon
  <2>6. /\ f.src = [ip |-> SourceAddress(pkt), port |-> SourcePort(udp)]
        /\ f.dst.port = DestinationPort(udp)
    <3>1. f.dst.port = DestinationPort(Drop(s, len))
      BY <2>1
    <3> QED
      BY <1>5, <2>1, <3>1, Zenon DEF SameHeaders
  <2> HIDE DEF pLen, s
  <2>7. len + 8 + pLen <= BufSize <=> Len(s) - Len(f.pad) + 8 <= BufSize
    <3>1. Len(f.data) \in Nat /\ Len(f.pad) \in Nat /\ Len(s) \in Nat
      BY <1>1, LenProperties
    <3>2. ASSUME NEW a \in Nat, NEW b \in Nat, NEW l \in Nat, l = len + 8 + a + b
          PROVE  len + 8 + (8 + a) <= BufSize <=> l - b + 8 <= BufSize
      BY <1>2, <1>4, <3>2
    <3>3. Len(s) = len + 8 + Len(f.data) + Len(f.pad)
      BY <2>5 DEF Placed
    <3> QED
      BY <2>3, <3>1, <3>2, <3>3
  <2>8. ASSUME len + 8 + pLen <= BufSize PROVE Payload(buf, len, pLen) = f.data \o e
    <3>1. PayloadIs(buf, len, pLen, f.data, e)
      BY <1>1, <1>2, <1>4, <1>7, <2>3, <2>5, <2>8, PayloadProps, Zenon
    <3> QED
      BY <3>1 DEF PayloadIs
  <2> QED
    BY <2>6, <2>7, <2>8, Zenon
<1> QED
  BY <1>6, <1>8, <1>9, Zenon DEF buf, e, pkt

LEMMA Client4Step ==
  ASSUME WireInv, Next
  PROVE  ReadsPayload
<1> SUFFICES ASSUME /\ conf.fields # {"local"} /\ conf.fields # {"remote"}
                    /\ inbox'[Client4] # inbox[Client4] /\ frames' = frames
             PROVE  LET f == Head(inbox[Client4])
                        zeros == [i \in 1..8 |-> 0]
                        fits == Len(f.bytes) - Len(f.pad) + 8 <= BufSize
                    IN got'[Client4] =
                         IF ~(f.udp /\ f.src.port = conf.raddr.port /\ f.dst.port = conf.laddr.port)
                         THEN got[Client4]
                         ELSE IF fits
                         THEN <<[src |-> f.src, data |-> f.data \o Take(f.pad \o zeros, 8)]>>
                         ELSE <<"panic">>
  BY Zenon DEF ReadsPayload
<1>1. Recvfrom
  <2>1. frames + 1 # frames
    BY DEF WireInv
  <2>2. ASSUME NEW c \in Conns, NEW n, ReadFrom(c, n) PROVE FALSE
    <3>1. inbox' = [inbox EXCEPT ![c] = Tail(@)] /\ c # Client4
      BY <2>2, RawConnAssumption, Zenon DEF ReadFrom
    <3>2. inbox'[Client4] = inbox[Client4]
      BY <3>1 DEF WireInv, Sockets
    <3> QED
      BY <3>2
  <2>3. \A from, bytes, u, src, dst, data, pad : ~Broadcast(from, bytes, u, src, dst, data, pad)
    BY <2>1 DEF Broadcast
  <2>4. ASSUME NEW c, NEW data, NEW dest, WriteTo(c, data, dest) PROVE FALSE
    BY <2>3, <2>4, Zenon DEF WriteTo
  <2>5. ASSUME NEW data, SendRaw(data) PROVE FALSE
    BY <2>1, <2>5 DEF SendRaw, Broadcast
  <2>6. ASSUME NEW f, Arrive(f) PROVE FALSE
    BY <2>3, <2>6 DEF Arrive
  <2> QED
    BY <2>2, <2>4, <2>5, <2>6 DEF Next
<1> DEFINE f == Head(inbox[Client4])
           pkt == Take(f.bytes, BufSize)
           len == HeaderLength(pkt)
           udp == Drop(pkt, len)
           pLen == GetUint16(udp, 4)
           buf == pkt \o [i \in 1..(BufSize - Len(pkt)) |-> 0]
           src == [ip |-> SourceAddress(pkt), port |-> SourcePort(udp)]
           data == Payload(buf, len, pLen)
           fits == len + 8 + pLen <= BufSize
           fromServer == Protocol(pkt) = UDPProtocolNumber /\ src.port = ExpectedSrcPort
           noLocal == Custom /\ "local" \notin conf.fields
           forUs == DestinationPort(udp) = ExpectedDstPort
<1>2. Client4 \in Sockets /\ inbox[Client4] # <<>>
  BY <1>1, Zenon DEF Recvfrom, Sockets
<1>3. f \in Said
  <2>1. inbox[Client4] \in Seq(Said)
    BY <1>2 DEF WireInv
  <2> QED
    BY <1>2, <2>1, HeadTailProperties
<1>4. \/ /\ fromServer /\ ~noLocal /\ forUs /\ fits
         /\ got' = [got EXCEPT ![Client4] = <<[src |-> src, data |-> data]>>]
      \/ /\ fromServer /\ (noLocal \/ (forUs /\ ~fits))
         /\ got' = [got EXCEPT ![Client4] = <<"panic">>]
      \/ /\ ~fromServer \/ (~noLocal /\ ~forUs)
         /\ got' = got
  BY <1>1, Zenon DEF Recvfrom
<1>5. /\ ~noLocal
      /\ ExpectedSrcPort = conf.raddr.port /\ ExpectedDstPort = conf.laddr.port
  <2>1. /\ conf \in Configs /\ conf.fields \subseteq {"local", "remote"}
        /\ ("remote" \notin conf.fields => conf.raddr.port = ServerPort)
        /\ ("local" \notin conf.fields => conf.laddr.port = ClientPort)
    BY RawConnAssumption DEF WireInv
  <2>2. "local" \in conf.fields <=> "remote" \in conf.fields
    BY <2>1
  <2> QED
    BY <2>1, <2>2 DEF Custom, ExpectedSrcPort, ExpectedDstPort
<1>6. /\ Protocol(pkt) = UDPProtocolNumber <=> f.udp
      /\ f.udp => /\ f.src = src /\ f.dst.port = DestinationPort(udp)
                  /\ fits <=> Len(f.bytes) - Len(f.pad) + 8 <= BufSize
                  /\ fits => data = f.data \o Take(f.pad \o [i \in 1..8 |-> 0], 8)
  BY <1>3, RecvSaid, Zenon
<1>7. \A v : [got EXCEPT ![Client4] = v][Client4] = v
  BY <1>2 DEF WireInv
<1> HIDE DEF f, fits, data, udp, pkt, noLocal, src
<1>8. CASE f.udp /\ f.src.port = conf.raddr.port /\ f.dst.port = conf.laddr.port
  <2>1. fromServer /\ forUs
    BY <1>5, <1>6, <1>8
  <2> HIDE DEF fromServer, forUs
  <2>2. CASE fits
    BY <1>4, <1>5, <1>6, <1>7, <1>8, <2>1, <2>2, ZenonT(30) DEF f
  <2>3. CASE ~fits
    BY <1>4, <1>5, <1>6, <1>7, <1>8, <2>1, <2>3, Zenon DEF f
  <2> QED
    BY <2>2, <2>3, Zenon
<1>9. CASE ~(f.udp /\ f.src.port = conf.raddr.port /\ f.dst.port = conf.laddr.port)
  <2>1. ~(fromServer /\ forUs)
    BY <1>5, <1>6, <1>9, Zenon
  <2> HIDE DEF fromServer, forUs
  <2>2. got' = got
    BY <1>4, <1>5, <2>1
  <2> QED
    BY <1>9, <2>2 DEF f
<1> QED
  BY <1>8, <1>9, Zenon

(* client4's receiver gives the decoder the payload that a server sent to  *)
(* it and eight bytes more, and nothing else, for every network, buffer    *)
(* and configuration.                                                      *)
THEOREM Client4Safety == Spec => Client4Reads
<1>1. Init => WireInv
  BY WireInit
<1>2. WireInv /\ [Next]_vars => WireInv'
  BY WireStep
<1>3. WireInv /\ [Next]_vars => [ReadsPayload]_vars
  BY Client4Step
<1> QED
  BY <1>1, <1>2, <1>3, PTL DEF Spec, Client4Reads
=============================================================================
