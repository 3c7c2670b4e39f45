----------------------------- MODULE ListLemmas -----------------------------
(* What the proofs about texts, views and fragments need of numbers and      *)
(* sequences.  Recursively defined functions are reasoned about by a least   *)
(* counterexample: LeastNumber takes the place of an induction rule.         *)
EXTENDS Integers, Sequences, FiniteSets, FiniteSetsExt, SequencesExt,
        FiniteSetTheorems, SequenceTheorems, TLAPS

\* Every set of natural numbers that is not empty has a least element.
LEMMA LeastNumber ==
  ASSUME NEW T \in SUBSET Nat, T # {}
  PROVE  \E m \in T : \A k \in T : m <= k
<1>1. \E x \in T : \A y \in T : ~ (<<y, x>> \in OpToRel(<, Nat))
  BY NatLessThanWellFounded, WFMin
<1>2. \A x, y \in Nat : <<y, x>> \notin OpToRel(<, Nat) => x <= y
  BY DEF OpToRel
<1> QED BY <1>1, <1>2

\* A set of numbers that starts with 0 and goes on as long as it is below n
\* contains them all.
LEMMA AllNumbers ==
  ASSUME NEW n \in Nat, NEW T, 0 \in T, \A i \in 1 .. n : i - 1 \in T => i \in T
  PROVE  \A i \in 0 .. n : i \in T
<1> SUFFICES ASSUME {i \in 0 .. n : i \notin T} # {} PROVE FALSE
  OBVIOUS
<1> DEFINE Out == {i \in 0 .. n : i \notin T}
<1>1. PICK m \in Out : \A k \in Out : m <= k
  BY LeastNumber, Out \in SUBSET Nat
<1>2. m \in 1 .. n
  BY <1>1
<1>3. m - 1 \notin Out
  BY <1>1, <1>2
<1> QED BY <1>1, <1>2, <1>3

\* A set of natural numbers below a bound has a greatest element, and Max is it.
LEMMA MaxOfNumbers ==
  ASSUME NEW n \in Nat, NEW T \in SUBSET (0 .. n), T # {}
  PROVE  Max(T) \in T /\ \A k \in T : k <= Max(T)
<1> DEFINE Above == {i \in Nat : \A k \in T : k <= i}
<1>1. PICK m \in Above : \A k \in Above : m <= k
  <2>1. n \in Above
    OBVIOUS
  <2>2. Above \in SUBSET Nat /\ Above # {}
    BY <2>1
  <2> QED BY <2>2, LeastNumber
<1>2. m \in T
  <2>1. SUFFICES ASSUME m \notin T PROVE FALSE
    OBVIOUS
  <2>2. m # 0
    <3>1. PICK k \in T : TRUE
      OBVIOUS
    <3>2. k \in 0 .. n /\ k <= m /\ k # m
      BY <1>1, <2>1
    <3> QED BY <1>1, <3>2
  <2>3. m - 1 \in Nat /\ \A k \in T : k <= m - 1
    BY <1>1, <2>1, <2>2
  <2> QED BY <1>1, <2>3
<1>3. \E x \in T : \A y \in T : x >= y
  BY <1>1, <1>2
<1> QED BY <1>3 DEF Max
-----------------------------------------------------------------------------
(* Flattening *)

\* The function by which FlattenSeq is defined exists, and joins one sequence
\* after the other.
LEMMA FlattenSteps ==
  ASSUME NEW S, NEW seqs \in Seq(Seq(S)), seqs # << >>
  PROVE  \E f \in [1 .. Len(seqs) -> Seq(S)] :
           /\ FlattenSeq(seqs) = f[Len(seqs)]
           /\ f[1] = seqs[1]
           /\ \A i \in 2 .. Len(seqs) : f[i] = f[i - 1] \o seqs[i]
<1> DEFINE N == Len(seqs)
           Step(f, i) == IF i = 1 THEN seqs[i] ELSE f[i - 1] \o seqs[i]
           Fits(f, n) == \A i \in 1 .. n : f[i] = Step(f, i)
           T == {n \in 0 .. N : n = 0 \/ \E f \in [1 .. n -> Seq(S)] : Fits(f, n)}
           flatten == CHOOSE f : f = [i \in 1 .. N |-> Step(f, i)]
<1>1. N \in Nat /\ N >= 1 /\ \A i \in 1 .. N : seqs[i] \in Seq(S)
  OBVIOUS
<1>2. ASSUME NEW i \in 1 .. N, i - 1 \in T PROVE i \in T
  <2>1. SUFFICES \E g \in [1 .. i -> Seq(S)] : Fits(g, i)
    <3> HIDE DEF N, Fits
    <3> QED BY <1>1
  <2>2. CASE i = 1
    <3> DEFINE g == [j \in 1 .. i |-> seqs[1]]
    <3>1. g \in [1 .. i -> Seq(S)]
      BY <1>1
    <3>2. Fits(g, i)
      BY <2>2
    <3> HIDE DEF g, Fits
    <3> QED BY <3>1, <3>2
  <2>3. CASE i # 1
    <3>1. PICK f \in [1 .. i - 1 -> Seq(S)] : Fits(f, i - 1)
      <4> HIDE DEF Fits
      <4> QED BY <1>1, <1>2, <2>3
    <3> DEFINE g == [j \in 1 .. i |-> IF j = i THEN f[i - 1] \o seqs[i] ELSE f[j]]
    <3>2. f[i - 1] \in Seq(S) /\ f[i - 1] \o seqs[i] \in Seq(S)
      BY <1>1, <2>3
    <3>3. g \in [1 .. i -> Seq(S)]
      BY <3>2
    <3>4. ASSUME NEW j \in 1 .. i PROVE g[j] = Step(g, j)
      <4>1. CASE j = i
        <5>1. g[j - 1] = f[i - 1]
          BY <1>1, <2>3, <4>1
        <5> QED BY <2>3, <4>1, <5>1
      <4>2. CASE j # i
        <5> j \in 1 .. i - 1
          BY <4>2
        <5>1. g[j] = f[j] /\ f[j] = Step(f, j)
          BY <3>1, <4>2
        <5>2. j # 1 => j - 1 \in 1 .. i /\ j - 1 # i /\ g[j - 1] = f[j - 1]
          BY <1>1, <5>1
        <5> HIDE DEF g
        <5> QED BY <5>1, <5>2
      <4> QED BY <4>1, <4>2
    <3> HIDE DEF g, Step
    <3> QED BY <3>3, <3>4
  <2> QED BY <2>2, <2>3
<1>3. N \in T
  <2>1. 0 \in T
    <3> HIDE DEF N, Fits
    <3> QED BY <1>1
  <2>2. \A i \in 1 .. N : i - 1 \in T => i \in T
    <3> HIDE DEF T, N
    <3> QED BY <1>2
  <2>3. \A i \in 0 .. N : i \in T
    <3> HIDE DEF T, N
    <3> QED BY <1>1, <2>1, <2>2, AllNumbers
  <2> HIDE DEF T
  <2> QED BY <1>1, <2>3
<1>4. PICK f \in [1 .. N -> Seq(S)] : Fits(f, N)
  <2> HIDE DEF N, Fits
  <2> QED BY <1>1, <1>3
<1>5. f = [i \in 1 .. N |-> Step(f, i)]
  <2> HIDE DEF Step, N
  <2> QED BY <1>4
<1>6. ASSUME NEW h, h = [i \in 1 .. N |-> Step(h, i)]
      PROVE  /\ h \in [1 .. N -> Seq(S)]
             /\ h[1] = seqs[1]
             /\ \A i \in 2 .. N : h[i] = h[i - 1] \o seqs[i]
  <2>1. \A i \in 1 .. N : h[i] = Step(h, i)
    <3> HIDE DEF N, Step
    <3> QED BY <1>6
  <2>2. h[1] = seqs[1]
    BY <1>1, <2>1
  <2>3. ASSUME NEW i \in 2 .. N PROVE h[i] = h[i - 1] \o seqs[i]
    <3> i \in 1 .. N /\ i # 1
      BY <1>1
    <3> QED BY <2>1
  <2> DEFINE U == {i \in 0 .. N : i = 0 \/ h[i] \in Seq(S)}
  <2>4. ASSUME NEW i \in 1 .. N, i - 1 \in U PROVE i \in U
    <3>1. CASE i = 1
      BY <1>1, <2>2, <3>1
    <3>2. CASE i # 1
      <4> i \in 2 .. N
        BY <3>2
      <4>1. h[i - 1] \in Seq(S) /\ seqs[i] \in Seq(S)
        BY <1>1, <2>4, <3>2
      <4>2. h[i - 1] \o seqs[i] \in Seq(S)
        BY <4>1
      <4>3. h[i] = h[i - 1] \o seqs[i]
        BY <2>3
      <4>4. h[i] \in Seq(S)
        BY <4>2, <4>3
      <4> QED BY <4>4, <1>1
    <3> QED BY <3>1, <3>2
  <2>5. 0 \in U
    BY <1>1
  <2>6. \A i \in 0 .. N : i \in U
    <3> HIDE DEF U, N
    <3> QED BY <1>1, <2>4, <2>5, AllNumbers
  <2>7. \A i \in 1 .. N : h[i] \in Seq(S)
    BY <2>6, <1>1
  <2>8. h \in [1 .. N -> Seq(S)]
    <3> HIDE DEF N, Step
    <3> QED BY <1>6, <2>7
  <2> QED BY <2>2, <2>3, <2>8
<1>7. flatten = [i \in 1 .. N |-> Step(flatten, i)]
  <2> HIDE DEF Step, N
  <2> QED BY <1>5
<1>8. FlattenSeq(seqs) = flatten[N]
  BY <1>1 DEF FlattenSeq
<1> HIDE DEF flatten
<1> QED BY <1>6, <1>7, <1>8

\* Flattening sequences over S gives a sequence over S.
LEMMA FlattenType ==
  ASSUME NEW S, NEW seqs \in Seq(Seq(S))
  PROVE  FlattenSeq(seqs) \in Seq(S)
<1>1. CASE seqs = << >>
  BY <1>1 DEF FlattenSeq
<1>2. CASE seqs # << >>
  <2>1. PICK f \in [1 .. Len(seqs) -> Seq(S)] : FlattenSeq(seqs) = f[Len(seqs)]
    BY <1>2, FlattenSteps
  <2>2. Len(seqs) \in 1 .. Len(seqs)
    BY <1>2
  <2> QED BY <2>1, <2>2
<1> QED BY <1>1, <1>2
-----------------------------------------------------------------------------
(* The first n of a list of sequences, one after the other *)

Flat(seqs, n) == FlattenSeq(SubSeq(seqs, 1, n))

\* What is appended comes last.
LEMMA FlattenAppend ==
  ASSUME NEW S, NEW seqs \in Seq(Seq(S)), NEW s \in Seq(S)
  PROVE  FlattenSeq(Append(seqs, s)) = FlattenSeq(seqs) \o s
<1> DEFINE more == Append(seqs, s)
<1>0. PICK n \in Nat : n = Len(seqs)
  BY LenProperties
<1>1. /\ more \in Seq(Seq(S)) /\ more # << >> /\ Len(more) = n + 1 /\ n \in Nat
      /\ more[n + 1] = s /\ \A i \in 1 .. n : more[i] = seqs[i]
  BY <1>0, AppendProperties, LenProperties
<1>2. PICK g \in [1 .. Len(more) -> Seq(S)] :
        /\ FlattenSeq(more) = g[Len(more)]
        /\ g[1] = more[1]
        /\ \A i \in 2 .. Len(more) : g[i] = g[i - 1] \o more[i]
  <2>1. more \in Seq(Seq(S)) /\ more # << >>
    BY <1>1
  <2> HIDE DEF more
  <2> QED BY <2>1, FlattenSteps, Zenon
<1> HIDE DEF more
<1>3. CASE seqs = << >>
  <2>1. FlattenSeq(more) = s
    <3>1. n = 0
      BY <1>0, <1>3
    <3> QED BY <1>1, <1>2, <3>1
  <2>2. FlattenSeq(seqs) = << >>
    BY <1>3 DEF FlattenSeq
  <2>3. << >> \o s = s
    BY ConcatEmptySeq
  <2> QED BY <2>1, <2>2, <2>3 DEF more
<1>4. CASE seqs # << >>
  <2>1. PICK f \in [1 .. Len(seqs) -> Seq(S)] :
          /\ FlattenSeq(seqs) = f[Len(seqs)]
          /\ f[1] = seqs[1]
          /\ \A i \in 2 .. Len(seqs) : f[i] = f[i - 1] \o seqs[i]
    BY <1>4, FlattenSteps
  <2>2. n >= 1
    BY <1>0, <1>4
  <2>3. f[1] = g[1]
    BY <1>1, <1>2, <2>1, <2>2
  <2>4. \A i \in 2 .. n : g[i] = g[i - 1] \o seqs[i]
    <3> SUFFICES ASSUME NEW i \in 2 .. n PROVE g[i] = g[i - 1] \o seqs[i]
      OBVIOUS
    <3>1. i \in 2 .. Len(more) /\ i \in 1 .. n
      BY <1>1
    <3> QED BY <1>1, <1>2, <3>1
  <2>5. \A i \in 1 .. n : f[i] = g[i]
    <3>1. \A i \in 2 .. n : f[i - 1] = g[i - 1] => f[i] = g[i]
      BY <1>0, <2>1, <2>4
    <3>2. ASSUME NEW i \in 1 .. n, ~(f[i] = g[i]) PROVE FALSE
      <4> DEFINE T == {k \in 0 .. n : k = 0 \/ f[k] = g[k]}
      <4>1. 0 \in T /\ i \notin T /\ i \in 0 .. n
        BY <3>2
      <4>2. \A k \in 1 .. n : k - 1 \in T => k \in T
        BY <2>3, <3>1, SMTT(30)
      <4> HIDE DEF T
      <4>3. n \in Nat
        BY <1>1
      <4> QED BY <4>1, <4>2, <4>3, AllNumbers, Zenon
    <3> QED BY <3>2
  <2>6. g[n + 1] = g[n] \o s
    <3>1. n + 1 \in 2 .. Len(more) /\ (n + 1) - 1 = n
      BY <1>1, <2>2
    <3>2. \A i : i \in 2 .. Len(more) => g[i] = g[i - 1] \o more[i]
      BY <1>2
    <3>3. \A i \in 2 .. Len(more) : i - 1 = n => g[i] = g[n] \o more[i]
      <4> QED BY <3>2, Zenon
    <3>4. g[n + 1] = g[n] \o more[n + 1]
      BY <3>1, <3>3, Zenon
    <3> QED BY <1>1, <3>4
  <2>7. g[n] = FlattenSeq(seqs)
    BY <1>0, <2>1, <2>2, <2>5
  <2>8. FlattenSeq(more) = g[n + 1] /\ more[n + 1] = s
    BY <1>1, <1>2
  <2> QED BY <2>6, <2>7, <2>8 DEF more
<1> QED BY <1>3, <1>4

\* The first n: one more at a time, up to all of them.
LEMMA FlatSteps ==
  ASSUME NEW S, NEW seqs \in Seq(Seq(S))
  PROVE  /\ Flat(seqs, 0) = << >>
         /\ Flat(seqs, Len(seqs)) = FlattenSeq(seqs)
         /\ \A n \in 0 .. Len(seqs) : Flat(seqs, n) \in Seq(S)
         /\ \A n \in 1 .. Len(seqs) : Flat(seqs, n) = Flat(seqs, n - 1) \o seqs[n]
<1>1. Flat(seqs, 0) = << >>
  <2>1. SubSeq(seqs, 1, 0) = << >>
    OBVIOUS
  <2> QED BY <2>1 DEF Flat, FlattenSeq
<1>2. Flat(seqs, Len(seqs)) = FlattenSeq(seqs)
  <2>1. SubSeq(seqs, 1, Len(seqs)) = seqs
    OBVIOUS
  <2> QED BY <2>1 DEF Flat
<1>3. ASSUME NEW n \in 0 .. Len(seqs) PROVE Flat(seqs, n) \in Seq(S)
  <2>1. SubSeq(seqs, 1, n) \in Seq(Seq(S))
    OBVIOUS
  <2> QED BY <2>1, FlattenType DEF Flat
<1>4. ASSUME NEW n \in 1 .. Len(seqs) PROVE Flat(seqs, n) = Flat(seqs, n - 1) \o seqs[n]
  <2>1. /\ SubSeq(seqs, 1, n - 1) \in Seq(Seq(S)) /\ seqs[n] \in Seq(S)
        /\ SubSeq(seqs, 1, n) = Append(SubSeq(seqs, 1, n - 1), seqs[n])
    OBVIOUS
  <2> QED BY <2>1, FlattenAppend DEF Flat
<1> QED BY <1>1, <1>2, <1>3, <1>4

\* They grow by the length of each.
LEMMA FlatLengths ==
  ASSUME NEW S, NEW seqs \in Seq(Seq(S))
  PROVE  /\ Len(Flat(seqs, 0)) = 0
         /\ Len(Flat(seqs, Len(seqs))) = Len(FlattenSeq(seqs))
         /\ \A n \in 0 .. Len(seqs) : Len(Flat(seqs, n)) \in Nat
         /\ \A n \in 1 .. Len(seqs) :
              Len(Flat(seqs, n)) = Len(Flat(seqs, n - 1)) + Len(seqs[n])
         /\ \A m \in 0 .. Len(seqs) : \A n \in m .. Len(seqs) :
              Len(Flat(seqs, m)) <= Len(Flat(seqs, n))
<1> DEFINE L(n) == Len(Flat(seqs, n))
           N == Len(seqs)
<1>1. /\ N \in Nat
      /\ L(0) = 0
      /\ L(N) = Len(FlattenSeq(seqs))
      /\ \A n \in 0 .. N : L(n) \in Nat
      /\ \A n \in 1 .. N : L(n) = L(n - 1) + Len(seqs[n]) /\ Len(seqs[n]) \in Nat
  <2>1. ASSUME NEW n \in 1 .. N PROVE L(n) = L(n - 1) + Len(seqs[n]) /\ Len(seqs[n]) \in Nat
    <3>1. /\ Flat(seqs, n - 1) \in Seq(S) /\ seqs[n] \in Seq(S)
          /\ Flat(seqs, n) = Flat(seqs, n - 1) \o seqs[n]
      <4>1. n - 1 \in 0 .. N /\ seqs[n] \in Seq(S)
        OBVIOUS
      <4>2. /\ \A m \in 0 .. N : Flat(seqs, m) \in Seq(S)
            /\ \A m \in 1 .. N : Flat(seqs, m) = Flat(seqs, m - 1) \o seqs[m]
        BY FlatSteps, Zenon
      <4> HIDE DEF N
      <4> QED BY <4>1, <4>2
    <3> QED BY <3>1
  <2>2. ASSUME NEW n \in 0 .. N PROVE L(n) \in Nat
    BY FlatSteps
  <2>3. L(0) = 0 /\ L(N) = Len(FlattenSeq(seqs))
    <3>1. Flat(seqs, 0) = << >> /\ Flat(seqs, Len(seqs)) = FlattenSeq(seqs)
      BY FlatSteps, Zenon
    <3> QED BY <3>1
  <2>4. N \in Nat
    OBVIOUS
  <2> HIDE DEF L, N
  <2> QED BY <2>1, <2>2, <2>3, <2>4
<1>2. ASSUME NEW m \in 0 .. N, NEW n \in m .. N PROVE L(m) <= L(n)
  <2> DEFINE T == {i \in 0 .. N : i < m \/ L(m) <= L(i)}
  <2>1. 0 \in T
    BY <1>1
  <2>2. ASSUME NEW i \in 1 .. N, i - 1 \in T PROVE i \in T
    <3>1. L(i) = L(i - 1) + Len(seqs[i]) /\ Len(seqs[i]) \in Nat /\ L(i - 1) \in Nat /\ L(m) \in Nat
      <4> i - 1 \in 0 .. N
        OBVIOUS
      <4> HIDE DEF L, N
      <4> QED BY <1>1
    <3> HIDE DEF L
    <3> QED BY <1>1, <2>2, <3>1, SMTT(30)
  <2>3. \A i \in 0 .. N : i \in T
    <3> HIDE DEF T, N
    <3> QED BY <1>1, <2>1, <2>2, AllNumbers
  <2> HIDE DEF L
  <2> QED BY <1>1, <2>3
<1> HIDE DEF N, L
<1> QED BY <1>1, <1>2 DEF N, L

\* What the i-th sequence holds stands after the first i - 1 of them.
LEMMA PartOfFlat ==
  ASSUME NEW S, NEW seqs \in Seq(Seq(S)), NEW i \in 1 .. Len(seqs),
         NEW d \in 1 .. Len(seqs[i])
  PROVE  /\ Len(Flat(seqs, i - 1)) + d \in 1 .. Len(FlattenSeq(seqs))
         /\ FlattenSeq(seqs)[Len(Flat(seqs, i - 1)) + d] = seqs[i][d]
<1> DEFINE N == Len(seqs)
<1>1. PICK p : p = Len(Flat(seqs, i - 1))
  OBVIOUS
<1>2. /\ N \in Nat /\ i - 1 \in 0 .. N /\ i \in 1 .. N /\ i \in 0 .. N /\ N \in 0 .. N
      /\ \A n \in 1 .. N : n - 1 \in 0 .. N
      /\ seqs[i] \in Seq(S) /\ Len(seqs[i]) \in Nat /\ d \in Nat /\ d >= 1 /\ d <= Len(seqs[i])
  OBVIOUS
<1>3. /\ \A n \in 0 .. N : Flat(seqs, n) \in Seq(S)
      /\ \A n \in 1 .. N : Flat(seqs, n) = Flat(seqs, n - 1) \o seqs[n]
      /\ Flat(seqs, N) = FlattenSeq(seqs)
  BY FlatSteps, Zenon
<1>4. \A n \in 1 .. N : seqs[n] \in Seq(S)
  OBVIOUS
<1> DEFINE T == {n \in 0 .. N : n < i \/ (p + d \in 1 .. Len(Flat(seqs, n)) /\ Flat(seqs, n)[p + d] = seqs[i][d])}
<1> HIDE DEF N
<1>5. 0 \in T
  BY <1>2
<1>6. ASSUME NEW n \in 1 .. N, n - 1 \in T PROVE n \in T
  <2>1. PICK a : a = Flat(seqs, n - 1)
    OBVIOUS
  <2>2. a \in Seq(S) /\ seqs[n] \in Seq(S) /\ Flat(seqs, n) = a \o seqs[n]
    BY <1>2, <1>3, <1>4, <2>1
  <2>3. CASE n < i
    BY <1>2, <2>3
  <2>4. CASE n = i
    <3>1. p = Len(a)
      BY <1>1, <2>1, <2>4
    <3>2. p + d \in 1 .. Len(a \o seqs[i]) /\ (a \o seqs[i])[p + d] = seqs[i][d]
      BY <1>2, <2>2, <3>1
    <3> QED BY <1>2, <2>2, <2>4, <3>2
  <2>5. CASE n > i
    <3>1. p + d \in 1 .. Len(a) /\ a[p + d] = seqs[i][d]
      BY <1>2, <1>6, <2>1, <2>5
    <3>2. p + d \in 1 .. Len(a \o seqs[n]) /\ (a \o seqs[n])[p + d] = a[p + d]
      BY <2>2, <3>1
    <3> QED BY <1>2, <2>2, <3>1, <3>2
  <2> QED BY <1>2, <2>3, <2>4, <2>5
<1>7. \A n \in 0 .. N : n \in T
  <2> HIDE DEF T
  <2> QED BY <1>2, <1>5, <1>6, AllNumbers
<1>8. N \in 0 .. N /\ ~(N < i)
  BY <1>2
<1>9. p + d \in 1 .. Len(Flat(seqs, N)) /\ Flat(seqs, N)[p + d] = seqs[i][d]
  BY <1>7, <1>8, Zenon
<1> QED BY <1>1, <1>3, <1>9, Zenon

\* Everything there is stands in one of them.
LEMMA PartAtFlat ==
  ASSUME NEW S, NEW seqs \in Seq(Seq(S)), NEW h \in 1 .. Len(FlattenSeq(seqs))
  PROVE  \E i \in 1 .. Len(seqs) :
           h > Len(Flat(seqs, i - 1)) /\ h <= Len(Flat(seqs, i))
<1> DEFINE N == Len(seqs)
           T == {n \in 0 .. N : h > Len(Flat(seqs, n))}
<1>1. N \in Nat /\ \A n \in 1 .. N : n \in 0 .. N
  OBVIOUS
<1>2. /\ Len(Flat(seqs, 0)) = 0
      /\ Len(Flat(seqs, N)) = Len(FlattenSeq(seqs))
      /\ \A n \in 0 .. N : Len(Flat(seqs, n)) \in Nat
  BY FlatLengths, Zenon
<1>3. SUFFICES ASSUME \A i \in 1 .. N : h > Len(Flat(seqs, i - 1)) => ~(h <= Len(Flat(seqs, i)))
               PROVE  FALSE
  OBVIOUS
<1> HIDE DEF N
<1>4. 0 \in T
  BY <1>1, <1>2
<1>5. \A n \in 1 .. N : n - 1 \in T => n \in T
  BY <1>1, <1>2, <1>3
<1>6. N \in T
  <2>1. \A n \in 0 .. N : n \in T
    <3> HIDE DEF T
    <3> QED BY <1>1, <1>4, <1>5, AllNumbers
  <2>2. N \in 0 .. N
    BY <1>1
  <2> HIDE DEF T
  <2> QED BY <2>1, <2>2
<1> QED BY <1>1, <1>2, <1>6

\* Sequences that hold nothing add nothing.
LEMMA FlatSkips ==
  ASSUME NEW S, NEW seqs \in Seq(Seq(S)), NEW m \in 0 .. Len(seqs), NEW n \in m .. Len(seqs),
         \A i \in m + 1 .. n : seqs[i] = << >>
  PROVE  Flat(seqs, n) = Flat(seqs, m)
<1> DEFINE N == Len(seqs)
           T == {i \in 0 .. n : i < m \/ Flat(seqs, i) = Flat(seqs, m)}
<1>1. N \in Nat /\ m \in 0 .. N /\ n \in m .. N /\ n \in Nat /\ n <= N
  OBVIOUS
<1>2. /\ \A i \in 0 .. N : Flat(seqs, i) \in Seq(S)
      /\ \A i \in 1 .. N : Flat(seqs, i) = Flat(seqs, i - 1) \o seqs[i]
  BY FlatSteps, Zenon
<1> HIDE DEF N
<1>3. 0 \in T
  BY <1>1
<1>4. ASSUME NEW i \in 1 .. n, i - 1 \in T PROVE i \in T
  <2>1. CASE i <= m
    BY <1>1, <2>1
  <2>2. CASE i > m
    <3>1. i \in m + 1 .. n /\ i \in 1 .. N /\ i - 1 \in 0 .. N
      BY <1>1, <2>2
    <3>2. Flat(seqs, i - 1) = Flat(seqs, m)
      BY <1>1, <1>4, <2>2
    <3>3. Flat(seqs, i) = Flat(seqs, i - 1) \o << >>
      BY <1>2, <3>1
    <3>4. Flat(seqs, i - 1) \o << >> = Flat(seqs, i - 1)
      BY <1>2, <3>1, ConcatEmptySeq
    <3> QED BY <3>2, <3>3, <3>4
  <2> QED BY <1>1, <2>1, <2>2
<1>5. \A i \in 0 .. n : i \in T
  <2> HIDE DEF T
  <2> QED BY <1>1, <1>3, <1>4, AllNumbers
<1> QED BY <1>1, <1>5

\* The first n are a prefix of them all.
LEMMA FlatPrefix ==
  ASSUME NEW S, NEW seqs \in Seq(Seq(S)), NEW n \in 0 .. Len(seqs)
  PROVE  IsPrefix(Flat(seqs, n), FlattenSeq(seqs))
<1> DEFINE N == Len(seqs)
<1>1. N \in Nat /\ n \in 0 .. N /\ N \in 0 .. N /\ \A i \in 1 .. N : i - 1 \in 0 .. N
  OBVIOUS
<1>2. /\ \A i \in 0 .. N : Flat(seqs, i) \in Seq(S)
      /\ \A i \in 1 .. N : Flat(seqs, i) = Flat(seqs, i - 1) \o seqs[i]
      /\ Flat(seqs, N) = FlattenSeq(seqs)
  BY FlatSteps, Zenon
<1>3. \A i \in 1 .. N : seqs[i] \in Seq(S)
  OBVIOUS
<1>4. PICK s : s = Flat(seqs, n)
  OBVIOUS
<1> DEFINE Within(t) == Len(s) <= Len(t) /\ \A d \in 1 .. Len(s) : t[d] = s[d]
           T == {i \in 0 .. N : i < n \/ Within(Flat(seqs, i))}
<1> HIDE DEF N
<1>5. s \in Seq(S)
  BY <1>1, <1>2, <1>4
<1>6. 0 \in T
  BY <1>1, <1>4, <1>5
<1>7. ASSUME NEW i \in 1 .. N, i - 1 \in T PROVE i \in T
  <2>1. CASE i < n
    BY <1>1, <2>1
  <2>2. CASE i = n
    BY <1>1, <1>4, <1>5, <2>2
  <2>3. CASE i > n
    <3>1. PICK a : a = Flat(seqs, i - 1)
      OBVIOUS
    <3>2. a \in Seq(S) /\ seqs[i] \in Seq(S) /\ Flat(seqs, i) = a \o seqs[i]
      BY <1>1, <1>2, <1>3, <3>1
    <3>3. Within(a)
      BY <1>1, <1>7, <2>3, <3>1
    <3>4. Within(a \o seqs[i])
      BY <1>5, <3>2, <3>3
    <3> QED BY <1>1, <3>2, <3>4
  <2> QED BY <1>1, <2>1, <2>2, <2>3
<1>8. \A i \in 0 .. N : i \in T
  <2> HIDE DEF T
  <2> QED BY <1>1, <1>6, <1>7, AllNumbers
<1>9. PICK t \in Seq(S) : t = FlattenSeq(seqs) /\ Within(t)
  BY <1>1, <1>2, <1>8
<1>10. SubSeq(s, 1, Len(s)) = SubSeq(t, 1, Len(s)) /\ Len(s) <= Len(t)
  BY <1>5, <1>9
<1> QED BY <1>4, <1>9, <1>10 DEF IsPrefix

\* Flattening a list of one sequence or of two.
LEMMA FlattenFew ==
  ASSUME NEW S, NEW s \in Seq(S), NEW t \in Seq(S)
  PROVE  FlattenSeq(<<s>>) = s /\ FlattenSeq(<<s, t>>) = s \o t
<1>0. ASSUME NEW Q, NEW x \in Q, NEW y \in Q
      PROVE  /\ << >> \in Seq(Q) /\ <<x>> \in Seq(Q)
             /\ Append(<< >>, x) = <<x>> /\ Append(<<x>>, y) = <<x, y>>
  <2>1. << >> \in Seq(Q)
    OBVIOUS
  <2>2. <<x>> \in Seq(Q)
    OBVIOUS
  <2>3. Append(<< >>, x) = <<x>>
    OBVIOUS
  <2>4. Append(<<x>>, y) = <<x, y>>
    <3> DEFINE a == Append(<<x>>, y)
               b == <<x, y>>
    <3>1. a \in Seq(Q) /\ Len(a) = 2 /\ a[1] = x /\ a[2] = y
      BY <2>2
    <3>2. b \in Seq(Q) /\ Len(b) = 2 /\ b[1] = x /\ b[2] = y
      OBVIOUS
    <3> HIDE DEF a, b
    <3>3. \A i \in 1 .. Len(a) : a[i] = b[i]
      BY <3>1, <3>2
    <3>4. a = b
      BY <3>1, <3>2, <3>3, SeqEqual
    <3> QED BY <3>4 DEF a, b
  <2> QED BY <2>1, <2>2, <2>3, <2>4
<1>1. /\ << >> \in Seq(Seq(S)) /\ <<s>> \in Seq(Seq(S))
      /\ Append(<< >>, s) = <<s>> /\ Append(<<s>>, t) = <<s, t>>
  BY <1>0
<1>2. FlattenSeq(<<s>>) = FlattenSeq(<< >>) \o s
  BY <1>1, FlattenAppend
<1>3. FlattenSeq(<< >>) \o s = s
  BY ConcatEmptySeq DEF FlattenSeq
<1>4. FlattenSeq(<<s, t>>) = FlattenSeq(<<s>>) \o t
  BY <1>1, FlattenAppend
<1> QED BY <1>2, <1>3, <1>4

\* A list that has the elements of two, one behind the other.
LEMMA JoinedInParts ==
  ASSUME NEW S, NEW s \in Seq(S), NEW t \in Seq(S), NEW u \in Seq(S),
         Len(u) = Len(s) + Len(t),
         \A i \in 1 .. Len(s) : u[i] = s[i],
         \A i \in 1 .. Len(t) : u[Len(s) + i] = t[i]
  PROVE  u = s \o t
<1>1. s \o t \in Seq(S) /\ Len(s \o t) = Len(u)
  OBVIOUS
<1>2. ASSUME NEW i \in 1 .. Len(u) PROVE u[i] = (s \o t)[i]
  OBVIOUS
<1> QED BY <1>1, <1>2, SeqEqual

\* Two elements, one behind the other.
LEMMA PairJoined ==
  ASSUME NEW S, NEW x \in S, NEW y \in S
  PROVE  <<x>> \o <<y>> = <<x, y>>
<1>1. /\ <<x>> \in Seq(S) /\ <<y>> \in Seq(S) /\ <<x, y>> \in Seq(S)
      /\ Len(<<x>>) = 1 /\ Len(<<y>>) = 1 /\ Len(<<x, y>>) = 2
      /\ <<x>>[1] = x /\ <<y>>[1] = y /\ <<x, y>>[1] = x /\ <<x, y>>[2] = y
  OBVIOUS
<1>2. PICK a, b, c : a = <<x>> /\ b = <<y>> /\ c = <<x, y>>
  OBVIOUS
<1>3. /\ a \in Seq(S) /\ b \in Seq(S) /\ c \in Seq(S)
      /\ Len(a) = 1 /\ Len(b) = 1 /\ Len(c) = 2
      /\ a[1] = x /\ b[1] = y /\ c[1] = x /\ c[2] = y
  BY <1>1, <1>2
<1>4. Len(c) = Len(a) + Len(b)
  BY <1>3
<1>5. \A i \in 1 .. Len(a) : c[i] = a[i]
  BY <1>3
<1>6. \A i \in 1 .. Len(b) : c[Len(a) + i] = b[i]
  BY <1>3
<1>7. c = a \o b
  BY <1>3, <1>4, <1>5, <1>6, JoinedInParts, Zenon
<1> QED BY <1>2, <1>7

\* Flattening one list behind another.
LEMMA FlattenConcat ==
  ASSUME NEW S, NEW a \in Seq(Seq(S)), NEW b \in Seq(Seq(S))
  PROVE  FlattenSeq(a \o b) = FlattenSeq(a) \o FlattenSeq(b)
<1> DEFINE M == Len(a)
           N == Len(b)
           ab == a \o b
           T == {n \in 0 .. N : Flat(ab, M + n) = FlattenSeq(a) \o Flat(b, n)}
<1>1. /\ M \in Nat /\ N \in Nat /\ ab \in Seq(Seq(S)) /\ Len(ab) = M + N
      /\ \A n \in 1 .. N : ab[M + n] = b[n] /\ b[n] \in Seq(S)
  OBVIOUS
<1>2. /\ FlattenSeq(a) \in Seq(S)
      /\ \A n \in 0 .. N : Flat(b, n) \in Seq(S)
      /\ Flat(b, 0) = << >> /\ Flat(b, N) = FlattenSeq(b)
      /\ \A n \in 1 .. N : Flat(b, n) = Flat(b, n - 1) \o b[n]
  BY FlattenType, FlatSteps, Zenon
<1>3. /\ Flat(ab, Len(ab)) = FlattenSeq(ab)
      /\ \A n \in 1 .. Len(ab) : Flat(ab, n) = Flat(ab, n - 1) \o ab[n]
  <2> HIDE DEF ab
  <2> QED BY <1>1, FlatSteps, Zenon
<1>3a. \A x, y, z \in Seq(S) : (x \o y) \o z = x \o (y \o z)
  BY ConcatAssociative, SMTT(30)
<1>4. 0 \in T
  <2>1. SubSeq(ab, 1, M) = a
    OBVIOUS
  <2>2. M + 0 = M /\ 0 \in 0 .. N
    BY <1>1
  <2>3. FlattenSeq(a) \o << >> = FlattenSeq(a)
    BY <1>2, ConcatEmptySeq
  <2> HIDE DEF ab
  <2> QED BY <1>2, <2>1, <2>2, <2>3, Zenon DEF Flat
<1>5. ASSUME NEW n \in 1 .. N, n - 1 \in T PROVE n \in T
  <2>1. M + n \in 1 .. Len(ab) /\ (M + n) - 1 = M + (n - 1) /\ n \in 0 .. N /\ n - 1 \in 0 .. N
    BY <1>1
  <2>2. Flat(ab, M + n) = Flat(ab, M + (n - 1)) \o b[n]
    BY <1>1, <1>3, <2>1
  <2>3. Flat(ab, M + (n - 1)) = FlattenSeq(a) \o Flat(b, n - 1)
    BY <1>5
  <2>4. (FlattenSeq(a) \o Flat(b, n - 1)) \o b[n] = FlattenSeq(a) \o (Flat(b, n - 1) \o b[n])
    <3>1. FlattenSeq(a) \in Seq(S) /\ Flat(b, n - 1) \in Seq(S) /\ b[n] \in Seq(S)
      BY <1>1, <1>2, <2>1
    <3> QED BY <3>1, <1>3a, Zenon
  <2> HIDE DEF ab
  <2> QED BY <1>2, <2>1, <2>2, <2>3, <2>4, Zenon
<1> HIDE DEF ab
<1>6. N \in T
  <2> HIDE DEF T
  <2>1. \A n \in 0 .. N : n \in T
    BY <1>1, <1>4, <1>5, AllNumbers
  <2> QED BY <1>1, <2>1
<1> QED BY <1>1, <1>2, <1>3, <1>6 DEF ab

\* Parts of which the first are those of one list and the others those of another.
LEMMA PartsJoin ==
  ASSUME NEW S, NEW f \in Seq(Seq(S)), NEW g \in Seq(Seq(S)), NEW h \in Seq(Seq(S)),
         Len(h) = Len(f) + Len(g),
         \A i \in 1 .. Len(f) : h[i] = f[i],
         \A i \in 1 .. Len(g) : h[Len(f) + i] = g[i]
  PROVE  FlattenSeq(h) = FlattenSeq(f) \o FlattenSeq(g)
<1>1. h = f \o g
  BY JoinedInParts, Zenon
<1> QED BY <1>1, FlattenConcat

\* Flattening the elements of a sequence one by one gives the sequence.
LEMMA FlattenSingletons ==
  ASSUME NEW S, NEW s \in Seq(S)
  PROVE  FlattenSeq([i \in 1 .. Len(s) |-> <<s[i]>>]) = s
<1> DEFINE N == Len(s)
           parts == [i \in 1 .. N |-> <<s[i]>>]
           T == {n \in 0 .. N : Flat(parts, n) = SubSeq(s, 1, n)}
<1>1. N \in Nat /\ \A i \in 1 .. N : s[i] \in S /\ <<s[i]>> \in Seq(S)
  OBVIOUS
<1>2. parts \in [1 .. N -> Seq(S)]
  BY <1>1
<1>3. parts \in Seq(Seq(S)) /\ Len(parts) = N /\ \A i \in 1 .. N : parts[i] = <<s[i]>>
  BY <1>1, <1>2
<1> HIDE DEF parts
<1>4. /\ Flat(parts, 0) = << >> /\ Flat(parts, N) = FlattenSeq(parts)
      /\ \A n \in 1 .. N : Flat(parts, n) = Flat(parts, n - 1) \o parts[n]
  BY <1>3, FlatSteps
<1>5. SubSeq(s, 1, 0) = << >> /\ SubSeq(s, 1, N) = s
  OBVIOUS
<1>6. \A n \in 1 .. N : SubSeq(s, 1, n) = SubSeq(s, 1, n - 1) \o <<s[n]>>
  OBVIOUS
<1> HIDE DEF N
<1>7. 0 \in T
  <2>1. 0 \in 0 .. N
    BY <1>1
  <2> QED BY <1>4, <1>5, <2>1, Zenon
<1>8. ASSUME NEW n \in 1 .. N, n - 1 \in T PROVE n \in T
  <2>1. Flat(parts, n - 1) = SubSeq(s, 1, n - 1) /\ n \in 0 .. N
    BY <1>1, <1>8
  <2>2. Flat(parts, n) = SubSeq(s, 1, n - 1) \o <<s[n]>>
    BY <1>3, <1>4, <2>1
  <2> QED BY <1>6, <2>1, <2>2
<1>9. N \in T
  <2> HIDE DEF T
  <2>1. \A n \in 0 .. N : n \in T
    BY <1>1, <1>7, <1>8, AllNumbers
  <2> QED BY <1>1, <2>1
<1> QED BY <1>4, <1>5, <1>9 DEF parts, N

\* The elements of s in place of the n behind the first o of w.
InPlace(w, o, n, s) == (SubSeq(w, 1, o) \o s) \o SubSeq(w, o + n + 1, Len(w))

\* Lists that differ in the i-th place at most.
ChangedAt(new, seqs, i) ==
  Len(new) = Len(seqs) /\ \A k \in 1 .. Len(seqs) : k # i => new[k] = seqs[k]

\* A list with one of its sequences replaced: what stood before it and after it
\* stays.
LEMMA ReplacePart ==
  ASSUME NEW S, NEW seqs \in Seq(Seq(S)), NEW new \in Seq(Seq(S)), NEW i \in 1 .. Len(seqs),
         ChangedAt(new, seqs, i)
  PROVE  FlattenSeq(new)
           = InPlace(FlattenSeq(seqs), Len(Flat(seqs, i - 1)), Len(seqs[i]), new[i])
<1> DEFINE N == Len(seqs)
           a == SubSeq(seqs, 1, i - 1)
           b == SubSeq(seqs, i + 1, N)
           flat == FlattenSeq(seqs)
           o == Len(Flat(seqs, i - 1))
<1>1. /\ N \in Nat /\ i \in Nat /\ i >= 1 /\ i <= N
      /\ seqs[i] \in Seq(S)
      /\ a \in Seq(Seq(S)) /\ b \in Seq(Seq(S))
      /\ Len(a) = i - 1 /\ Len(b) = N - i
      /\ \A k \in 1 .. i - 1 : a[k] = seqs[k]
      /\ \A k \in 1 .. N - i : b[k] = seqs[i + k]
  <2>1. N \in Nat /\ i \in Nat /\ i >= 1 /\ i <= N /\ seqs[i] \in Seq(S)
    OBVIOUS
  <2>2. /\ a \in Seq(Seq(S)) /\ Len(a) = i - 1
        /\ \A k \in 1 .. i - 1 : a[k] = seqs[k]
    BY <2>1
  <2>3. /\ b \in Seq(Seq(S)) /\ Len(b) = N - i
        /\ \A k \in 1 .. N - i : b[k] = seqs[i + k]
    BY <2>1
  <2> QED BY <2>1, <2>2, <2>3
<1>2. Len(new) = N /\ \A k \in 1 .. N : k # i => new[k] = seqs[k]
  BY DEF ChangedAt
<1>2a. PICK s : s = new[i]
  OBVIOUS
<1>2b. s \in Seq(S)
  BY <1>1, <1>2, <1>2a
<1> HIDE DEF N, a, b
<1>3. ASSUME NEW list \in Seq(Seq(S)), NEW x \in Seq(S), Len(list) = N, list[i] = x,
             \A k \in 1 .. N : k # i => list[k] = seqs[k]
      PROVE  FlattenSeq(list) = (FlattenSeq(a) \o x) \o FlattenSeq(b)
  <2>1. /\ <<x>> \in Seq(Seq(S)) /\ Len(<<x>>) = 1 /\ <<x>>[1] = x
    OBVIOUS
  <2>2. PICK ax : ax = a \o <<x>>
    OBVIOUS
  <2>3. /\ ax \in Seq(Seq(S)) /\ Len(ax) = i /\ ax[i] = x
        /\ \A k \in 1 .. i - 1 : ax[k] = a[k]
    <3>1. a \in Seq(Seq(S)) /\ Len(a) = i - 1 /\ i - 1 \in Nat
      BY <1>1
    <3>2. ax = Append(a, x)
      BY <2>2, <3>1, <1>3
    <3>3. \A k \in 1 .. i - 1 : ax[k] = a[k]
      BY <1>3, <3>1, <3>2
    <3> QED BY <1>3, <3>1, <3>2, <3>3
  <2>4. list = ax \o b
    <3>1. Len(list) = Len(ax) + Len(b)
      BY <1>1, <1>3, <2>3
    <3>2. \A k \in 1 .. Len(ax) : list[k] = ax[k]
      <4> SUFFICES ASSUME NEW k \in 1 .. i PROVE list[k] = ax[k]
        BY <2>3
      <4>1. CASE k = i
        BY <1>3, <2>3, <4>1
      <4>2. CASE k # i
        <5>1. k \in 1 .. i - 1 /\ k \in 1 .. N
          BY <1>1, <4>2
        <5> QED BY <1>1, <1>3, <2>3, <4>2, <5>1
      <4> QED BY <4>1, <4>2
    <3>3. \A k \in 1 .. Len(b) : list[Len(ax) + k] = b[k]
      <4> SUFFICES ASSUME NEW k \in 1 .. N - i PROVE list[i + k] = b[k]
        BY <1>1, <2>3
      <4>1. i + k \in 1 .. N /\ i + k # i
        <5>1. N \in Nat /\ i \in Nat /\ i >= 1 /\ i <= N
          BY <1>1
        <5> QED BY <5>1
      <4> QED BY <1>1, <1>3, <4>1
    <3>4. ax \in Seq(Seq(S)) /\ b \in Seq(Seq(S)) /\ list \in Seq(Seq(S))
      BY <1>1, <1>3, <2>3, Zenon
    <3> QED BY <3>1, <3>2, <3>3, <3>4, JoinedInParts, Zenon
  <2>5. FlattenSeq(list) = FlattenSeq(ax) \o FlattenSeq(b)
    BY <1>1, <2>3, <2>4, FlattenConcat
  <2>6. FlattenSeq(ax) = FlattenSeq(a) \o FlattenSeq(<<x>>)
    BY <1>1, <2>1, <2>2, FlattenConcat
  <2>7. FlattenSeq(<<x>>) = x
    BY <1>3, FlattenFew
  <2> QED BY <2>5, <2>6, <2>7
<1>4. FlattenSeq(new) = (FlattenSeq(a) \o s) \o FlattenSeq(b)
  BY <1>2, <1>2a, <1>2b, <1>3 DEF N
<1>5. flat = (FlattenSeq(a) \o seqs[i]) \o FlattenSeq(b)
  BY <1>1, <1>3 DEF N
<1>6. o = Len(FlattenSeq(a))
  BY DEF Flat, a
<1>7. PICK p, q, x : p = FlattenSeq(a) /\ q = FlattenSeq(b) /\ x = seqs[i]
  OBVIOUS
<1>8. p \in Seq(S) /\ q \in Seq(S) /\ x \in Seq(S)
  BY <1>1, <1>7, FlattenType
<1>9. /\ SubSeq((p \o x) \o q, 1, Len(p)) = p
      /\ SubSeq((p \o x) \o q, Len(p) + Len(x) + 1, Len((p \o x) \o q)) = q
  BY <1>8, SMTT(60)
<1> HIDE DEF flat, o
<1> QED BY <1>2a, <1>4, <1>5, <1>6, <1>7, <1>9, Zenon DEF flat, o, InPlace
-----------------------------------------------------------------------------
(* Where a sequence stands in another *)

\* s stands in w behind its first o elements.
Holds(w, o, s) == \A i \in 1 .. Len(s) : w[o + i] = s[i]

\* Where two parts stand, the first stands and the second stands behind it.
LEMMA HoldsParts ==
  ASSUME NEW S, NEW w, NEW s \in Seq(S), NEW t \in Seq(S), NEW o \in Nat, Holds(w, o, s \o t)
  PROVE  Holds(w, o, s) /\ Holds(w, o + Len(s), t)
<1>1. /\ Len(s) \in Nat /\ Len(t) \in Nat
      /\ Len(s \o t) = Len(s) + Len(t)
      /\ \A i \in 1 .. Len(s) : (s \o t)[i] = s[i]
      /\ \A i \in 1 .. Len(t) : (s \o t)[Len(s) + i] = t[i]
  OBVIOUS
<1>0. PICK st : st = s \o t
  OBVIOUS
<1>2. PICK m, n \in Nat : m = Len(s) /\ n = Len(t)
  BY <1>1, Zenon
<1>3. /\ Len(st) = m + n
      /\ \A i \in 1 .. m : st[i] = s[i]
      /\ \A i \in 1 .. n : st[m + i] = t[i]
  BY <1>0, <1>1, <1>2, Zenon
<1>4. \A i \in 1 .. m + n : w[o + i] = st[i]
  BY <1>0, <1>3, Zenon DEF Holds
<1>5. \A i \in 1 .. m : w[o + i] = s[i]
  BY <1>3, <1>4
<1>6. \A i \in 1 .. n : w[(o + m) + i] = t[i]
  <2>1. \A i \in 1 .. n : m + i \in 1 .. m + n /\ o + (m + i) = (o + m) + i
    OBVIOUS
  <2> QED
    BY <1>3, <1>4, <2>1
<1> QED
  BY <1>2, <1>5, <1>6 DEF Holds
=============================================================================
