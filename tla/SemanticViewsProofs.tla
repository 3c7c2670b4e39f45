------------------------- MODULE SemanticViewsProofs -------------------------
(* What SemanticViews guarantees for every page, whatever its length and     *)
(* whatever the scanners find in it.                                         *)
EXTENDS SemanticViews, ListLemmas

-----------------------------------------------------------------------------
(* Running totals *)

\* RunningTotal starts at zero and adds one number after the other.
LEMMA RunningTotalSteps ==
  ASSUME NEW numbers \in Seq(Nat)
  PROVE  LET total == RunningTotal(numbers)
         IN  /\ total \in [0 .. Len(numbers) -> Nat]
             /\ total[0] = 0
             /\ \A n \in 1 .. Len(numbers) : total[n] = total[n - 1] + numbers[n]
<1> DEFINE N == Len(numbers)
           Step(f, i) == IF i = 0 THEN 0 ELSE f[i - 1] + numbers[i]
           Fits(f, n) == \A i \in 0 .. n : f[i] = Step(f, i)
           T == {n \in 0 .. N : \E f \in [0 .. n -> Nat] : Fits(f, n)}
           total == CHOOSE f : f = [i \in 0 .. N |-> Step(f, i)]
<1>1. N \in Nat /\ \A i \in 1 .. N : numbers[i] \in Nat
  OBVIOUS
<1>2. 0 \in T
  <2> DEFINE g == [j \in 0 .. 0 |-> 0]
  <2>1. g \in [0 .. 0 -> Nat] /\ Fits(g, 0)
    OBVIOUS
  <2> HIDE DEF g, Fits, N
  <2> QED BY <1>1, <2>1
<1>3. ASSUME NEW i \in 1 .. N, i - 1 \in T PROVE i \in T
  <2>1. PICK f \in [0 .. i - 1 -> Nat] : Fits(f, i - 1)
    <3> HIDE DEF Fits, N
    <3> QED BY <1>3
  <2> DEFINE g == [j \in 0 .. i |-> IF j = i THEN f[i - 1] + numbers[i] ELSE f[j]]
  <2>2. g \in [0 .. i -> Nat]
    BY <1>1
  <2>3. ASSUME NEW j \in 0 .. i PROVE g[j] = Step(g, j)
    <3>1. CASE j = i
      <4>1. j # 0 /\ g[j - 1] = f[i - 1]
        BY <1>1, <3>1
      <4>2. g[j] = f[i - 1] + numbers[j]
        BY <3>1
      <4>3. Step(g, j) = g[j - 1] + numbers[j]
        BY <4>1
      <4> HIDE DEF g, Step
      <4> QED BY <4>1, <4>2, <4>3
    <3>2. CASE j # i
      <4> j \in 0 .. i - 1
        BY <3>2
      <4>1. g[j] = f[j] /\ f[j] = Step(f, j)
        BY <2>1, <3>2
      <4>2. j # 0 => j - 1 \in 0 .. i /\ j - 1 # i /\ g[j - 1] = f[j - 1]
        BY <1>1
      <4> HIDE DEF g
      <4> QED BY <4>1, <4>2
    <3> QED BY <3>1, <3>2
  <2>4. Fits(g, i)
    <3> HIDE DEF g, Step
    <3> QED BY <2>3
  <2>5. \E e \in [0 .. i -> Nat] : Fits(e, i)
    <3> HIDE DEF g, Fits, N
    <3> QED BY <2>2, <2>4
  <2>6. i \in 0 .. N
    BY <1>1
  <2> HIDE DEF Fits, N
  <2> QED BY <2>5, <2>6, Zenon
<1>4. N \in T
  <2>1. \A i \in 0 .. N : i \in T
    <3> HIDE DEF T, N
    <3> QED BY <1>1, <1>2, <1>3, AllNumbers
  <2> HIDE DEF T
  <2> QED BY <1>1, <2>1
<1>5. PICK f \in [0 .. N -> Nat] : Fits(f, N)
  <2> HIDE DEF Fits, N
  <2> QED BY <1>4
<1>6. f = [i \in 0 .. N |-> Step(f, i)]
  <2> HIDE DEF Step, N
  <2> QED BY <1>5
<1>7. total = [i \in 0 .. N |-> Step(total, i)]
  <2> HIDE DEF Step, N
  <2> QED BY <1>6
<1>8. ASSUME NEW h, h = [i \in 0 .. N |-> Step(h, i)]
      PROVE  /\ h \in [0 .. N -> Nat]
             /\ h[0] = 0
             /\ \A i \in 1 .. N : h[i] = h[i - 1] + numbers[i]
  <2>1. \A i \in 0 .. N : h[i] = Step(h, i)
    <3> HIDE DEF N, Step
    <3> QED BY <1>8
  <2>2. h[0] = 0
    BY <1>1, <2>1
  <2>3. ASSUME NEW i \in 1 .. N PROVE h[i] = h[i - 1] + numbers[i]
    <3> i \in 0 .. N /\ i # 0
      BY <1>1
    <3> QED BY <2>1
  <2> DEFINE U == {i \in 0 .. N : h[i] \in Nat}
  <2>4. ASSUME NEW i \in 1 .. N, i - 1 \in U PROVE i \in U
    <3>1. h[i] \in Nat
      BY <1>1, <2>3, <2>4
    <3> QED BY <1>1, <3>1
  <2>5. 0 \in U
    BY <1>1, <2>2
  <2>6. \A i \in 0 .. N : i \in U
    <3> HIDE DEF U, N
    <3> QED BY <1>1, <2>4, <2>5, AllNumbers
  <2>7. \A i \in 0 .. N : h[i] \in Nat
    BY <2>6
  <2>8. h \in [0 .. N -> Nat]
    <3> HIDE DEF N, Step
    <3> QED BY <1>8, <2>7
  <2> QED BY <2>2, <2>3, <2>8
<1>9. RunningTotal(numbers) = total
  BY DEF RunningTotal
<1> HIDE DEF total
<1> QED BY <1>7, <1>8, <1>9
-----------------------------------------------------------------------------
(* Selections *)

\* Selected(s, K) holds the elements of s at the indices in K, each once and in
\* their order.
LEMMA SelectedInOrder ==
  ASSUME NEW S, NEW s \in Seq(S), NEW K
  PROVE  /\ Selected(s, K) \in Seq(S)
         /\ Len(Selected(s, K)) <= Len(s)
         /\ \E f \in [1 .. Len(Selected(s, K)) -> K \cap (1 .. Len(s))] :
              /\ \A i \in 1 .. Len(Selected(s, K)) : Selected(s, K)[i] = s[f[i]]
              /\ \A i, j \in 1 .. Len(Selected(s, K)) : i < j => f[i] < f[j]
              /\ \A k \in K \cap (1 .. Len(s)) : \E i \in 1 .. Len(Selected(s, K)) : f[i] = k
<1> DEFINE N == Len(s)
           Step(f, n) == IF n = 0 THEN << >> ELSE IF n \in K THEN Append(f[n - 1], s[n]) ELSE f[n - 1]
           Fits(f, n) == \A i \in 0 .. n : f[i] = Step(f, i)
           T == {n \in 0 .. N : \E f \in [0 .. n -> Seq(S)] : Fits(f, n)}
           kept == CHOOSE f : f = [n \in 0 .. N |-> Step(f, n)]
<1>1. N \in Nat /\ \A i \in 1 .. N : s[i] \in S
  OBVIOUS
<1>2. 0 \in T
  <2> DEFINE g == [j \in 0 .. 0 |-> << >>]
  <2>1. g \in [0 .. 0 -> Seq(S)] /\ Fits(g, 0)
    OBVIOUS
  <2> HIDE DEF g, Fits, N
  <2> QED BY <1>1, <2>1
<1>3. ASSUME NEW i \in 1 .. N, i - 1 \in T PROVE i \in T
  <2>1. PICK f \in [0 .. i - 1 -> Seq(S)] : Fits(f, i - 1)
    <3> HIDE DEF Fits, N
    <3> QED BY <1>3
  <2> DEFINE next == IF i \in K THEN Append(f[i - 1], s[i]) ELSE f[i - 1]
             g == [j \in 0 .. i |-> IF j = i THEN next ELSE f[j]]
  <2>2. next \in Seq(S)
    <3>1. f[i - 1] \in Seq(S) /\ s[i] \in S
      BY <1>1
    <3> QED BY <3>1
  <2>3. g \in [0 .. i -> Seq(S)]
    <3> HIDE DEF next
    <3> QED BY <1>1, <2>2
  <2>4. ASSUME NEW j \in 0 .. i PROVE g[j] = Step(g, j)
    <3>1. CASE j = i
      <4>1. j # 0 /\ g[j - 1] = f[i - 1]
        BY <1>1, <3>1
      <4>2. g[j] = next
        BY <3>1
      <4> HIDE DEF g
      <4> QED BY <3>1, <4>1, <4>2
    <3>2. CASE j # i
      <4> j \in 0 .. i - 1
        BY <3>2
      <4>1. g[j] = f[j] /\ f[j] = Step(f, j)
        BY <2>1, <3>2
      <4>2. j # 0 => j - 1 \in 0 .. i /\ j - 1 # i /\ g[j - 1] = f[j - 1]
        BY <1>1
      <4> HIDE DEF g
      <4> QED BY <4>1, <4>2
    <3> QED BY <3>1, <3>2
  <2>5. Fits(g, i)
    <3> HIDE DEF g, Step
    <3> QED BY <2>4
  <2> HIDE DEF g, Fits, N
  <2> QED BY <1>1, <2>3, <2>5
<1>4. N \in T
  <2>1. \A i \in 0 .. N : i \in T
    <3> HIDE DEF T, N
    <3> QED BY <1>1, <1>2, <1>3, AllNumbers
  <2> HIDE DEF T
  <2> QED BY <1>1, <2>1
<1>5. PICK f \in [0 .. N -> Seq(S)] : Fits(f, N)
  <2> HIDE DEF Fits, N
  <2> QED BY <1>4
<1>6. f = [i \in 0 .. N |-> Step(f, i)]
  <2> HIDE DEF Step, N
  <2> QED BY <1>5
<1>7. kept = [i \in 0 .. N |-> Step(kept, i)]
  <2> HIDE DEF Step, N
  <2> QED BY <1>6
<1>8. Selected(s, K) = kept[N]
  BY DEF Selected
<1> DEFINE Picks(t, n) ==
             /\ t \in Seq(S)
             /\ Len(t) <= n
             /\ \E e \in [1 .. Len(t) -> K \cap (1 .. n)] :
                  /\ \A i \in 1 .. Len(t) : t[i] = s[e[i]]
                  /\ \A i, j \in 1 .. Len(t) : i < j => e[i] < e[j]
                  /\ \A k \in K \cap (1 .. n) : \E i \in 1 .. Len(t) : e[i] = k
<1>9. ASSUME NEW h, h = [i \in 0 .. N |-> Step(h, i)]
      PROVE  Picks(h[N], N)
  <2>1. \A i \in 0 .. N : h[i] = Step(h, i)
    <3> HIDE DEF N, Step
    <3> QED BY <1>9
  <2> DEFINE U == {i \in 0 .. N : Picks(h[i], i)}
  <2>2. 0 \in U
    <3>1. h[0] = << >>
      BY <1>1, <2>1
    <3>2. Picks(<< >>, 0)
      <4> DEFINE e == [i \in 1 .. 0 |-> 0]
      <4>1. e \in [1 .. 0 -> K \cap (1 .. 0)]
        OBVIOUS
      <4> QED BY <4>1
    <3> HIDE DEF Picks, N
    <3> QED BY <1>1, <3>1, <3>2
  <2>3. ASSUME NEW n \in 1 .. N, n - 1 \in U PROVE n \in U
    <3> DEFINE t == h[n - 1]
    <3>1. Picks(t, n - 1)
      <4> HIDE DEF Picks
      <4> QED BY <2>3
    <3>2. h[n] = IF n \in K THEN Append(t, s[n]) ELSE t
      <4> n \in 0 .. N /\ n # 0
        BY <1>1
      <4> QED BY <2>1
    <3> HIDE DEF t
    <3>3. PICK e \in [1 .. Len(t) -> K \cap (1 .. n - 1)] :
            /\ \A i \in 1 .. Len(t) : t[i] = s[e[i]]
            /\ \A i, j \in 1 .. Len(t) : i < j => e[i] < e[j]
            /\ \A k \in K \cap (1 .. n - 1) : \E i \in 1 .. Len(t) : e[i] = k
      BY <3>1
    <3>4. Picks(h[n], n)
      <4>1. CASE n \notin K
        <5>1. e \in [1 .. Len(t) -> K \cap (1 .. n)]
          BY <1>1
        <5>2. K \cap (1 .. n) = K \cap (1 .. n - 1)
          BY <1>1, <4>1
        <5>3. t \in Seq(S) /\ Len(t) <= n
          BY <1>1, <3>1
        <5>4. h[n] = t
          BY <3>2, <4>1
        <5> QED BY <3>3, <5>1, <5>2, <5>3, <5>4
      <4>2. CASE n \in K
        <5> DEFINE u == Append(t, s[n])
                   d == [i \in 1 .. Len(t) + 1 |-> IF i = Len(t) + 1 THEN n ELSE e[i]]
        <5>1. /\ u \in Seq(S) /\ Len(u) <= n
              /\ u[Len(t) + 1] = s[n] /\ \A i \in 1 .. Len(t) : u[i] = t[i]
          BY <1>1, <3>1
        <5>2. Len(t) \in Nat /\ Len(u) = Len(t) + 1
          BY <1>1, <3>1
        <5> HIDE DEF u
        <5>3. d \in [1 .. Len(u) -> K \cap (1 .. n)]
          <6>1. \A i \in 1 .. Len(t) + 1 : i # Len(t) + 1 => i \in 1 .. Len(t)
            BY <5>2
          <6>2. \A i \in 1 .. Len(t) : e[i] \in K \cap (1 .. n)
            BY <1>1
          <6>3. n \in K \cap (1 .. n)
            BY <4>2, <1>1
          <6> QED BY <5>2, <6>1, <6>2, <6>3
        <5>4. d[Len(t) + 1] = n /\ \A i \in 1 .. Len(t) : d[i] = e[i]
          BY <5>2
        <5> HIDE DEF d
        <5>5. \A i \in 1 .. Len(u) : i = Len(t) + 1 \/ i \in 1 .. Len(t)
          BY <5>2
        <5>6. \A i \in 1 .. Len(u) : u[i] = s[d[i]]
          BY <3>3, <5>1, <5>4, <5>5
        <5>7. \A i, j \in 1 .. Len(u) : i < j => d[i] < d[j]
          <6> SUFFICES ASSUME NEW i \in 1 .. Len(u), NEW j \in 1 .. Len(u), i < j PROVE d[i] < d[j]
            OBVIOUS
          <6>1. i \in 1 .. Len(t)
            BY <5>2
          <6>2. e[i] \in 1 .. n - 1 /\ d[i] = e[i]
            BY <5>4, <6>1
          <6>3. CASE j = Len(t) + 1
            BY <6>2, <6>3, <5>4
          <6>4. CASE j \in 1 .. Len(t)
            BY <6>1, <6>2, <6>4, <3>3, <5>4
          <6> QED BY <5>5, <6>3, <6>4
        <5>8. ASSUME NEW k \in K \cap (1 .. n) PROVE \E i \in 1 .. Len(u) : d[i] = k
          <6>1. CASE k = n
            <7>1. Len(t) + 1 \in 1 .. Len(u)
              BY <5>2
            <7> QED BY <5>4, <6>1, <7>1
          <6>2. CASE k # n
            <7>1. k \in K \cap (1 .. n - 1)
              BY <6>2, <1>1
            <7>2. PICK i \in 1 .. Len(t) : e[i] = k
              BY <3>3, <7>1
            <7>3. i \in 1 .. Len(u) /\ d[i] = k
              BY <5>2, <5>4, <7>2
            <7> QED BY <7>3
          <6> QED BY <6>1, <6>2
        <5>9. h[n] = u
          BY <3>2, <4>2 DEF u
        <5> QED BY <5>1, <5>3, <5>6, <5>7, <5>8, <5>9
      <4> QED BY <4>1, <4>2
    <3> HIDE DEF Picks, N
    <3> QED BY <1>1, <3>4
  <2>4. \A i \in 0 .. N : i \in U
    <3> HIDE DEF U, N
    <3> QED BY <1>1, <2>2, <2>3, AllNumbers
  <2> HIDE DEF Picks
  <2> QED BY <1>1, <2>4
<1>10. Picks(kept[N], N)
  <2> HIDE DEF kept, Picks, N, Step
  <2> QED BY <1>7, <1>9
<1> HIDE DEF kept
<1> QED BY <1>8, <1>10, SMTT(30)

\* t holds elements of s, no two of them with the same key, and among them one
\* with each key of s.
OncePerKey(t, s, key) ==
  \E f \in [1 .. Len(t) -> 1 .. Len(s)] :
    /\ \A i \in 1 .. Len(t) : t[i] = s[f[i]]
    /\ \A i, j \in 1 .. Len(t) : key[f[i]] = key[f[j]] => i = j
    /\ \A k \in 1 .. Len(s) : \E i \in 1 .. Len(t) : key[f[i]] = key[k]

\* Distinct(s, key) keeps one element of s for each key.
LEMMA DistinctKeys ==
  ASSUME NEW S, NEW s \in Seq(S), NEW key, DOMAIN key = 1 .. Len(s)
  PROVE  /\ Distinct(s, key) \in Seq(S)
         /\ Len(Distinct(s, key)) <= Len(s)
         /\ OncePerKey(Distinct(s, key), s, key)
<1> DEFINE K == {i \in DOMAIN s : \A j \in 1 .. i - 1 : key[j] # key[i]}
           D == Selected(s, K)
<1>1. Distinct(s, key) = D
  BY DEF Distinct
<1> DEFINE N == Len(s)
<1>2. N \in Nat /\ DOMAIN s = 1 .. N
  OBVIOUS
<1>3. N = Len(s)
  OBVIOUS
<1>4. D \in Seq(S) /\ Len(D) <= N
  BY SelectedInOrder
<1>5. PICK f \in [1 .. Len(D) -> K \cap (1 .. N)] :
        /\ \A i \in 1 .. Len(D) : D[i] = s[f[i]]
        /\ \A i, j \in 1 .. Len(D) : i < j => f[i] < f[j]
        /\ \A k \in K \cap (1 .. N) : \E i \in 1 .. Len(D) : f[i] = k
  <2>1. \A L : \E f \in [1 .. Len(Selected(s, L)) -> L \cap (1 .. N)] :
          /\ \A i \in 1 .. Len(Selected(s, L)) : Selected(s, L)[i] = s[f[i]]
          /\ \A i, j \in 1 .. Len(Selected(s, L)) : i < j => f[i] < f[j]
          /\ \A k \in L \cap (1 .. N) : \E i \in 1 .. Len(Selected(s, L)) : f[i] = k
    BY SelectedInOrder
  <2> HIDE DEF K
  <2> QED BY <2>1
<1> HIDE DEF D
<1>6. f \in [1 .. Len(D) -> 1 .. N] /\ \A i \in 1 .. Len(D) : f[i] \in K
  <2> HIDE DEF K, N
  <2> QED BY <1>5
<1>7. ASSUME NEW i \in 1 .. Len(D), NEW j \in 1 .. Len(D), key[f[i]] = key[f[j]]
      PROVE  i = j
  <2>1. ASSUME NEW a \in K, NEW b \in K, a < b PROVE key[a] # key[b]
    <3> a \in 1 .. b - 1
      BY <1>2, <2>1
    <3> QED OBVIOUS
  <2>2. Len(D) \in Nat
    BY <1>4
  <2>3. f[i] \in K /\ f[j] \in K
    BY <1>6
  <2>4. CASE i < j
    <3>1. f[i] < f[j]
      BY <1>5, <2>4
    <3> HIDE DEF K
    <3> QED BY <1>7, <2>1, <2>3, <3>1
  <2>5. CASE j < i
    <3>1. f[j] < f[i]
      BY <1>5, <2>5
    <3> HIDE DEF K
    <3> QED BY <1>7, <2>1, <2>3, <3>1
  <2> QED BY <2>2, <2>4, <2>5
<1>8. ASSUME NEW k \in 1 .. N PROVE \E i \in 1 .. Len(D) : key[f[i]] = key[k]
  <2> DEFINE Same == {j \in 1 .. N : key[j] = key[k]}
  <2>1. Same \in SUBSET Nat /\ Same # {}
    BY <1>2
  <2>2. PICK m \in Same : \A j \in Same : m <= j
    <3> HIDE DEF Same
    <3> QED BY <2>1, LeastNumber
  <2>3. m \in K \cap (1 .. N)
    <3>1. m \in 1 .. N /\ key[m] = key[k]
      OBVIOUS
    <3>2. ASSUME NEW j \in 1 .. m - 1, key[j] = key[m] PROVE FALSE
      <4>1. j \in Same
        BY <1>2, <3>1, <3>2
      <4> QED BY <2>2, <4>1, <3>1, <1>2
    <3> QED BY <1>2, <3>1, <3>2
  <2>4. PICK i \in 1 .. Len(D) : f[i] = m
    <3> HIDE DEF K, N
    <3> QED BY <1>5, <2>3
  <2> QED BY <2>4
<1>9. \A i \in 1 .. Len(D) : D[i] = s[f[i]]
  <2> HIDE DEF K, N
  <2> QED BY <1>5
<1> HIDE DEF K, N
<1> QED BY <1>1, <1>3, <1>4, <1>6, <1>7, <1>8, <1>9, ZenonT(40) DEF OncePerKey

\* Take(s, n) is the beginning of s of length n, or s itself when it is shorter.
LEMMA TakePrefix ==
  ASSUME NEW S, NEW s \in Seq(S), NEW n \in Nat
  PROVE  /\ Take(s, n) \in Seq(S)
         /\ Len(Take(s, n)) <= n /\ Len(Take(s, n)) <= Len(s)
         /\ Len(s) <= n => Take(s, n) = s
         /\ \A i \in 1 .. Len(Take(s, n)) : Take(s, n)[i] = s[i]
<1>1. Min({n, Len(s)}) = IF n <= Len(s) THEN n ELSE Len(s)
  BY DEF Min
<1>2. CASE n <= Len(s)
  <2>1. Take(s, n) = SubSeq(s, 1, n)
    BY <1>1, <1>2 DEF Take
  <2> QED BY <1>2, <2>1, SubSeqFull
<1>3. CASE ~(n <= Len(s))
  <2>1. Take(s, n) = SubSeq(s, 1, Len(s))
    BY <1>1, <1>3 DEF Take
  <2> QED BY <1>3, <2>1, SubSeqFull
<1> QED BY <1>2, <1>3
-----------------------------------------------------------------------------
(* Texts *)

\* A text the queue accepts, and an input with such a text.
ViewText == {text \in Text : text.size \in 3 .. MaxInputChars}
Input == [kind : Kind, ordinal : Nat, text : ViewText, weight : 10 .. 200]

\* A truncated text is a text of at most n characters, and unchanged when it
\* was one before.
LEMMA TruncatedText ==
  ASSUME NEW text \in Text, NEW n \in Nat
  PROVE  /\ Truncated(text, n) \in Text
         /\ text.size <= n => Truncated(text, n) = text
         /\ text.size > n => Truncated(text, n).size = n
<1>1. text.size \in Nat
  BY DEF Text
<1>2. Min({text.size, n}) = IF text.size <= n THEN text.size ELSE n
  BY <1>1 DEF Min
<1>3. Truncated(text, n) = [text EXCEPT !.size = IF text.size <= n THEN text.size ELSE n]
  BY <1>2 DEF Truncated
<1> QED BY <1>1, <1>3 DEF Text

LEMMA FittingText ==
  ASSUME NEW text \in Text, text.size >= 3, text.size <= MaxInputChars
  PROVE  text \in ViewText
<1>1. text.size \in Nat
  BY DEF Text
<1>2. text.size \in 3 .. MaxInputChars
  BY <1>1 DEF MaxInputChars
<1> QED BY <1>2 DEF ViewText

\* Joining texts, one at least, gives a text.
LEMMA JoinedText ==
  ASSUME NEW texts \in Seq(Text), texts # << >>, NEW gap \in Nat
  PROVE  Joined(texts, gap) \in Text
<1> DEFINE words == [i \in DOMAIN texts |-> texts[i].words]
           costs == [i \in DOMAIN texts |-> texts[i].size + gap]
           N == Len(texts)
<1>1. N \in Nat /\ N >= 1 /\ DOMAIN texts = 1 .. N
  OBVIOUS
<1>2. ASSUME NEW i \in 1 .. N PROVE texts[i].words \in Seq(Word) /\ texts[i].size \in Nat
  <2>1. texts[i] \in Text
    OBVIOUS
  <2> QED BY <2>1 DEF Text
<1>3. words \in Seq(Seq(Word))
  <2>1. DOMAIN words = 1 .. N /\ \A i \in 1 .. N : words[i] \in Seq(Word)
    BY <1>1, <1>2
  <2>2. words \in [1 .. N -> Seq(Word)]
    BY <1>1, <2>1
  <2> HIDE DEF words, N
  <2> QED BY <1>1, <2>2
<1>4. costs \in Seq(Nat) /\ Len(costs) = N /\ costs[N] >= gap
  <2>1. \A i \in 1 .. N : texts[i].size + gap \in Nat /\ texts[i].size + gap >= gap
    BY <1>2
  <2>2. costs \in Seq(Nat) /\ Len(costs) = N
    BY <1>1, <2>1
  <2>3. costs[N] = texts[N].size + gap
    BY <1>1
  <2> QED BY <1>1, <2>1, <2>2, <2>3
<1>5. FlattenSeq(words) \in Seq(Word)
  <2> HIDE DEF words
  <2> QED BY <1>3, FlattenType
<1>6. RunningTotal(costs)[N] - gap \in Nat
  <2> HIDE DEF costs
  <2>1. N - 1 \in 0 .. N /\ N \in 1 .. N
    BY <1>1
  <2>2. /\ RunningTotal(costs)[N - 1] \in Nat
        /\ RunningTotal(costs)[N] = RunningTotal(costs)[N - 1] + costs[N]
    BY <1>4, <2>1, RunningTotalSteps
  <2>3. costs[N] \in Nat
    BY <1>4, <2>1
  <2> QED BY <1>4, <2>2, <2>3
<1>7. Joined(texts, gap) = [words |-> FlattenSeq(words), size |-> RunningTotal(costs)[N] - gap]
  BY DEF Joined
<1> HIDE DEF words, costs, N
<1> QED BY <1>5, <1>6, <1>7 DEF Text

\* Texts joined n at a time: no more groups than it takes, each of them a text.
LEMMA GroupedTexts ==
  ASSUME NEW texts \in Seq(Text), Len(texts) <= 32, NEW n \in {6, 8}
  PROVE  LET groups == [g \in DOMAIN Chunks(texts, n) |-> Joined(Chunks(texts, n)[g], 2)]
         IN  groups \in Seq(Text) /\ Len(groups) <= IF n = 6 THEN 6 ELSE 4
<1> DEFINE C == Chunks(texts, n)
           G == (Len(texts) + n - 1) \div n
<1>1. Len(texts) \in Nat
  OBVIOUS
<1>2. /\ G \in Nat /\ G <= IF n = 6 THEN 6 ELSE 4
      /\ \A c \in 1 .. G : (c - 1) * n + 1 <= Len(texts) /\ (c - 1) * n \in Nat /\ c * n \in Nat
                           /\ (c - 1) * n < c * n
  <2>1. CASE n = 6
    BY <1>1, <2>1
  <2>2. CASE n = 8
    BY <1>1, <2>2
  <2> QED BY <2>1, <2>2
<1>3. C = [c \in 1 .. G |-> SubSeq(texts, (c - 1) * n + 1, Min({c * n, Len(texts)}))]
  BY DEF Chunks
<1> HIDE DEF C, G
<1>4. ASSUME NEW c \in 1 .. G PROVE C[c] \in Seq(Text) /\ C[c] # << >>
  <2> DEFINE from == (c - 1) * n + 1
             to == Min({c * n, Len(texts)})
  <2>1. c * n \in Nat /\ from \in Nat /\ from >= 1 /\ from <= Len(texts) /\ from <= c * n
    BY <1>2
  <2>2. to = IF c * n <= Len(texts) THEN c * n ELSE Len(texts)
    BY <1>1, <2>1 DEF Min
  <2>3. C[c] = SubSeq(texts, from, to)
    BY <1>3
  <2> HIDE DEF from, to
  <2>4. from \in 1 .. Len(texts) + 1 /\ to \in from - 1 .. Len(texts) /\ to >= from
    BY <1>1, <2>1, <2>2
  <2>5. from \in Int /\ to \in Int /\ \A i \in from .. to : texts[i] \in Text
    BY <1>1, <2>4
  <2>6. SubSeq(texts, from, to) \in Seq(Text) /\ Len(SubSeq(texts, from, to)) = to - from + 1
    BY <2>4, <2>5, SubSeqProperties
  <2> QED BY <2>3, <2>4, <2>5, <2>6, SMTT(30)
<1> DEFINE groups == [g \in DOMAIN C |-> Joined(C[g], 2)]
<1>5. DOMAIN C = 1 .. G
  BY <1>3
<1>6. \A g \in 1 .. G : Joined(C[g], 2) \in Text
  BY <1>4, JoinedText
<1>7. groups \in Seq(Text) /\ Len(groups) = G
  BY <1>2, <1>5, <1>6
<1> QED BY <1>2, <1>7 DEF C

\* The lists of at most one text.
LEMMA OptionalText ==
  ASSUME NEW x \in Text \cup {Null}
  PROVE  Optional(x) \in Seq(Text) /\ Len(Optional(x)) <= 1
BY DEF Optional

\* Deduplicated texts are texts, no more than the limit.
LEMMA DedupedTexts ==
  ASSUME NEW texts \in Seq(Text), NEW limit \in Nat
  PROVE  DedupeText(texts, limit) \in Seq(Text) /\ Len(DedupeText(texts, limit)) <= limit
<1>1. DOMAIN texts = 1 .. Len(texts)
  OBVIOUS
<1>2. Distinct(texts, texts) \in Seq(Text)
  BY <1>1, DistinctKeys
<1> QED BY <1>2, TakePrefix DEF DedupeText
-----------------------------------------------------------------------------
(* Views *)

\* The views made of texts are inputs the queue accepts, no more than there are
\* texts, and there is one if a text is long enough.
LEMMA ViewsOfTexts ==
  ASSUME NEW kind \in Kind, NEW texts \in Seq(Text), NEW weight \in 10 .. 200
  PROVE  /\ Views(kind, texts, weight) \in Seq(Input)
         /\ Len(Views(kind, texts, weight)) <= Len(texts)
         /\ \A i \in 1 .. Len(texts) : texts[i].size >= 3 => Views(kind, texts, weight) # << >>
<1> DEFINE N == Len(texts)
           cut == [i \in DOMAIN texts |-> Truncated(texts[i], MaxInputChars)]
           K == {i \in DOMAIN cut : cut[i].size >= 3}
           kept == Selected(cut, K)
           views == [i \in DOMAIN kept |->
                       [kind |-> kind, ordinal |-> 0, text |-> kept[i], weight |-> weight]]
<1>1. N \in Nat /\ DOMAIN texts = 1 .. N /\ MaxInputChars \in Nat /\ MaxInputChars = 700
  BY DEF MaxInputChars
<1>2. ASSUME NEW i \in 1 .. N
      PROVE  /\ cut[i] \in Text
             /\ cut[i].size <= MaxInputChars
             /\ texts[i].size >= 3 => cut[i].size >= 3
  <2>1. texts[i] \in Text
    OBVIOUS
  <2>2. cut[i] = Truncated(texts[i], MaxInputChars)
    BY <1>1
  <2>3. texts[i].size \in Nat
    BY <2>1 DEF Text
  <2> DEFINE t == Truncated(texts[i], MaxInputChars)
  <2>4. /\ t \in Text
        /\ texts[i].size <= MaxInputChars => t = texts[i]
        /\ texts[i].size > MaxInputChars => t.size = MaxInputChars
    BY <1>1, <2>1, TruncatedText
  <2> HIDE DEF cut, t
  <2> QED BY <1>1, <2>2, <2>3, <2>4 DEF t
<1>3. DOMAIN cut = 1 .. N
  BY <1>1
<1>4. cut \in Seq(Text) /\ Len(cut) = N
  <2>1. cut \in [1 .. N -> Text]
    BY <1>1, <1>2
  <2> HIDE DEF cut, N
  <2> QED BY <1>1, <2>1
<1>5. Views(kind, texts, weight) = views
  BY DEF Views
<1> HIDE DEF cut
<1>6. kept \in Seq(Text) /\ Len(kept) <= N
  <2> HIDE DEF K, N
  <2> QED BY <1>4, SelectedInOrder
<1>7. PICK f \in [1 .. Len(kept) -> K \cap (1 .. N)] :
        /\ \A i \in 1 .. Len(kept) : kept[i] = cut[f[i]]
        /\ \A k \in K \cap (1 .. N) : \E i \in 1 .. Len(kept) : f[i] = k
  <2>1. \A L : \E f \in [1 .. Len(Selected(cut, L)) -> L \cap (1 .. N)] :
          /\ \A i \in 1 .. Len(Selected(cut, L)) : Selected(cut, L)[i] = cut[f[i]]
          /\ \A k \in L \cap (1 .. N) : \E i \in 1 .. Len(Selected(cut, L)) : f[i] = k
    BY <1>4, SelectedInOrder
  <2> HIDE DEF K
  <2> QED BY <2>1
<1> HIDE DEF kept
<1>8. DOMAIN kept = 1 .. Len(kept) /\ Len(kept) \in Nat
  BY <1>6
<1>9. ASSUME NEW i \in 1 .. Len(kept) PROVE kept[i] \in ViewText
  <2> DEFINE t == cut[f[i]]
  <2>1. f[i] \in 1 .. N /\ f[i] \in K /\ kept[i] = t
    BY <1>7
  <2>2. t \in Text /\ t.size >= 3 /\ t.size <= MaxInputChars
    BY <1>2, <2>1
  <2> HIDE DEF t
  <2> QED BY <2>1, <2>2, FittingText
<1>10. views \in Seq(Input) /\ Len(views) = Len(kept)
  <2>1. views \in [1 .. Len(kept) -> Input]
    BY <1>8, <1>9 DEF Input
  <2> HIDE DEF views
  <2> QED BY <1>8, <2>1
<1>11. ASSUME NEW i \in 1 .. N, texts[i].size >= 3 PROVE Len(kept) # 0
  <2>1. cut[i].size >= 3
    BY <1>2, <1>11
  <2>2. i \in K \cap (1 .. N)
    BY <1>3, <2>1
  <2>3. \E j \in 1 .. Len(kept) : f[j] = i
    <3> HIDE DEF K, N
    <3> QED BY <1>7, <2>2
  <2> QED BY <2>3, <1>8
<1> HIDE DEF views
<1> QED BY <1>1, <1>5, <1>6, <1>8, <1>10, <1>11
-----------------------------------------------------------------------------
(* A page's views *)

\* Every page's views are inputs the queue accepts, 86 of them at most: a
\* title, 24 headings, a summary, 6 groups of entities, 4 of keywords, 48
\* sentences, the URL's and the page's own text.  A page of three characters
\* has one.
LEMMA ViewsOfPage ==
  ASSUME NEW p \in Page
  PROVE  /\ AllViews(p) \in Seq(Input)
         /\ Len(AllViews(p)) <= 86
         /\ p.content.size >= 3 => AllViews(p) # << >>
<1>1. /\ p.content \in Text /\ p.title \in Text \cup {Null} /\ p.signal \in Text \cup {Null}
      /\ p.headings \in Seq(Text) /\ p.sentences \in Seq(Text)
      /\ p.entities \in Seq(Text) /\ p.keywords \in Seq(Text)
  BY PageAssumption
<1>2. Headings(p) \in Seq(Text) /\ Len(Headings(p)) <= 24
  BY <1>1, DedupedTexts DEF Headings
<1>3. Sentences(p) \in Seq(Text) /\ Len(Sentences(p)) <= 48
  <2>1. Take(p.sentences, 48) \in Seq(Text)
    BY <1>1, TakePrefix
  <2> QED BY <2>1, DedupedTexts DEF Sentences
<1>4. EntityGroups(p) \in Seq(Text) /\ Len(EntityGroups(p)) <= 6
  <2>1. Take(p.entities, 32) \in Seq(Text) /\ Len(Take(p.entities, 32)) <= 32
    BY <1>1, TakePrefix
  <2> QED BY <2>1, GroupedTexts DEF EntityGroups
<1>5. KeywordGroups(p) \in Seq(Text) /\ Len(KeywordGroups(p)) <= 4
  <2>1. Take(p.keywords, 32) \in Seq(Text) /\ Len(Take(p.keywords, 32)) <= 32
    BY <1>1, TakePrefix
  <2>2. KeywordGroups(p) \in Seq(Text) /\ Len(KeywordGroups(p)) <= IF 8 = 6 THEN 6 ELSE 4
    BY <2>1, GroupedTexts DEF KeywordGroups
  <2> QED BY <2>2
<1>6. Summary(p) \in Text
  <2>1. Take(Sentences(p), 3) \in Seq(Text)
    BY <1>3, TakePrefix
  <2>2. Take(Sentences(p), 3) # << >> => Joined(Take(Sentences(p), 3), 1) \in Text
    BY <2>1, JoinedText
  <2>3. \A text \in Text : Truncated(text, 900) \in Text
    BY TruncatedText
  <2> QED BY <1>1, <2>2, <2>3 DEF Summary
<1>7. /\ Optional(p.title) \in Seq(Text) /\ Len(Optional(p.title)) <= 1
      /\ Optional(p.signal) \in Seq(Text) /\ Len(Optional(p.signal)) <= 1
  BY <1>1, OptionalText
<1> DEFINE rest == Truncated(p.content, 2000)
<1>8. rest \in Text /\ (p.content.size >= 3 => rest.size >= 3)
  <2>1. p.content.size \in Nat
    BY <1>1 DEF Text
  <2>2. /\ rest \in Text
        /\ p.content.size <= 2000 => rest = p.content
        /\ p.content.size > 2000 => rest.size = 2000
    BY <1>1, TruncatedText
  <2> HIDE DEF rest
  <2> QED BY <2>1, <2>2
<1> DEFINE v1 == Views("title", Optional(p.title), 125)
           v2 == Views("heading", Headings(p), 115)
           v3 == Views("summary", <<Summary(p)>>, 110)
           v4 == Views("entity", EntityGroups(p), 105)
           v5 == Views("keyword", KeywordGroups(p), 90)
           v6 == Views("sentence", Sentences(p), 100)
           v7 == Views("url_signal", Optional(p.signal), 65)
           v8 == Views("document", <<rest>>, 75)
<1> HIDE DEF rest
<1>9. v1 \in Seq(Input) /\ Len(v1) <= 1
  <2>1. "title" \in Kind /\ 125 \in 10 .. 200
    BY DEF Kind
  <2>2. v1 \in Seq(Input) /\ Len(v1) <= Len(Optional(p.title))
    BY <1>7, <2>1, ViewsOfTexts
  <2> HIDE DEF v1
  <2> QED BY <1>7, <2>2
<1>10. v2 \in Seq(Input) /\ Len(v2) <= 24
  <2>1. "heading" \in Kind /\ 115 \in 10 .. 200
    BY DEF Kind
  <2>2. v2 \in Seq(Input) /\ Len(v2) <= Len(Headings(p))
    BY <1>2, <2>1, ViewsOfTexts
  <2> HIDE DEF v2
  <2> QED BY <1>2, <2>2
<1>11. v3 \in Seq(Input) /\ Len(v3) <= 1
  <2>1. "summary" \in Kind /\ 110 \in 10 .. 200
    BY DEF Kind
  <2>2. <<Summary(p)>> \in Seq(Text) /\ Len(<<Summary(p)>>) = 1
    BY <1>6
  <2> QED BY <2>1, <2>2, ViewsOfTexts, ZenonT(40)
<1>12. v4 \in Seq(Input) /\ Len(v4) <= 6
  <2>1. "entity" \in Kind /\ 105 \in 10 .. 200
    BY DEF Kind
  <2>2. v4 \in Seq(Input) /\ Len(v4) <= Len(EntityGroups(p))
    BY <1>4, <2>1, ViewsOfTexts
  <2> HIDE DEF v4
  <2> QED BY <1>4, <2>2
<1>13. v5 \in Seq(Input) /\ Len(v5) <= 4
  <2>1. "keyword" \in Kind /\ 90 \in 10 .. 200
    BY DEF Kind
  <2>2. v5 \in Seq(Input) /\ Len(v5) <= Len(KeywordGroups(p))
    BY <1>5, <2>1, ViewsOfTexts
  <2> HIDE DEF v5
  <2> QED BY <1>5, <2>2
<1>14. v6 \in Seq(Input) /\ Len(v6) <= 48
  <2>1. "sentence" \in Kind /\ 100 \in 10 .. 200
    BY DEF Kind
  <2>2. v6 \in Seq(Input) /\ Len(v6) <= Len(Sentences(p))
    BY <1>3, <2>1, ViewsOfTexts
  <2> HIDE DEF v6
  <2> QED BY <1>3, <2>2
<1>15. v7 \in Seq(Input) /\ Len(v7) <= 1
  <2>1. "url_signal" \in Kind /\ 65 \in 10 .. 200
    BY DEF Kind
  <2>2. v7 \in Seq(Input) /\ Len(v7) <= Len(Optional(p.signal))
    BY <1>7, <2>1, ViewsOfTexts
  <2> HIDE DEF v7
  <2> QED BY <1>7, <2>2
<1>16. v8 \in Seq(Input) /\ Len(v8) <= 1 /\ (p.content.size >= 3 => v8 # << >>)
  <2>1. "document" \in Kind /\ 75 \in 10 .. 200
    BY DEF Kind
  <2>2. <<rest>> \in Seq(Text) /\ Len(<<rest>>) = 1 /\ <<rest>>[1] = rest
    BY <1>8
  <2>3. v8 \in Seq(Input) /\ Len(v8) <= Len(<<rest>>)
    BY <2>1, <2>2, ViewsOfTexts
  <2>4. \A i \in 1 .. Len(<<rest>>) : <<rest>>[i].size >= 3 => v8 # << >>
    BY <2>1, <2>2, ViewsOfTexts
  <2>5. rest.size >= 3 => v8 # << >>
    BY <2>2, <2>4
  <2> QED BY <1>8, <2>2, <2>3, <2>5
<1>17. AllViews(p) = v1 \o v2 \o v3 \o v4 \o v5 \o v6 \o v7 \o v8
  BY DEF AllViews, rest
<1> HIDE DEF v1, v2, v3, v4, v5, v6, v7, v8
<1> DEFINE v == v1 \o v2 \o v3 \o v4 \o v5 \o v6 \o v7
<1>18. v \in Seq(Input) /\ Len(v) = Len(v1) + Len(v2) + Len(v3) + Len(v4) + Len(v5) + Len(v6) + Len(v7)
  BY <1>9, <1>10, <1>11, <1>12, <1>13, <1>14, <1>15
<1>19. Len(v) <= 85
  <2> HIDE DEF v
  <2> QED BY <1>18, <1>9, <1>10, <1>11, <1>12, <1>13, <1>14, <1>15
<1> HIDE DEF v
<1> QED BY <1>16, <1>17, <1>18, <1>19 DEF v
-----------------------------------------------------------------------------
(* The pipeline *)

NoTextTwice(ins) == \A i, j \in DOMAIN ins : ins[i].text = ins[j].text => i = j

\* Where the pipeline stands: the page's views until they are deduplicated, then
\* the same texts, each once; numbered from there on.  Nothing is extracted
\* that has no view.
SInv ==
  /\ page \in Page
  /\ stage \in {"fetched", "collected", "deduped", "capped", "numbered",
                "extracted", "failed", "stored", "unchanged", "refused"}
  /\ inputs \in Seq(Input)
  /\ stage \notin {"fetched", "failed"} => page.content.size > 0
  /\ stage = "failed" => page.content.size < 3
  /\ stage = "collected" => inputs = AllViews(page)
  /\ stage \notin {"fetched", "failed", "collected"} =>
       /\ NoTextTwice(inputs)
       /\ TextsOf(inputs) = TextsOf(AllViews(page))
       /\ Len(inputs) <= 86
  /\ stage \in {"numbered", "extracted", "stored", "unchanged", "refused"} =>
       \A i \in DOMAIN inputs : inputs[i].ordinal = i - 1
  /\ stage \in {"extracted", "stored", "unchanged", "refused"} => Len(inputs) > 0

\* Deduplication by text leaves each of the texts once.
LEMMA DedupedInputs ==
  ASSUME NEW ins \in Seq(Input)
  PROVE  LET kept == Distinct(ins, [i \in DOMAIN ins |-> ins[i].text])
         IN  /\ kept \in Seq(Input) /\ Len(kept) <= Len(ins)
             /\ NoTextTwice(kept)
             /\ TextsOf(kept) = TextsOf(ins)
<1> DEFINE key == [i \in DOMAIN ins |-> ins[i].text]
           kept == Distinct(ins, key)
           N == Len(ins)
<1>1. N \in Nat /\ DOMAIN ins = 1 .. N /\ DOMAIN key = 1 .. N
  OBVIOUS
<1>2. \A i \in 1 .. N : key[i] = ins[i].text
  BY <1>1
<1> HIDE DEF key
<1>3. kept \in Seq(Input) /\ Len(kept) <= N /\ OncePerKey(kept, ins, key)
  BY <1>1, DistinctKeys
<1>4. PICK f \in [1 .. Len(kept) -> 1 .. N] :
        /\ \A i \in 1 .. Len(kept) : kept[i] = ins[f[i]]
        /\ \A i, j \in 1 .. Len(kept) : key[f[i]] = key[f[j]] => i = j
        /\ \A k \in 1 .. N : \E i \in 1 .. Len(kept) : key[f[i]] = key[k]
  <2> HIDE DEF kept
  <2> QED BY <1>3 DEF OncePerKey
<1> HIDE DEF kept
<1>5. DOMAIN kept = 1 .. Len(kept)
  BY <1>3
<1>6. \A i \in 1 .. Len(kept) : f[i] \in 1 .. N /\ kept[i].text = key[f[i]]
  BY <1>2, <1>4
<1> HIDE DEF N
<1>7. NoTextTwice(kept)
  BY <1>4, <1>5, <1>6 DEF NoTextTwice
<1>8. ASSUME NEW t \in TextsOf(kept) PROVE t \in TextsOf(ins)
  <2>1. PICK i \in 1 .. Len(kept) : t = kept[i].text
    BY <1>5 DEF TextsOf
  <2>2. t = ins[f[i]].text /\ f[i] \in DOMAIN ins
    BY <1>1, <1>2, <1>6, <2>1
  <2> QED BY <2>2 DEF TextsOf
<1>9. ASSUME NEW t \in TextsOf(ins) PROVE t \in TextsOf(kept)
  <2>1. PICK k \in 1 .. N : t = key[k]
    BY <1>1, <1>2 DEF TextsOf
  <2>2. PICK i \in 1 .. Len(kept) : key[f[i]] = key[k]
    BY <1>4
  <2>3. t = kept[i].text /\ i \in DOMAIN kept
    BY <1>5, <1>6, <2>1, <2>2
  <2> QED BY <2>3 DEF TextsOf
<1> QED BY <1>3, <1>7, <1>8, <1>9 DEF kept, key, N

\* A list of inputs no longer than the limits, one at least, is accepted.
LEMMA InputsFit ==
  ASSUME NEW ins \in Seq(Input), NEW i \in DOMAIN ins
  PROVE  InputAccepted(ins[i])
<1>1. ins[i] \in Input
  OBVIOUS
<1>2. ins[i].text.size \in 3 .. MaxInputChars /\ ins[i].weight \in 10 .. 200
  BY <1>1 DEF Input, ViewText
<1> QED BY <1>2 DEF InputAccepted, MaxInputChars

\* The first line always fits, so the combined text is neither empty nor longer
\* than the work item allows.
LEMMA CombinedFits ==
  ASSUME NEW ins \in Seq(Input), Len(ins) > 0
  PROVE  CombinedSize(ins) > 0 /\ CombinedSize(ins) <= MaxEmbeddingTextChars
<1> DEFINE costs == [i \in DOMAIN ins |-> LineSize(ins[i])]
           size == RunningTotal(costs)
           N == Len(ins)
           fitting == {size[n] : n \in DOMAIN ins} \cap 0 .. MaxEmbeddingTextChars
<1>1. N \in Nat /\ N >= 1 /\ DOMAIN ins = 1 .. N
  OBVIOUS
<1>2. ASSUME NEW i \in 1 .. N
      PROVE  LineSize(ins[i]) \in 9 .. 711
  <2>1. ins[i] \in Input
    OBVIOUS
  <2>2. ins[i].text \in ViewText /\ ins[i].kind \in Kind
    BY <2>1 DEF Input
  <2>3. ins[i].text.size \in 3 .. 700
    BY <2>2 DEF ViewText, MaxInputChars
  <2>4. ASSUME NEW k \in Kind PROVE LabelSize[k] \in 3 .. 8
    BY DEF LabelSize, Kind
  <2>5. PICK label \in 3 .. 8 : label = LabelSize[ins[i].kind]
    BY <2>2, <2>4
  <2>6. PICK chars \in 3 .. 700 : chars = ins[i].text.size
    BY <2>3
  <2>7. LineSize(ins[i]) = label + 2 + chars + 1
    BY <2>5, <2>6 DEF LineSize
  <2> QED BY <2>7
<1>3. costs \in Seq(Nat) /\ Len(costs) = N
  <2>1. costs \in [1 .. N -> Nat]
    <3>1. ASSUME NEW i \in 1 .. N PROVE LineSize(ins[i]) \in Nat
      <4>1. \A n \in 9 .. 711 : n \in Nat
        OBVIOUS
      <4>2. LineSize(ins[i]) \in 9 .. 711
        BY <1>2
      <4> QED BY <4>1, <4>2
    <3> HIDE DEF N
    <3> QED BY <1>1, <3>1
  <2> HIDE DEF costs, N
  <2> QED BY <1>1, <2>1
<1>4. costs[1] \in 9 .. 711
  <2>1. costs[1] = LineSize(ins[1])
    BY <1>1
  <2>2. 1 \in 1 .. N
    BY <1>1
  <2> HIDE DEF costs, N
  <2> QED BY <1>2, <2>1, <2>2, ZenonT(40)
<1>5. costs[1] \in Nat
  <2> HIDE DEF costs
  <2> QED BY <1>1, <1>3
<1> HIDE DEF costs
<1>6. /\ size \in [0 .. N -> Nat] /\ size[0] = 0
      /\ \A n \in 1 .. N : size[n] = size[n - 1] + costs[n]
  BY <1>3, RunningTotalSteps
<1> HIDE DEF size
<1>7. size[1] = costs[1]
  <2>1. 1 \in 1 .. N /\ 1 - 1 = 0
    BY <1>1
  <2>2. size[1] = size[1 - 1] + costs[1]
    BY <1>6, <2>1
  <2> QED BY <1>5, <1>6, <2>1, <2>2
<1>8. size[1] \in fitting
  <2>1. size[1] \in 0 .. MaxEmbeddingTextChars
    <3>1. \A n \in 9 .. 711 : n \in 0 .. MaxEmbeddingTextChars
      BY DEF MaxEmbeddingTextChars
    <3> QED BY <1>4, <1>7, <3>1, ZenonT(40)
  <2>2. 1 \in DOMAIN ins
    BY <1>1
  <2> QED BY <2>1, <2>2
<1>9. fitting \in SUBSET (0 .. MaxEmbeddingTextChars) /\ fitting # {}
  BY <1>8
<1>10. CombinedSize(ins) = IF fitting = {} THEN 0 ELSE Max(fitting) - 1
  BY DEF CombinedSize, size, costs
<1> HIDE DEF fitting
<1>11. Max(fitting) \in 0 .. MaxEmbeddingTextChars /\ Max(fitting) >= size[1]
  <2>1. MaxEmbeddingTextChars \in Nat
    BY DEF MaxEmbeddingTextChars
  <2>2. Max(fitting) \in fitting /\ \A k \in fitting : k <= Max(fitting)
    BY <1>9, <2>1, MaxOfNumbers
  <2> QED BY <1>8, <1>9, <2>2
<1>12. PICK m \in 0 .. MaxEmbeddingTextChars : m = Max(fitting)
  BY <1>11
<1>13. PICK n \in 9 .. 711 : n = size[1]
  BY <1>4, <1>7
<1>14. m >= n
  BY <1>11, <1>12, <1>13
<1>15. m - 1 > 0 /\ m - 1 <= MaxEmbeddingTextChars
  <2>1. m >= 9
    BY <1>14
  <2>2. m - 1 > 0
    BY <2>1
  <2>3. m - 1 <= MaxEmbeddingTextChars
    BY DEF MaxEmbeddingTextChars
  <2> QED BY <2>2, <2>3
<1>16. CombinedSize(ins) = m - 1
  BY <1>9, <1>10, <1>12
<1> QED BY <1>15, <1>16

\* As many texts as inputs, when none comes twice.
LEMMA CountedTexts ==
  ASSUME NEW ins \in Seq(Input), NoTextTwice(ins)
  PROVE  Cardinality(TextsOf(ins)) = Len(ins)
<1> DEFINE f == [i \in 1 .. Len(ins) |-> ins[i].text]
<1>1. Len(ins) \in Nat /\ DOMAIN ins = 1 .. Len(ins)
  OBVIOUS
<1>2. f \in [1 .. Len(ins) -> TextsOf(ins)]
  BY <1>1 DEF TextsOf
<1>3. IsInjective(f)
  BY <1>1 DEF IsInjective, NoTextTwice
<1>4. ASSUME NEW t \in TextsOf(ins) PROVE \E i \in 1 .. Len(ins) : f[i] = t
  BY <1>1 DEF TextsOf
<1>5. f \in Bijection(1 .. Len(ins), TextsOf(ins))
  <2> HIDE DEF f
  <2> QED BY <1>2, <1>3, <1>4 DEF Bijection, Injection, Surjection
<1>6. IsFiniteSet(1 .. Len(ins)) /\ Cardinality(1 .. Len(ins)) = Len(ins)
  BY <1>1, FS_Interval
<1> HIDE DEF f
<1> QED BY <1>5, <1>6, FS_Bijection DEF ExistsBijection
-----------------------------------------------------------------------------
(* The theorems *)

LEMMA InitPipeline == Init => SInv
<1> SUFFICES ASSUME Init PROVE SInv
  OBVIOUS
<1> QED BY DEF Init, SInv

LEMMA StepPipeline == SInv /\ [Next]_vars => SInv'
<1> SUFFICES ASSUME SInv, [Next]_vars PROVE SInv'
  OBVIOUS
<1>1. CASE EmptyContent
  BY <1>1 DEF EmptyContent, Move, SInv
<1>2. CASE Collect
  <2>1. AllViews(page) \in Seq(Input)
    BY ViewsOfPage DEF SInv
  <2> QED BY <1>2, <2>1 DEF Collect, Move, SInv
<1>3. CASE Dedupe
  <2> DEFINE kept == Distinct(inputs, [i \in DOMAIN inputs |-> inputs[i].text])
  <2>1. inputs \in Seq(Input) /\ page \in Page /\ inputs = AllViews(page)
    BY <1>3 DEF Dedupe, Move, SInv
  <2>2. kept \in Seq(Input) /\ Len(kept) <= Len(inputs) /\ NoTextTwice(kept) /\ TextsOf(kept) = TextsOf(inputs)
    BY <2>1, DedupedInputs
  <2>3. Len(inputs) <= 86
    BY <2>1, ViewsOfPage
  <2>4. inputs' = kept
    BY <1>3 DEF Dedupe
  <2> HIDE DEF kept
  <2>5. /\ inputs' \in Seq(Input) /\ Len(inputs') <= 86 /\ NoTextTwice(inputs')
        /\ TextsOf(inputs') = TextsOf(AllViews(page))
    BY <2>1, <2>2, <2>3, <2>4
  <2>6. stage = "collected" /\ stage' = "deduped" /\ page' = page
    BY <1>3 DEF Dedupe, Move
  <2> QED BY <2>1, <2>5, <2>6 DEF SInv
<1>4. CASE Cap
  <2>1. inputs \in Seq(Input) /\ Len(inputs) <= 86
    BY <1>4 DEF Cap, Move, SInv
  <2>2. Take(inputs, MaxInputs) = inputs
    BY <2>1, TakePrefix DEF MaxInputs
  <2> QED BY <1>4, <2>2 DEF Cap, Move, SInv
<1>5. CASE Number
  <2> DEFINE numbered == [i \in DOMAIN inputs |-> [inputs[i] EXCEPT !.ordinal = i - 1]]
  <2>1. /\ inputs \in Seq(Input) /\ page \in Page /\ NoTextTwice(inputs)
        /\ Len(inputs) <= 86 /\ TextsOf(inputs) = TextsOf(AllViews(page))
    BY <1>5 DEF Number, Move, SInv
  <2>2. DOMAIN inputs = 1 .. Len(inputs) /\ Len(inputs) \in Nat
    BY <2>1
  <2>3. ASSUME NEW i \in 1 .. Len(inputs)
        PROVE  /\ numbered[i] \in Input
               /\ numbered[i].text = inputs[i].text
               /\ numbered[i].ordinal = i - 1
    <3>1. inputs[i] \in Input /\ i - 1 \in Nat
      BY <2>1, <2>2
    <3>2. numbered[i] = [inputs[i] EXCEPT !.ordinal = i - 1]
      BY <2>2
    <3> HIDE DEF numbered
    <3> QED BY <3>1, <3>2 DEF Input
  <2>4. DOMAIN numbered = 1 .. Len(inputs)
    BY <2>2
  <2>5. numbered \in Seq(Input) /\ Len(numbered) = Len(inputs)
    <3>1. numbered \in [1 .. Len(inputs) -> Input]
      BY <2>3, <2>4
    <3> HIDE DEF numbered
    <3> QED BY <2>2, <3>1
  <2>6. inputs' = numbered /\ stage' = "numbered" /\ page' = page
    BY <1>5 DEF Number, Move
  <2> HIDE DEF numbered
  <2>7. NoTextTwice(numbered)
    BY <2>1, <2>2, <2>3, <2>4 DEF NoTextTwice
  <2>8. TextsOf(numbered) = TextsOf(inputs)
    BY <2>2, <2>3, <2>4 DEF TextsOf
  <2>9. stage = "capped"
    BY <1>5 DEF Number, Move
  <2>10. \A i \in DOMAIN inputs' : inputs'[i].ordinal = i - 1
    BY <2>3, <2>4, <2>6
  <2> QED BY <2>1, <2>5, <2>6, <2>7, <2>8, <2>9, <2>10 DEF SInv
<1>6. CASE Validate
  <2>1. /\ inputs \in Seq(Input) /\ page \in Page /\ stage = "numbered" /\ Len(inputs) <= 86
        /\ page.content.size > 0 /\ TextsOf(inputs) = TextsOf(AllViews(page))
    BY <1>6 DEF Validate, Move, SInv
  <2>2. CASE DocumentAccepted(page, inputs)
    <3>1. stage' = "extracted" /\ UNCHANGED <<page, inputs>>
      BY <1>6, <2>2 DEF Validate, Move
    <3>2. Len(inputs) > 0
      <4>1. \A n \in 1 .. MaxInputs : n > 0
        BY DEF MaxInputs
      <4> QED BY <2>2, <4>1 DEF DocumentAccepted
    <3> QED BY <2>1, <3>1, <3>2 DEF SInv
  <2>3. CASE ~DocumentAccepted(page, inputs)
    <3>1. stage' = "failed" /\ UNCHANGED <<page, inputs>>
      BY <1>6, <2>3 DEF Validate, Move
    <3>2. Len(inputs) = 0
      <4>1. \A i \in DOMAIN inputs : InputAccepted(inputs[i])
        BY <2>1, InputsFit
      <4>2. Len(inputs) \notin 1 .. MaxInputs
        BY <2>1, <2>3, <4>1 DEF DocumentAccepted
      <4>3. Len(inputs) \in Nat /\ Len(inputs) <= 86
        BY <2>1
      <4>4. \A n \in Nat : n <= 86 /\ n \notin 1 .. MaxInputs => n = 0
        BY DEF MaxInputs
      <4> QED BY <4>2, <4>3, <4>4
    <3>3. TextsOf(AllViews(page)) = {}
      BY <2>1, <3>2 DEF TextsOf
    <3>4. AllViews(page) = << >>
      <4>1. AllViews(page) \in Seq(Input)
        BY <2>1, ViewsOfPage
      <4>2. DOMAIN AllViews(page) = {}
        BY <3>3 DEF TextsOf
      <4> QED BY <4>1, <4>2
    <3>5. page.content.size < 3
      <4>1. page.content.size \in Nat
        BY <2>1, PageAssumption DEF Text
      <4> QED BY <2>1, <3>4, <4>1, ViewsOfPage
    <3> QED BY <2>1, <3>1, <3>5 DEF SInv
  <2> QED BY <2>2, <2>3
<1>7. ASSUME NEW previous \in Previous, Decide(previous) PROVE SInv'
  <2>1. stage = "extracted" /\ stage' \in {"refused", "unchanged", "stored"} /\ UNCHANGED <<page, inputs>>
    BY <1>7 DEF Decide, Move
  <2> QED BY <2>1 DEF SInv
<1>8. CASE Done \/ UNCHANGED vars
  BY <1>8 DEF Done, vars, SInv
<1> QED BY <1>1, <1>2, <1>3, <1>4, <1>5, <1>6, <1>7, <1>8 DEF Next

THEOREM PipelineInvariant == Spec => []SInv
BY InitPipeline, StepPipeline, PTL DEF Spec

\* The extractor loses no view of any page: a page of three characters is
\* extracted, and the cap of 96 inputs cuts nothing off.
THEOREM NoPageLosesViews == Spec => []NoViewLost
<1>1. SInv => NoViewLost
  BY DEF SInv, NoViewLost
<1> QED BY <1>1, PipelineInvariant, PTL

\* What is extracted from any page passes the gate of the embedding queue, whose
\* limits are its own, and no text is in it twice.
THEOREM ExtractionPassesGate == Spec => []ExtractedAccepted
<1>1. SInv => ExtractedAccepted
  <2> SUFFICES ASSUME SInv, stage \in {"extracted", "refused"}
               PROVE  InputsAccepted(inputs) /\ Cardinality(TextsOf(inputs)) = Len(inputs)
    BY DEF ExtractedAccepted
  <2>1. /\ inputs \in Seq(Input) /\ NoTextTwice(inputs) /\ Len(inputs) <= 86 /\ Len(inputs) > 0
        /\ \A i \in DOMAIN inputs : inputs[i].ordinal = i - 1
    BY DEF SInv
  <2>2. \A i \in DOMAIN inputs : InputAccepted(inputs[i])
    BY <2>1, InputsFit
  <2>3. Len(inputs) \in 1 .. MaxEmbeddingInputs
    <3>1. Len(inputs) \in Nat /\ Len(inputs) <= 86 /\ Len(inputs) > 0
      BY <2>1
    <3>2. \A n \in Nat : n <= 86 /\ n > 0 => n \in 1 .. MaxEmbeddingInputs
      BY DEF MaxEmbeddingInputs
    <3> QED BY <3>1, <3>2
  <2> QED BY <2>1, <2>2, <2>3, CountedTexts DEF InputsAccepted
<1> QED BY <1>1, PipelineInvariant, PTL

\* The provider gets some text for every extracted page, and never more than the
\* work item allows, by its own limit.
THEOREM ProviderTextFits == Spec => []ProviderTextBounded
<1>1. SInv /\ ExtractedAccepted => ProviderTextBounded
  <2> SUFFICES ASSUME SInv, ExtractedAccepted, stage = "extracted"
               PROVE  WorkItemAccepted(page, inputs) /\ CombinedSize(inputs) > 0
    BY DEF ProviderTextBounded
  <2>1. inputs \in Seq(Input) /\ Len(inputs) > 0 /\ page.content.size > 0
    BY DEF SInv
  <2>2. CombinedSize(inputs) > 0 /\ CombinedSize(inputs) <= MaxEmbeddingTextChars
    BY <2>1, CombinedFits
  <2>3. InputsAccepted(inputs)
    BY DEF ExtractedAccepted
  <2>4. CombinedSize(inputs) <= GateEmbeddingTextChars
    BY <2>2 DEF GateEmbeddingTextChars, MaxEmbeddingTextChars
  <2> QED BY <2>1, <2>2, <2>3, <2>4 DEF WorkItemAccepted
<1> QED BY <1>1, PipelineInvariant, ExtractionPassesGate, PTL
=============================================================================
