--------------------------- MODULE SequenceFacts ---------------------------
(***************************************************************************)
(* Facts about numbers, iteration and sequences that the proofs about the  *)
(* components share.  What an operator defined by recursion over numbers   *)
(* gives is found by looking at the least number where it would not.       *)
(***************************************************************************)
EXTENDS Integers, Sequences, SequencesExt, WellFoundedInduction, SequenceTheorems, TLAPS

Before == {pair \in Nat \X Nat : pair[1] < pair[2]}

\* A set of naturals has a least element.
LEMMA LeastNumber ==
    ASSUME NEW T \in SUBSET Nat, T # {}
    PROVE  \E m \in T : \A k \in T : m <= k
  <1>1. IsWellFoundedOn(Before, Nat)
    BY NatLessThanWellFounded DEF OpToRel, Before
  <1>2. PICK m \in T : \A k \in T : <<k, m>> \notin Before
    BY <1>1, WFMin
  <1>3. \A k \in T : ~(k < m)
    BY <1>2 DEF Before
  <1> QED  BY <1>3

\* So the least and the greatest of a set are what the library chooses.
LEMMA MinOf ==
    ASSUME NEW T \in SUBSET Nat, T # {}
    PROVE  Min(T) \in T /\ \A k \in T : Min(T) <= k
  <1>1. \E m \in T : \A k \in T : m <= k
    BY LeastNumber
  <1> QED  BY <1>1 DEF Min

LEMMA MaxOf ==
    ASSUME NEW T \in SUBSET Nat, T # {}, NEW b \in Nat, \A k \in T : k <= b
    PROVE  Max(T) \in T /\ \A k \in T : k <= Max(T)
  <1> DEFINE R == {d \in 0 .. b : b - d \in T}
  <1>1. R \in SUBSET Nat
    OBVIOUS
  <1>2. R # {}
    <2>1. PICK k \in T : TRUE
      OBVIOUS
    <2>2. b - k \in 0 .. b /\ b - (b - k) = k
      BY <2>1
    <2> QED  BY <2>1, <2>2
  <1>3. PICK d \in R : \A x \in R : d <= x
    <2> HIDE DEF R
    <2> QED  BY <1>1, <1>2, LeastNumber
  <1>4. b - d \in T /\ d \in 0 .. b
    BY <1>3
  <1>5. ASSUME NEW k \in T PROVE b - d >= k
    <2>1. b - k \in 0 .. b /\ b - (b - k) = k
      OBVIOUS
    <2>2. b - k \in R
      BY <2>1
    <2>3. d <= b - k
      BY <1>3, <2>2
    <2> QED  BY <1>4, <2>3
  <1>6. \E m \in T : \A k \in T : m >= k
    BY <1>4, <1>5
  <1> DEFINE m == CHOOSE x \in T : \A y \in T : x >= y
  <1>7. m \in T /\ \A k \in T : m >= k
    <2> HIDE DEF R
    <2> QED  BY <1>6, Zenon
  <1> HIDE DEF m
  <1>8. \A k \in T : k <= m
    BY <1>7
  <1> QED  BY <1>7, <1>8 DEF Max, m

\* What holds of 0, and of a number when it does of the one before, holds of all up to n.
LEMMA UpTo ==
    ASSUME NEW n \in Nat, NEW T \in SUBSET (0 .. n), 0 \in T,
           \A m \in 1 .. n : m - 1 \in T => m \in T
    PROVE  T = 0 .. n
  <1> DEFINE Missing == (0 .. n) \ T
  <1> SUFFICES ASSUME Missing # {} PROVE FALSE
    OBVIOUS
  <1>1. PICK m \in Missing : \A k \in Missing : m <= k
    <2>1. Missing \in SUBSET Nat
      OBVIOUS
    <2> HIDE DEF Missing
    <2> QED  BY <2>1, LeastNumber
  <1>2. m \in 1 .. n /\ m - 1 \in T
    BY <1>1
  <1> QED  BY <1>1, <1>2

\* What holds of n + 1, and of a number when it does of all greater ones, holds of all.
LEMMA DownTo ==
    ASSUME NEW n \in Nat, NEW T \in SUBSET (1 .. n + 1), n + 1 \in T,
           \A i \in 1 .. n : (\A j \in i + 1 .. n + 1 : j \in T) => i \in T
    PROVE  T = 1 .. n + 1
  <1> DEFINE Missing == {d \in 0 .. n : n + 1 - d \notin T}
  <1>1. CASE Missing = {}
    <2>1. ASSUME NEW i \in 1 .. n + 1 PROVE i \in T
      <3>1. n + 1 - i \in 0 .. n /\ n + 1 - (n + 1 - i) = i
        OBVIOUS
      <3> QED  BY <1>1, <3>1
    <2> QED  BY <2>1
  <1>2. CASE Missing # {}
    <2>1. PICK d \in Missing : \A x \in Missing : d <= x
      <3>1. Missing \in SUBSET Nat
        OBVIOUS
      <3> HIDE DEF Missing
      <3> QED  BY <1>2, <3>1, LeastNumber
    <2>2. d \in 0 .. n /\ n + 1 - d \notin T
      BY <2>1
    <2>3. d # 0
      BY <2>2
    <2>4. PICK i \in 1 .. n : i = n + 1 - d
      BY <2>2, <2>3
    <2>5. ASSUME NEW j \in i + 1 .. n + 1 PROVE j \in T
      <3>1. n + 1 - j \in 0 .. n /\ n + 1 - (n + 1 - j) = j /\ ~(d <= n + 1 - j)
        BY <2>2, <2>4
      <3>2. n + 1 - j \notin Missing
        BY <2>1, <3>1
      <3> QED  BY <3>1, <3>2
    <2> QED  BY <2>2, <2>4, <2>5
  <1> QED  BY <1>1, <1>2

\* Iteration: f[i] is what g makes of i and f[i - 1].
Iterates(f, n, s, g) == f[0] = s /\ \A i \in 1 .. n : f[i] = g[<<i, f[i - 1]>>]

LEMMA IterationExists ==
    ASSUME NEW n \in Nat, NEW S, NEW s \in S, NEW g \in [(1 .. n) \X S -> S]
    PROVE  \E f \in [0 .. n -> S] : Iterates(f, n, s, g)
  <1> DEFINE T == {m \in 0 .. n : \E f \in [0 .. m -> S] : Iterates(f, m, s, g)}
  <1>1. 0 \in T
    <2>1. [i \in 0 .. 0 |-> s] \in [0 .. 0 -> S] /\ Iterates([i \in 0 .. 0 |-> s], 0, s, g)
      BY DEF Iterates
    <2> QED  BY <2>1
  <1>2. ASSUME NEW m \in 1 .. n, m - 1 \in T PROVE m \in T
    <2>1. PICK f \in [0 .. m - 1 -> S] : Iterates(f, m - 1, s, g)
      BY <1>2
    <2> DEFINE h == [i \in 0 .. m |-> IF i = m THEN g[<<m, f[m - 1]>>] ELSE f[i]]
    <2>2. f[m - 1] \in S
      OBVIOUS
    <2>3. g[<<m, f[m - 1]>>] \in S
      BY <2>2
    <2>4. h \in [0 .. m -> S]
      BY <2>3
    <2>5. Iterates(h, m, s, g)
      <3>1. \A i \in 0 .. m - 1 : h[i] = f[i]
        OBVIOUS
      <3>2. h[m] = g[<<m, f[m - 1]>>]
        OBVIOUS
      <3>3. 0 \in 0 .. m - 1 /\ m - 1 \in 0 .. m - 1
        OBVIOUS
      <3> HIDE DEF h
      <3>4. h[0] = s
        BY <2>1, <3>1, <3>3 DEF Iterates
      <3>5. ASSUME NEW i \in 1 .. m PROVE h[i] = g[<<i, h[i - 1]>>]
        <4>1. CASE i = m
          BY <3>1, <3>2, <3>3, <4>1
        <4>2. CASE i # m
          <5>1. i \in 1 .. m - 1 /\ i \in 0 .. m - 1 /\ i - 1 \in 0 .. m - 1
            BY <4>2
          <5> QED  BY <2>1, <3>1, <5>1 DEF Iterates
        <4> QED  BY <4>1, <4>2
      <3> QED  BY <3>4, <3>5 DEF Iterates
    <2> HIDE DEF h
    <2> QED  BY <2>4, <2>5
  <1>3. T = 0 .. n
    <2> HIDE DEF T
    <2>1. T \in SUBSET (0 .. n)
      BY DEF T
    <2> QED  BY <1>1, <1>2, <2>1, UpTo
  <1>4. n \in T
    BY <1>3
  <1> QED  BY <1>4

\* A recursion that goes up: f[i] is what g makes of i and of f at a later place.
Descends(f, m, n, nx, g) == \A i \in m .. n : f[i] = g[<<i, f[nx[i]]>>]

LEMMA JumpsExist ==
    ASSUME NEW n \in Nat, NEW S, NEW b \in S, NEW g \in [(1 .. n) \X S -> S],
           NEW nx, \A i \in 1 .. n : nx[i] \in i + 1 .. n + 1
    PROVE  \E f \in [1 .. n + 1 -> S] : f[n + 1] = b /\ Descends(f, 1, n, nx, g)
  <1> DEFINE Have(m) == \E f \in [n + 1 - m .. n + 1 -> S] : f[n + 1] = b /\ Descends(f, n + 1 - m, n, nx, g)
             T == {m \in 0 .. n : Have(m)}
  <1>1. 0 \in T
    <2> DEFINE f == [i \in n + 1 .. n + 1 |-> b]
    <2>1. f \in [n + 1 .. n + 1 -> S] /\ f[n + 1] = b
      OBVIOUS
    <2>2. Descends(f, n + 1, n, nx, g)
      BY DEF Descends
    <2>3. n + 1 - 0 = n + 1 /\ 0 \in 0 .. n
      OBVIOUS
    <2> HIDE DEF f
    <2>4. Have(0)
      BY <2>1, <2>2, <2>3
    <2> QED  BY <2>3, <2>4
  <1>2. ASSUME NEW m \in 1 .. n, m - 1 \in T PROVE m \in T
    <2>1. PICK j \in 1 .. n : j = n + 1 - m /\ n + 1 - (m - 1) = j + 1
      OBVIOUS
    <2>2. PICK f \in [j + 1 .. n + 1 -> S] : f[n + 1] = b /\ Descends(f, j + 1, n, nx, g)
      BY <1>2, <2>1
    <2> DEFINE v == g[<<j, f[nx[j]]>>]
               h == [i \in j .. n + 1 |-> IF i = j THEN v ELSE f[i]]
    <2>3. nx[j] \in j + 1 .. n + 1
      BY <2>1
    <2>4. v \in S
      <3>1. f[nx[j]] \in S
        BY <2>3
      <3> QED  BY <3>1
    <2> HIDE DEF v
    <2>5. h \in [j .. n + 1 -> S]
      <3>1. \A i \in j .. n + 1 : i # j => f[i] \in S
        BY <2>1
      <3> QED  BY <2>4, <3>1
    <2>6. (\A i \in j + 1 .. n + 1 : h[i] = f[i]) /\ h[j] = v /\ n + 1 \in j + 1 .. n + 1
      BY <2>1
    <2> HIDE DEF h
    <2>7. ASSUME NEW i \in j .. n PROVE h[i] = g[<<i, h[nx[i]]>>]
      <3>1. i \in 1 .. n
        BY <2>1
      <3>2. nx[i] \in i + 1 .. n + 1
        BY <3>1
      <3>3. nx[i] \in j + 1 .. n + 1
        BY <2>1, <3>2
      <3>4. h[nx[i]] = f[nx[i]]
        BY <2>6, <3>3
      <3>5. CASE i = j
        BY <2>6, <3>4, <3>5 DEF v
      <3>6. CASE i # j
        <4>1. i \in j + 1 .. n /\ i \in j + 1 .. n + 1
          BY <2>1, <3>6
        <4> QED  BY <2>2, <2>6, <3>4, <4>1, Zenon DEF Descends
      <3> QED  BY <3>5, <3>6
    <2>8. h[n + 1] = b /\ Descends(h, j, n, nx, g)
      BY <2>2, <2>6, <2>7, Zenon DEF Descends
    <2>9. Have(m)
      BY <2>1, <2>5, <2>8
    <2>10. m \in 0 .. n
      OBVIOUS
    <2> QED  BY <2>9, <2>10
  <1>3. T = 0 .. n
    <2>1. T \in SUBSET (0 .. n)
      OBVIOUS
    <2> HIDE DEF T
    <2> QED  BY <1>1, <1>2, <2>1, UpTo
  <1>4. Have(n)
    <2>1. n \in T
      BY <1>3
    <2> QED  BY <2>1
  <1>5. n + 1 - n = 1
    OBVIOUS
  <1> QED  BY <1>4, <1>5

-----------------------------------------------------------------------------
(* FlattenSeq.                                                             *)

\* f has the sequences of ss strung together as far as each of its places.
Strings(f, ss) == /\ f[0] = << >>
                  /\ \A i \in 1 .. Len(ss) : f[i] = f[i - 1] \o ss[i]

LEMMA StringsExist ==
    ASSUME NEW S, NEW ss \in Seq(Seq(S))
    PROVE  \E f \in [0 .. Len(ss) -> Seq(S)] : Strings(f, ss)
  <1> DEFINE n == Len(ss)
             g == [p \in (1 .. n) \X Seq(S) |-> p[2] \o ss[p[1]]]
  <1>1. n \in Nat /\ << >> \in Seq(S) /\ \A i \in 1 .. n : ss[i] \in Seq(S)
    BY EmptySeq
  <1>2. \A i \in 1 .. n, t \in Seq(S) : g[<<i, t>>] = t \o ss[i] /\ t \o ss[i] \in Seq(S)
    BY <1>1, ConcatProperties
  <1>3. g \in [(1 .. n) \X Seq(S) -> Seq(S)]
    <2>1. \A p \in (1 .. n) \X Seq(S) : p[2] \o ss[p[1]] \in Seq(S)
      BY <1>1, ConcatProperties
    <2> QED  BY <2>1
  <1>4. PICK f \in [0 .. n -> Seq(S)] : Iterates(f, n, << >>, g)
    <2> HIDE DEF n, g
    <2> QED  BY <1>1, <1>3, IterationExists
  <1>5. \A i \in 1 .. n : f[i - 1] \in Seq(S)
    <2> HIDE DEF n
    <2> QED  BY <1>1
  <1>6. Strings(f, ss)
    <2> HIDE DEF g
    <2> QED  BY <1>2, <1>4, <1>5 DEF Iterates, Strings
  <1> QED  BY <1>6

\* There is one way to string sequences together.
LEMMA StringsUnique ==
    ASSUME NEW ss, Len(ss) \in Nat, NEW f, NEW h, Strings(f, ss), Strings(h, ss)
    PROVE  \A i \in 0 .. Len(ss) : f[i] = h[i]
  <1> DEFINE T == {i \in 0 .. Len(ss) : f[i] = h[i]}
  <1>1. 0 \in T
    BY DEF Strings
  <1>2. ASSUME NEW m \in 1 .. Len(ss), m - 1 \in T PROVE m \in T
    <2>1. f[m - 1] = h[m - 1]
      BY <1>2
    <2>2. f[m] = f[m - 1] \o ss[m] /\ h[m] = h[m - 1] \o ss[m]
      BY DEF Strings
    <2>3. m \in 0 .. Len(ss)
      OBVIOUS
    <2> QED  BY <2>1, <2>2, <2>3, Zenon
  <1>3. T = 0 .. Len(ss)
    <2> HIDE DEF T
    <2>1. T \in SUBSET (0 .. Len(ss))
      BY DEF T
    <2> QED  BY <1>1, <1>2, <2>1, UpTo
  <1> QED  BY <1>3

LEMMA FlattenStrings ==
    ASSUME NEW S, NEW ss \in Seq(Seq(S)), NEW f, Strings(f, ss)
    PROVE  FlattenSeq(ss) = f[Len(ss)]
  <1> DEFINE n == Len(ss)
             Defines(h) == h = [i \in 1 .. n |-> IF i = 1 THEN ss[i] ELSE h[i - 1] \o ss[i]]
             flatten == CHOOSE h : Defines(h)
  <1>0. n \in Nat /\ \A i \in 1 .. n : ss[i] \in Seq(S) /\ << >> \o ss[i] = ss[i]
    BY ConcatEmptySeq
  <1>1. CASE n = 0
    <2>1. ss = << >>
      BY <1>1, EmptySeq
    <2> QED  BY <1>1, <2>1 DEF FlattenSeq, Strings
  <1>2. CASE n # 0
    <2>1. FlattenSeq(ss) = flatten[n]
      BY <1>2 DEF FlattenSeq
    <2> DEFINE h1 == [i \in 1 .. n |-> f[i]]
    <2> HIDE DEF n
    <2>2. f[0] = << >> /\ \A i \in 1 .. n : f[i] = f[i - 1] \o ss[i]
      BY DEF Strings, n
    <2>3. Defines(h1)
      <3>1. ASSUME NEW i \in 1 .. n PROVE h1[i] = IF i = 1 THEN ss[i] ELSE h1[i - 1] \o ss[i]
        <4>1. CASE i = 1
          <5>1. i - 1 = 0 /\ h1[i] = f[i]
            BY <4>1
          <5> QED  BY <1>0, <2>2, <4>1, <5>1
        <4>2. CASE i # 1
          <5>1. i - 1 \in 1 .. n
            BY <1>0, <4>2
          <5>2. h1[i] = f[i] /\ h1[i - 1] = f[i - 1]
            BY <5>1
          <5> HIDE DEF h1
          <5> QED  BY <2>2, <4>2, <5>2
        <4> QED  BY <4>1, <4>2
      <3>2. h1 = [i \in 1 .. n |-> h1[i]]
        OBVIOUS
      <3> HIDE DEF h1
      <3> QED  BY <3>1, <3>2, Zenon
    <2>4. Defines(flatten)
      <3> HIDE DEF Defines, h1
      <3> QED  BY <2>3
    <2> HIDE DEF h1, flatten
    <2>5. \A i \in 1 .. n : flatten[i] = IF i = 1 THEN ss[i] ELSE flatten[i - 1] \o ss[i]
      BY <2>4, Zenon
    <2> HIDE DEF Defines
    <2> DEFINE f0 == [i \in 0 .. n |-> IF i = 0 THEN << >> ELSE flatten[i]]
    <2>6. f0[0] = << >> /\ \A i \in 1 .. n : f0[i] = flatten[i]
      BY <1>0
    <2> HIDE DEF f0
    <2>7. ASSUME NEW i \in 1 .. n PROVE f0[i] = f0[i - 1] \o ss[i]
      <3>1. CASE i = 1
        <4>1. i - 1 = 0
          BY <3>1
        <4> QED  BY <1>0, <2>5, <2>6, <3>1, <4>1
      <3>2. CASE i # 1
        <4>1. i - 1 \in 1 .. n
          BY <1>0, <3>2
        <4> QED  BY <2>5, <2>6, <3>2, <4>1
      <3> QED  BY <3>1, <3>2
    <2>8. Strings(f0, ss)
      BY <2>6, <2>7 DEF Strings, n
    <2>9. f0[n] = f[n]
      <3>1. n \in 0 .. n /\ Len(ss) = n
        BY <1>0 DEF n
      <3> QED  BY <1>0, <2>8, <3>1, StringsUnique
    <2>10. n \in 1 .. n
      BY <1>0, <1>2
    <2> QED  BY <2>1, <2>6, <2>9, <2>10 DEF n
  <1> QED  BY <1>1, <1>2

LEMMA FlattenType ==
    ASSUME NEW S, NEW ss \in Seq(Seq(S))
    PROVE  FlattenSeq(ss) \in Seq(S)
  <1>1. PICK f \in [0 .. Len(ss) -> Seq(S)] : Strings(f, ss)
    BY StringsExist
  <1> QED  BY <1>1, FlattenStrings

\* What is strung together of two sequences of sequences is that of the first and that
\* of the second.
LEMMA FlattenConcat ==
    ASSUME NEW S, NEW a \in Seq(Seq(S)), NEW b \in Seq(Seq(S))
    PROVE  FlattenSeq(a \o b) = FlattenSeq(a) \o FlattenSeq(b)
  <1> DEFINE m == Len(a)
             n == Len(b)
  <1>0. m \in Nat /\ n \in Nat
    OBVIOUS
  <1>1. PICK f \in [0 .. m -> Seq(S)] : Strings(f, a)
    BY StringsExist
  <1>2. PICK h \in [0 .. n -> Seq(S)] : Strings(h, b)
    BY StringsExist
  <1>3. a \o b \in Seq(Seq(S)) /\ Len(a \o b) = m + n
        /\ \A i \in 1 .. m + n : (a \o b)[i] = IF i <= m THEN a[i] ELSE b[i - m]
    BY ConcatProperties
  <1>4. f[0] = << >> /\ \A i \in 1 .. m : f[i] = f[i - 1] \o a[i]
    BY <1>1 DEF Strings
  <1>5. h[0] = << >> /\ \A j \in 1 .. n : h[j] = h[j - 1] \o b[j] /\ b[j] \in Seq(S)
    <2>1. \A j \in 1 .. n : b[j] \in Seq(S)
      OBVIOUS
    <2> QED  BY <1>2, <2>1, Zenon DEF Strings
  <1> DEFINE left == f[m]
             k == [i \in 0 .. m + n |-> IF i <= m THEN f[i] ELSE left \o h[i - m]]
  <1>6. FlattenSeq(a) = left /\ FlattenSeq(b) = h[n]
    BY <1>1, <1>2, FlattenStrings
  <1> HIDE DEF m, n
  <1>7. left \in Seq(S) /\ (\A j \in 0 .. n : h[j] \in Seq(S)) /\ left \o << >> = left
    <2>1. left \in Seq(S) /\ (\A j \in 0 .. n : h[j] \in Seq(S))
      BY <1>0
    <2> QED  BY <2>1, ConcatEmptySeq
  <1>8. \A i \in 0 .. m + n : k[i] = IF i <= m THEN f[i] ELSE left \o h[i - m]
    <2> HIDE DEF left
    <2> QED  BY Zenon
  <1>9. \A i \in 0 .. m : i \in 0 .. m + n /\ i <= m
    BY <1>0
  <1>10. \A i \in 0 .. m : k[i] = f[i]
    <2> HIDE DEF left, k
    <2> QED  BY <1>8, <1>9, Zenon
  <1>11. \A i \in m .. m + n : k[i] = left \o h[i - m]
    <2>1. k[m] = left
      <3>1. m \in 0 .. m
        BY <1>0
      <3> HIDE DEF k
      <3> QED  BY <1>10, <3>1
    <2> HIDE DEF k, left
    <2>2. ASSUME NEW i \in m .. m + n PROVE k[i] = left \o h[i - m]
      <3>1. CASE i = m
        <4>1. i - m = 0
          BY <1>0, <3>1
        <4> QED  BY <1>5, <1>7, <2>1, <3>1, <4>1, Zenon
      <3>2. CASE i # m
        <4>1. i \in 0 .. m + n /\ ~(i <= m)
          BY <1>0, <3>2
        <4> QED  BY <1>8, <4>1, Zenon
      <3> QED  BY <3>1, <3>2
    <2> QED  BY <2>2
  <1> HIDE DEF k, left
  <1>12. \A t, u \in Seq(S) : (left \o t) \o u = left \o (t \o u)
    <2>1. ASSUME NEW t \in Seq(S), NEW u \in Seq(S) PROVE (left \o t) \o u = left \o (t \o u)
      <3>1. left \in Seq(S)
        BY <1>7
      <3> QED  BY <3>1, ConcatAssociative, SMTT(30)
    <2> QED  BY <2>1
  <1>13. ASSUME NEW i \in 1 .. m + n PROVE k[i] = k[i - 1] \o (a \o b)[i]
    <2>1. CASE i <= m
      <3>1. i \in 0 .. m /\ i - 1 \in 0 .. m /\ i \in 1 .. m /\ (a \o b)[i] = a[i]
        BY <1>0, <1>3, <2>1
      <3> QED  BY <1>4, <1>10, <3>1, Zenon
    <2>2. CASE ~(i <= m)
      <3> DEFINE j == i - m
      <3>1. /\ i \in m .. m + n /\ i - 1 \in m .. m + n /\ j \in 1 .. n /\ j - 1 \in 0 .. n
            /\ i - 1 - m = j - 1
        BY <1>0, <2>2
      <3>2. k[i] = left \o h[j] /\ k[i - 1] = left \o h[i - 1 - m] /\ (a \o b)[i] = b[j]
        BY <1>3, <1>11, <2>2, <3>1, Zenon
      <3> HIDE DEF j
      <3>3. k[i - 1] = left \o h[j - 1] /\ h[j - 1] \in Seq(S) /\ b[j] \in Seq(S) /\ h[j] = h[j - 1] \o b[j]
        BY <1>5, <1>7, <3>1, <3>2
      <3>4. (left \o h[j - 1]) \o b[j] = left \o (h[j - 1] \o b[j])
        BY <1>12, <3>3, Zenon
      <3> QED  BY <3>2, <3>3, <3>4, Zenon
    <2> QED  BY <2>1, <2>2
  <1>14. Strings(k, a \o b)
    <2>1. k[0] = << >>
      <3>1. 0 \in 0 .. m
        BY <1>0
      <3> QED  BY <1>4, <1>10, <3>1, Zenon
    <2> QED  BY <1>3, <1>13, <2>1 DEF Strings
  <1>15. FlattenSeq(a \o b) = k[m + n]
    BY <1>3, <1>14, FlattenStrings
  <1>16. ASSUME NEW i \in m .. m + n, i - m = n PROVE k[i] = left \o h[n]
    BY <1>11, <1>16, Zenon
  <1>17. PICK i \in m .. m + n : i = m + n /\ i - m = n
    BY <1>0
  <1>18. k[i] = left \o h[n]
    BY <1>16, <1>17, Zenon
  <1>19. FlattenSeq(a \o b) = k[i]
    BY <1>15, <1>17
  <1> QED  BY <1>6, <1>18, <1>19, Zenon

\* Nothing is strung together of nothing, and a sequence of itself.
LEMMA FlattenNothing ==
    ASSUME NEW S, NEW ss \in Seq(Seq(S)), \A i \in 1 .. Len(ss) : ss[i] = << >>
    PROVE  FlattenSeq(ss) = << >>
  <1> DEFINE f == [i \in 0 .. Len(ss) |-> << >>]
  <1>1. << >> \o << >> = << >>
    BY EmptySeq, ConcatEmptySeq
  <1>2. Strings(f, ss)
    <2>1. Len(ss) \in Nat
      OBVIOUS
    <2>2. \A i \in 0 .. Len(ss) : f[i] = << >>
      OBVIOUS
    <2>3. 0 \in 0 .. Len(ss) /\ \A i \in 1 .. Len(ss) : i \in 0 .. Len(ss) /\ i - 1 \in 0 .. Len(ss)
      BY <2>1
    <2> HIDE DEF f
    <2> QED  BY <1>1, <2>2, <2>3, Zenon DEF Strings
  <1>3. f[Len(ss)] = << >>
    OBVIOUS
  <1> HIDE DEF f
  <1> QED  BY <1>2, <1>3, FlattenStrings

LEMMA FlattenOne ==
    ASSUME NEW S, NEW t \in Seq(S)
    PROVE  FlattenSeq(<<t>>) = t
  <1> DEFINE f == [i \in 0 .. 1 |-> IF i = 0 THEN << >> ELSE t]
  <1>1. <<t>> \in Seq(Seq(S)) /\ Len(<<t>>) = 1 /\ <<t>>[1] = t /\ << >> \o t = t
    BY ConcatEmptySeq
  <1>2. Strings(f, <<t>>) /\ f[1] = t
    BY <1>1 DEF Strings
  <1> HIDE DEF f
  <1> QED  BY <1>1, <1>2, FlattenStrings

=============================================================================
