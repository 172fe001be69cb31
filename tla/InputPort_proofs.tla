-------------------------- MODULE InputPort_proofs --------------------------
(***************************************************************************)
(* For any input, chunks of any size cut anywhere, and any number of       *)
(* Ctrl+C: no digit and no sign is lost, and the program reads the numbers *)
(* that were typed.                                                        *)
(***************************************************************************)
EXTENDS InputPort, SequenceFacts

\* The types: what was taken, is being scanned, is buffered and is pending are
\* characters, no more of them than were typed, and the words pushed are words.
Unread == intstr \o input_buffer \o pending
Modes == {"idle", "scan", "chunk", "blocked", "got", "convert"}
PortInv == /\ input \in Inputs
           /\ closed \in BOOLEAN
           /\ mode \in Modes
           /\ interrupted \in BOOLEAN
           /\ interrupts \in 0 .. MaxInterrupts
           /\ taken \in Seq(Chars) /\ intstr \in Seq(Chars)
           /\ input_buffer \in Seq(Chars) /\ pending \in Seq(Chars)
           /\ Len(taken) + Len(intstr) + Len(input_buffer) + Len(pending) <= Len(input)
           /\ values \in Seq(WordMin .. WordMax)

\* What is being scanned is the beginning of a number; it is converted where something
\* follows it that does not belong to it.
IsNumber(s) == s # << >> /\ isSignedDigit(s[1]) /\ \A i \in 2 .. Len(s) : isdigit(s[i])
NumberInv == /\ intstr # << >> => IsNumber(intstr)
             /\ ~Glued(Unread)
             /\ mode = "convert" => /\ intstr # << >>
                                    /\ input_buffer # << >> /\ ~isdigit(input_buffer[1])

-----------------------------------------------------------------------------
(* Sequences of characters.                                                *)

LEMMA Least ==
    ASSUME NEW T \in SUBSET Nat, T # {}
    PROVE  Min(T) \in T /\ \A k \in T : Min(T) <= k
  BY LeastNumber DEF Min

LEMMA Texts ==
    ASSUME NEW s \in Seq(Chars)
    PROVE  /\ Len(s) \in Nat
           /\ \A i \in 1 .. Len(s) : s[i] \in Chars
           /\ s \o << >> = s /\ << >> \o s = s
           /\ s = << >> <=> Len(s) = 0
  BY ConcatEmptySeq, EmptySeq

LEMMA Joined ==
    ASSUME NEW s \in Seq(Chars), NEW t \in Seq(Chars)
    PROVE  /\ s \o t \in Seq(Chars)
           /\ Len(s \o t) = Len(s) + Len(t)
           /\ \A i \in 1 .. Len(s) : (s \o t)[i] = s[i]
           /\ \A i \in 1 .. Len(t) : (s \o t)[Len(s) + i] = t[i]
  <1>1. s \o t \in Seq(Chars) /\ Len(s \o t) = Len(s) + Len(t)
    BY ConcatProperties
  <1>2. Len(s) \in Nat /\ Len(t) \in Nat
    OBVIOUS
  <1>3. \A i \in 1 .. Len(s) + Len(t) : (s \o t)[i] = IF i <= Len(s) THEN s[i] ELSE t[i - Len(s)]
    BY ConcatProperties
  <1>4. ASSUME NEW i \in 1 .. Len(t) PROVE (s \o t)[Len(s) + i] = t[i]
    <2>1. PICK j \in 1 .. Len(s) + Len(t) : j = Len(s) + i /\ ~(j <= Len(s)) /\ j - Len(s) = i
      BY <1>2
    <2>2. (s \o t)[j] = t[j - Len(s)]
      BY <1>3, <2>1
    <2> QED  BY <2>1, <2>2
  <1>5. \A i \in 1 .. Len(s) : (s \o t)[i] = s[i]
    BY <1>2, <1>3
  <1> QED  BY <1>1, <1>4, <1>5

LEMMA Appended ==
    ASSUME NEW S, NEW a \in Seq(S), NEW b \in Seq(S), NEW m, Len(a) = m, NEW n, Len(b) = n
    PROVE  /\ a \o b \in Seq(S) /\ Len(a \o b) = m + n
           /\ \A i \in 1 .. m + n : (a \o b)[i] = IF i <= m THEN a[i] ELSE b[i - m]
  BY ConcatProperties

LEMMA Regroup ==
    ASSUME NEW s \in Seq(Chars), NEW t \in Seq(Chars), NEW u \in Seq(Chars)
    PROVE  (s \o t) \o u = s \o (t \o u)
  BY ConcatAssociative

\* Where the scanner cuts the buffer: what comes before the number separates, and what
\* comes after it, if anything does, does not belong to it.
Seps == SubSeq(input_buffer, 1, Start - 1)
Number == SubSeq(input_buffer, Start, End - 1)
After == SubSeq(input_buffer, End, Len(input_buffer))

LEMMA StartsAndEnds ==
    ASSUME input_buffer \in Seq(Chars)
    PROVE  /\ Start \in 1 .. Len(input_buffer) + 1
           /\ \A i \in 1 .. Start - 1 : ~isSignedDigit(input_buffer[i])
           /\ Start <= Len(input_buffer) => isSignedDigit(input_buffer[Start]) /\ Start < End
           /\ Start > Len(input_buffer) => End = Len(input_buffer) + 1
           /\ End \in 1 .. Len(input_buffer) + 1
           /\ \A i \in Start + 1 .. End - 1 : isdigit(input_buffer[i])
           /\ End <= Len(input_buffer) => ~isdigit(input_buffer[End])
  <1> DEFINE n == Len(input_buffer)
             S == {i \in 1 .. n : isSignedDigit(input_buffer[i])} \cup {n + 1}
             E == {i \in Start + 1 .. n : ~isdigit(input_buffer[i])} \cup {n + 1}
  <1>0. n \in Nat
    OBVIOUS
  <1> HIDE DEF n
  <1>1. Start \in S /\ \A k \in S : Start <= k
    <2>1. S \in SUBSET Nat /\ S # {} /\ Start = Min(S)
      BY <1>0 DEF Start, n
    <2> HIDE DEF S
    <2> QED  BY <2>1, Least
  <1>2. Start \in 1 .. n + 1
    BY <1>0, <1>1
  <1> HIDE DEF S
  <1>3. End \in E /\ \A k \in E : End <= k
    <2>1. E \in SUBSET Nat /\ E # {} /\ End = Min(E)
      BY <1>0, <1>2 DEF End, n
    <2> HIDE DEF E
    <2> QED  BY <2>1, Least
  <1>4. \A i \in 1 .. Start - 1 : ~isSignedDigit(input_buffer[i])
    BY <1>0, <1>1, <1>2 DEF S
  <1>5. Start <= n => isSignedDigit(input_buffer[Start])
    BY <1>0, <1>1, <1>2 DEF S
  <1>6. End \in 1 .. n + 1 /\ (Start <= n => Start < End) /\ (Start > n => End = n + 1)
    BY <1>0, <1>2, <1>3
  <1>7. End <= n => ~isdigit(input_buffer[End])
    BY <1>0, <1>2, <1>3
  <1>8. \A i \in Start + 1 .. End - 1 : isdigit(input_buffer[i])
    BY <1>0, <1>2, <1>3, <1>6
  <1> QED  BY <1>2, <1>4, <1>5, <1>6, <1>7, <1>8 DEF n

LEMMA Cut ==
    ASSUME input_buffer \in Seq(Chars)
    PROVE  /\ Seps \in Seq(Chars) /\ Number \in Seq(Chars) /\ After \in Seq(Chars)
           /\ input_buffer = Seps \o (Number \o After)
           /\ Len(Number) + Len(After) <= Len(input_buffer)
           /\ \A i \in 1 .. Len(Seps) : ~isSignedDigit(Seps[i])
           /\ Number # << >> => IsNumber(Number)
           /\ Number = << >> => After = << >>
           /\ After # << >> => ~isdigit(After[1])
           /\ End <= Len(input_buffer) <=> After # << >>
           /\ Start = 1 <=> Seps = << >>
  <1> DEFINE n == Len(input_buffer)
  <1>0. n \in Nat /\ \A i \in 1 .. n : input_buffer[i] \in Chars
    OBVIOUS
  <1>1. /\ Start \in 1 .. n + 1 /\ End \in 1 .. n + 1 /\ Start <= End
        /\ \A i \in 1 .. Start - 1 : ~isSignedDigit(input_buffer[i])
        /\ Start <= n => isSignedDigit(input_buffer[Start]) /\ Start < End
        /\ Start > n => End = n + 1
        /\ \A i \in Start + 1 .. End - 1 : isdigit(input_buffer[i])
        /\ End <= n => ~isdigit(input_buffer[End])
    BY <1>0, StartsAndEnds
  <1>2. /\ Seps \in Seq(Chars) /\ Len(Seps) = Start - 1
        /\ \A i \in 1 .. Start - 1 : Seps[i] = input_buffer[i]
    BY <1>0, <1>1 DEF Seps
  <1>3. /\ Number \in Seq(Chars) /\ Len(Number) = End - Start
        /\ \A i \in 1 .. End - Start : Number[i] = input_buffer[Start + i - 1]
    BY <1>0, <1>1 DEF Number
  <1>4. /\ After \in Seq(Chars) /\ Len(After) = n + 1 - End
        /\ \A i \in 1 .. n + 1 - End : After[i] = input_buffer[End + i - 1]
    BY <1>0, <1>1 DEF After
  <1>5. input_buffer = Seps \o (Number \o After)
    <2>1. Number \o After = SubSeq(input_buffer, Start, n)
      <3>1. PICK k \in Start - 1 .. n : k = End - 1 /\ k + 1 = End /\ n \in k .. n
        BY <1>0, <1>1
      <3>2. SubSeq(input_buffer, Start, k) \o SubSeq(input_buffer, k + 1, n) = SubSeq(input_buffer, Start, n)
        BY <1>0, <1>1, <3>1, ConcatAdjacentSubSeq
      <3> QED  BY <3>1, <3>2 DEF Number, After
    <2>2. Seps \o SubSeq(input_buffer, Start, n) = SubSeq(input_buffer, 1, n)
      <3>1. PICK k \in 1 - 1 .. n : k = Start - 1 /\ k + 1 = Start /\ n \in k .. n /\ 1 \in 1 .. n + 1
        BY <1>0, <1>1
      <3>2. SubSeq(input_buffer, 1, k) \o SubSeq(input_buffer, k + 1, n) = SubSeq(input_buffer, 1, n)
        BY <1>0, <1>1, <3>1, ConcatAdjacentSubSeq
      <3> QED  BY <3>1, <3>2 DEF Seps
    <2>3. SubSeq(input_buffer, 1, n) = input_buffer
      BY SubSeqFull
    <2> QED  BY <2>1, <2>2, <2>3
  <1> HIDE DEF n
  <1>6. \A i \in 1 .. Len(Seps) : ~isSignedDigit(Seps[i])
    BY <1>1, <1>2
  <1>7. Number # << >> => IsNumber(Number)
    <2> SUFFICES ASSUME Number # << >> PROVE IsNumber(Number)
      OBVIOUS
    <2>1. Start <= n
      BY <1>0, <1>1, <1>3, EmptySeq
    <2>2. Number[1] = input_buffer[Start]
      BY <1>0, <1>1, <1>3, <2>1
    <2>3. ASSUME NEW i \in 2 .. Len(Number) PROVE isdigit(Number[i])
      <3>1. Number[i] = input_buffer[Start + i - 1] /\ Start + i - 1 \in Start + 1 .. End - 1
        BY <1>0, <1>1, <1>3
      <3> QED  BY <1>1, <3>1
    <2> QED  BY <1>1, <2>1, <2>2, <2>3 DEF IsNumber
  <1>8. Number = << >> => After = << >>
    BY <1>0, <1>1, <1>3, <1>4, EmptySeq
  <1>9. After # << >> <=> End <= n
    BY <1>0, <1>1, <1>4, EmptySeq
  <1>10. After # << >> => ~isdigit(After[1])
    <2>1. After # << >> => After[1] = input_buffer[End]
      BY <1>0, <1>1, <1>4, <1>9
    <2> QED  BY <1>1, <1>9, <2>1
  <1>11. Start = 1 <=> Seps = << >>
    BY <1>1, <1>2, EmptySeq
  <1>12. Len(Number) + Len(After) <= n
    BY <1>0, <1>1, <1>3, <1>4
  <1> QED  BY <1>2, <1>3, <1>4, <1>5, <1>6, <1>7, <1>8, <1>9, <1>10, <1>11, <1>12 DEF n

-----------------------------------------------------------------------------
(* SignedDigits and Numbers of texts put together.                         *)

OneSigned(c) == IF isSignedDigit(c) THEN <<c>> ELSE << >>
Signed(s) == [i \in 1 .. Len(s) |-> OneSigned(s[i])]

LEMMA SignedType ==
    ASSUME NEW s \in Seq(Chars)
    PROVE  /\ Signed(s) \in Seq(Seq(Chars)) /\ Len(Signed(s)) = Len(s)
           /\ \A i \in 1 .. Len(s) : Signed(s)[i] = OneSigned(s[i])
           /\ SignedDigits(s) = FlattenSeq(Signed(s))
           /\ SignedDigits(s) \in Seq(Chars)
  <1>1. Len(s) \in Nat /\ \A i \in 1 .. Len(s) : OneSigned(s[i]) \in Seq(Chars)
    BY EmptySeq DEF OneSigned
  <1>2. Signed(s) \in Seq(Seq(Chars)) /\ Len(Signed(s)) = Len(s)
    BY <1>1 DEF Signed
  <1>3. SignedDigits(s) = FlattenSeq(Signed(s))
    BY DEF SignedDigits, Signed, OneSigned
  <1>4. SignedDigits(s) \in Seq(Chars)
    BY <1>2, <1>3, FlattenType
  <1>5. \A i \in 1 .. Len(s) : Signed(s)[i] = OneSigned(s[i])
    BY DEF Signed
  <1> QED  BY <1>2, <1>3, <1>4, <1>5

LEMMA SignedConcat ==
    ASSUME NEW s \in Seq(Chars), NEW t \in Seq(Chars)
    PROVE  SignedDigits(s \o t) = SignedDigits(s) \o SignedDigits(t)
  <1>0. /\ Len(s) \in Nat /\ Len(t) \in Nat
        /\ s \o t \in Seq(Chars) /\ Len(s \o t) = Len(s) + Len(t)
        /\ \A i \in 1 .. Len(s) + Len(t) : (s \o t)[i] = IF i <= Len(s) THEN s[i] ELSE t[i - Len(s)]
    BY ConcatProperties
  <1>1. /\ Signed(s) \in Seq(Seq(Chars)) /\ Len(Signed(s)) = Len(s)
        /\ Signed(t) \in Seq(Seq(Chars)) /\ Len(Signed(t)) = Len(t)
        /\ Signed(s \o t) \in Seq(Seq(Chars)) /\ Len(Signed(s \o t)) = Len(s) + Len(t)
    BY <1>0, SignedType
  <1>2. /\ Signed(s) \o Signed(t) \in Seq(Seq(Chars))
        /\ Len(Signed(s) \o Signed(t)) = Len(s) + Len(t)
        /\ \A i \in 1 .. Len(s) + Len(t) :
              (Signed(s) \o Signed(t))[i] = IF i <= Len(s) THEN Signed(s)[i] ELSE Signed(t)[i - Len(s)]
    BY <1>1, Appended
  <1>3. ASSUME NEW i \in 1 .. Len(s) + Len(t)
        PROVE  Signed(s \o t)[i] = (Signed(s) \o Signed(t))[i]
    <2>1. Signed(s \o t)[i] = OneSigned((s \o t)[i])
      BY <1>0, SignedType
    <2>2. CASE i <= Len(s)
      <3>1. i \in 1 .. Len(s)
        BY <1>0, <2>2
      <3> QED  BY <1>0, <1>2, <2>1, <2>2, <3>1, SignedType
    <2>3. CASE ~(i <= Len(s))
      <3>1. i - Len(s) \in 1 .. Len(t)
        BY <1>0, <2>3
      <3> QED  BY <1>0, <1>2, <2>1, <2>3, <3>1, SignedType
    <2> QED  BY <2>2, <2>3
  <1>4. Signed(s \o t) = Signed(s) \o Signed(t)
    BY <1>1, <1>2, <1>3, SeqEqual
  <1>5. FlattenSeq(Signed(s) \o Signed(t)) = FlattenSeq(Signed(s)) \o FlattenSeq(Signed(t))
    BY <1>1, FlattenConcat
  <1> QED  BY <1>0, <1>4, <1>5, SignedType

LEMMA SignedNothing ==
    ASSUME NEW s \in Seq(Chars), \A i \in 1 .. Len(s) : ~isSignedDigit(s[i])
    PROVE  SignedDigits(s) = << >>
  <1>1. \A i \in 1 .. Len(s) : Signed(s)[i] = << >>
    BY SignedType DEF OneSigned
  <1>2. Signed(s) \in Seq(Seq(Chars)) /\ Len(Signed(s)) = Len(s)
    BY SignedType
  <1>3. FlattenSeq(Signed(s)) = << >>
    BY <1>1, <1>2, FlattenNothing
  <1> QED  BY <1>3, SignedType

\* What strtol makes of characters is a number.
LEMMA ValueType ==
    ASSUME NEW s \in Seq(Chars), s # << >>
    PROVE  Value(s) \in Int
  <1> DEFINE u == Unsigned(s)
             n == Len(u)
             base == Base(u)
             Defines(h) == h = [i \in 0 .. n |-> IF i = 0 THEN 0 ELSE h[i - 1] * base + u[i]]
             number == CHOOSE h : Defines(h)
             g == [p \in (1 .. n) \X Int |-> p[2] * base + u[p[1]]]
  <1>1. u \in Seq(Chars)
    BY DEF Unsigned
  <1>2. n \in Nat /\ base \in {8, 10} /\ \A i \in 1 .. n : u[i] \in Int
    <2> HIDE DEF u
    <2>1. \A c \in Chars : c \in Int
      BY DEF Chars, Digits, Minus, Sep
    <2> QED  BY <1>1, <2>1 DEF Base
  <1> HIDE DEF u, n, base
  <1>3. \A a \in Int, i \in 1 .. n : a * base + u[i] \in Int
    BY <1>2
  <1>4. g \in [(1 .. n) \X Int -> Int] /\ \A a \in Int, i \in 1 .. n : g[<<i, a>>] = a * base + u[i]
    BY <1>3
  <1> HIDE DEF g
  <1>5. PICK f \in [0 .. n -> Int] : Iterates(f, n, 0, g)
    <2>1. n \in Nat
      BY <1>2
    <2>2. 0 \in Int
      OBVIOUS
    <2>3. g \in [(1 .. n) \X Int -> Int]
      BY <1>4
    <2> QED  BY <2>1, <2>2, <2>3, IterationExists
  <1>6. f[0] = 0 /\ \A i \in 1 .. n : f[i] = f[i - 1] * base + u[i]
    <2>1. \A i \in 1 .. n : f[i - 1] \in Int
      BY <1>2
    <2> QED  BY <1>4, <1>5, <2>1 DEF Iterates
  <1>7. Defines(f)
    <2>1. \A i \in 0 .. n : f[i] = IF i = 0 THEN 0 ELSE f[i - 1] * base + u[i]
      BY <1>2, <1>6
    <2>2. f = [i \in 0 .. n |-> f[i]]
      OBVIOUS
    <2> QED  BY <2>1, <2>2, Zenon
  <1>8. Defines(number)
    <2> HIDE DEF Defines
    <2> QED  BY <1>7
  <1>9. \A i \in 0 .. n : number[i] = IF i = 0 THEN 0 ELSE number[i - 1] * base + u[i]
    <2> HIDE DEF number
    <2> QED  BY <1>8, Zenon
  <1> HIDE DEF number, Defines
  <1>10. \A i \in 0 .. n : number[i] \in Int
    <2> DEFINE T == {i \in 0 .. n : number[i] \in Int}
    <2>1. 0 \in T
      BY <1>2, <1>9
    <2>2. ASSUME NEW m \in 1 .. n, m - 1 \in T PROVE m \in T
      <3>1. m \in 0 .. n /\ m # 0
        BY <1>2
      <3>2. number[m] = number[m - 1] * base + u[m]
        BY <1>9, <3>1, Zenon
      <3>3. number[m - 1] \in Int
        BY <2>2
      <3>4. number[m] \in Int
        BY <1>3, <3>2, <3>3, Zenon
      <3> QED  BY <3>1, <3>4
    <2>3. T = 0 .. n
      <3>1. T \in SUBSET (0 .. n)
        OBVIOUS
      <3> HIDE DEF T
      <3> QED  BY <1>2, <2>1, <2>2, <3>1, UpTo
    <2> QED  BY <2>3
  <1>11. n \in 0 .. n
    BY <1>2
  <1>12. Value(s) = IF s[1] = Minus THEN -number[n] ELSE number[n]
    BY DEF Value, number, Defines, base, n, u
  <1> QED  BY <1>10, <1>11, <1>12

-----------------------------------------------------------------------------
(* Where numbers begin and end.                                            *)

Last1(s, i) == Min({j \in i .. Len(s) : j = Len(s) \/ ~isdigit(s[j + 1])})
EndsAt(s, i, j) == /\ j \in i .. Len(s)
                   /\ j = Len(s) \/ ~isdigit(s[j + 1])
                   /\ \A k \in i .. j - 1 : isdigit(s[k + 1])

LEMMA LastEnds ==
    ASSUME NEW s \in Seq(Chars), NEW i \in 1 .. Len(s)
    PROVE  EndsAt(s, i, Last1(s, i)) /\ \A j : EndsAt(s, i, j) => j = Last1(s, i)
  <1> DEFINE n == Len(s)
             T == {j \in i .. n : j = n \/ ~isdigit(s[j + 1])}
  <1>0. n \in Nat /\ i \in 1 .. n
    OBVIOUS
  <1> HIDE DEF n
  <1>1. T \in SUBSET Nat /\ n \in T
    BY <1>0
  <1>2. Last1(s, i) = Min(T)
    BY DEF Last1, n
  <1>3. Last1(s, i) \in T /\ \A k \in T : Last1(s, i) <= k
    <2> HIDE DEF T
    <2> QED  BY <1>1, <1>2, Least
  <1>4. EndsAt(s, i, Last1(s, i))
    <2>1. ASSUME NEW k \in i .. Last1(s, i) - 1 PROVE isdigit(s[k + 1])
      <3>1. k \in i .. n /\ k # n /\ k \notin T
        BY <1>0, <1>3
      <3> QED  BY <3>1
    <2> QED  BY <1>3, <2>1 DEF EndsAt, n
  <1>5. ASSUME NEW j, EndsAt(s, i, j) PROVE j = Last1(s, i)
    <2>1. j \in T
      BY <1>5 DEF EndsAt, n
    <2>2. \A k \in T : k >= j
      <3> SUFFICES ASSUME NEW k \in T, k < j PROVE FALSE
        BY <1>0, <2>1
      <3>1. k \in i .. j - 1 /\ k # n
        BY <1>0, <2>1
      <3> QED  BY <1>5, <3>1 DEF EndsAt
    <2>3. j \in Nat /\ Last1(s, i) \in Nat
      BY <1>1, <1>3, <2>1
    <2> HIDE DEF T
    <2>4. j <= Last1(s, i) /\ Last1(s, i) <= j
      BY <1>3, <2>1, <2>2, <2>3
    <2> QED  BY <2>3, <2>4
  <1> QED  BY <1>4, <1>5

LEMMA TextType ==
    ASSUME NEW s \in Seq(Chars), NEW i \in 1 .. Len(s)
    PROVE  /\ TextAt(s, i) = SubSeq(s, i, Last1(s, i))
           /\ TextAt(s, i) \in Seq(Chars) /\ TextAt(s, i) # << >>
           /\ NumberAt(s, i) \in Seq(Int)
  <1>1. TextAt(s, i) = SubSeq(s, i, Last1(s, i))
    BY DEF TextAt, Last1
  <1>2. Len(s) \in Nat /\ Last1(s, i) \in i .. Len(s)
    BY LastEnds DEF EndsAt
  <1>3. TextAt(s, i) \in Seq(Chars) /\ Len(TextAt(s, i)) # 0
    BY <1>1, <1>2
  <1>4. TextAt(s, i) # << >>
    BY <1>3, EmptySeq
  <1>5. Value(TextAt(s, i)) \in Int
    BY <1>3, <1>4, ValueType
  <1> QED  BY <1>1, <1>3, <1>4, <1>5, EmptySeq DEF NumberAt

\* The numbers at their places.
Items(s) == [i \in 1 .. Len(s) |-> NumberAt(s, i)]

LEMMA ItemsType ==
    ASSUME NEW s \in Seq(Chars)
    PROVE  /\ Items(s) \in Seq(Seq(Int)) /\ Len(Items(s)) = Len(s)
           /\ \A i \in 1 .. Len(s) : Items(s)[i] = NumberAt(s, i)
           /\ Numbers(s) = FlattenSeq(Items(s))
           /\ Numbers(s) \in Seq(Int)
  <1>1. Len(s) \in Nat /\ \A i \in 1 .. Len(s) : NumberAt(s, i) \in Seq(Int)
    BY TextType
  <1>2. Items(s) \in Seq(Seq(Int)) /\ Len(Items(s)) = Len(s)
    BY <1>1 DEF Items
  <1>3. Numbers(s) = FlattenSeq(Items(s))
    BY DEF Numbers, Items
  <1>4. Numbers(s) \in Seq(Int)
    BY <1>2, <1>3, FlattenType
  <1>5. \A i \in 1 .. Len(s) : Items(s)[i] = NumberAt(s, i)
    BY DEF Items
  <1> QED  BY <1>2, <1>3, <1>4, <1>5

\* A number that begins in the second of two texts is the same in both together, unless a
\* digit there goes on with a number of the first.
Parted(u, v) == \/ u = << >> \/ v = << >>
                \/ ~isSignedDigit(u[Len(u)])
                \/ ~isdigit(v[1])

LEMMA NumberInSecond ==
    ASSUME NEW u \in Seq(Chars), NEW v \in Seq(Chars), Parted(u, v), NEW i \in 1 .. Len(v)
    PROVE  NumberAt(u \o v, Len(u) + i) = NumberAt(v, i)
  <1> DEFINE w == u \o v
             m == Len(u)
             n == Len(v)
             last == Last1(v, i)
  <1>0. m \in Nat /\ n \in Nat
    OBVIOUS
  <1>1. w \in Seq(Chars) /\ Len(w) = m + n
    BY Joined
  <1>2. \A j \in 1 .. n : w[m + j] = v[j]
    BY Joined
  <1>3. \A j \in 1 .. m : w[j] = u[j]
    BY Joined
  <1>4. EndsAt(v, i, last)
    BY LastEnds
  <1>5. last \in i .. n /\ i \in 1 .. n
    BY <1>4 DEF EndsAt
  <1>6. TextAt(v, i) = SubSeq(v, i, last)
    BY TextType
  <1>7. \A a, b \in m + 1 .. m + n : SubSeq(w, a, b) = SubSeq(v, a - m, b - m)
    BY SubSeqOfConcat2
  <1> HIDE DEF w, m, n, last
  <1>8. PICK p, q \in 1 .. m + n : p = m + i /\ q = m + last /\ q \in p .. m + n
    BY <1>0, <1>5
  <1>9. p \in 1 .. Len(w) /\ q \in p .. Len(w)
    BY <1>0, <1>1, <1>8
  <1>10. Last1(w, p) = q
    <2>1. q = Len(w) \/ ~isdigit(w[q + 1])
      <3>1. CASE last = n
        BY <1>1, <1>8, <3>1
      <3>2. CASE last # n
        <4>1. PICK j \in 1 .. n : j = last + 1 /\ q + 1 = m + j
          BY <1>0, <1>5, <1>8, <3>2
        <4>2. ~isdigit(v[j])
          BY <1>4, <3>2, <4>1 DEF EndsAt, n
        <4>3. w[q + 1] = v[j]
          BY <1>2, <4>1
        <4> QED  BY <4>2, <4>3
      <3> QED  BY <3>1, <3>2
    <2>2. ASSUME NEW k \in p .. q - 1 PROVE isdigit(w[k + 1])
      <3>1. PICK j \in i .. last - 1 : k = m + j
        <4>1. k - m \in i .. last - 1 /\ k = m + (k - m)
          BY <1>0, <1>5, <1>8
        <4> QED  BY <4>1
      <3>2. PICK h \in 1 .. n : h = j + 1 /\ k + 1 = m + h
        BY <1>0, <1>5, <3>1
      <3>3. isdigit(v[h])
        BY <1>4, <3>1, <3>2 DEF EndsAt
      <3>4. w[k + 1] = v[h]
        BY <1>2, <3>2
      <3> QED  BY <3>3, <3>4
    <2>3. EndsAt(w, p, q)
      BY <1>9, <2>1, <2>2 DEF EndsAt
    <2> QED  BY <1>1, <1>9, <2>3, LastEnds
  <1>11. TextAt(w, p) = TextAt(v, i)
    <2>1. TextAt(w, p) = SubSeq(w, p, q)
      BY <1>1, <1>9, <1>10, TextType
    <2>2. p \in m + 1 .. m + n /\ q \in m + 1 .. m + n /\ p - m = i /\ q - m = last
      BY <1>0, <1>5, <1>8
    <2>3. SubSeq(w, p, q) = SubSeq(v, p - m, q - m)
      BY <1>7, <2>2
    <2> QED  BY <1>6, <2>1, <2>2, <2>3
  <1>12. w[p] = v[i]
    BY <1>2, <1>5, <1>8
  <1>13. Begins(w, p) <=> Begins(v, i)
    <2>1. CASE i = 1
      <3>1. CASE m = 0
        BY <1>0, <1>8, <1>12, <2>1, <3>1 DEF Begins
      <3>2. CASE m # 0
        <4>1. m \in 1 .. m /\ p - 1 = m /\ p # 1
          BY <1>0, <1>8, <2>1, <3>2
        <4>2. w[p - 1] = u[m]
          BY <1>3, <4>1
        <4>3. isdigit(v[1]) => ~isSignedDigit(u[m])
          BY <1>0, <1>5, <3>2, EmptySeq DEF Parted, m, n
        <4> QED  BY <1>12, <2>1, <4>1, <4>2, <4>3 DEF Begins
      <3> QED  BY <3>1, <3>2
    <2>2. CASE i # 1
      <3>1. PICK j \in 1 .. n : j = i - 1 /\ p - 1 = m + j /\ p # 1
        BY <1>0, <1>5, <1>8, <2>2
      <3>2. w[p - 1] = v[i - 1]
        BY <1>2, <3>1
      <3> QED  BY <1>12, <2>2, <3>1, <3>2, Zenon DEF Begins
    <2> QED  BY <2>1, <2>2
  <1>14. NumberAt(w, p) = NumberAt(v, i)
    BY <1>11, <1>13 DEF NumberAt
  <1> QED  BY <1>8, <1>14 DEF w, m

\* So the numbers of the two together are those at the places of the first, then those of
\* the second.
LEMMA NumbersOfBoth ==
    ASSUME NEW u \in Seq(Chars), NEW v \in Seq(Chars), Parted(u, v)
    PROVE  LET firsts == [i \in 1 .. Len(u) |-> NumberAt(u \o v, i)]
           IN  /\ firsts \in Seq(Seq(Int)) /\ Len(firsts) = Len(u)
               /\ Numbers(u \o v) = FlattenSeq(firsts) \o Numbers(v)
  <1> DEFINE w == u \o v
             m == Len(u)
             n == Len(v)
             firsts == [i \in 1 .. m |-> NumberAt(w, i)]
  <1>0. m \in Nat /\ n \in Nat /\ w \in Seq(Chars) /\ Len(w) = m + n
    BY Joined
  <1>1. Items(w) \in Seq(Seq(Int)) /\ Len(Items(w)) = m + n
        /\ \A i \in 1 .. m + n : Items(w)[i] = NumberAt(w, i)
    <2> HIDE DEF w, m, n
    <2> QED  BY <1>0, ItemsType
  <1>2. Items(v) \in Seq(Seq(Int)) /\ Len(Items(v)) = n
        /\ \A i \in 1 .. n : Items(v)[i] = NumberAt(v, i)
    BY ItemsType
  <1>3. firsts \in Seq(Seq(Int)) /\ Len(firsts) = m /\ \A i \in 1 .. m : firsts[i] = NumberAt(w, i)
    <2> HIDE DEF w, m, n
    <2>1. \A i \in 1 .. m : NumberAt(w, i) \in Seq(Int)
      BY <1>0, TextType
    <2> QED  BY <1>0, <2>1
  <1>4. \A i \in 1 .. n : NumberAt(w, m + i) = NumberAt(v, i)
    BY NumberInSecond
  <1> HIDE DEF w, m, n, firsts
  <1>5. firsts \o Items(v) \in Seq(Seq(Int)) /\ Len(firsts \o Items(v)) = m + n
        /\ \A i \in 1 .. m + n : (firsts \o Items(v))[i] = IF i <= m THEN firsts[i] ELSE Items(v)[i - m]
    <2> DEFINE b == Items(v)
    <2>1. b \in Seq(Seq(Int)) /\ Len(b) = n
      BY <1>2
    <2> HIDE DEF b
    <2>2. firsts \in Seq(Seq(Int)) /\ Len(firsts) = m
      BY <1>3
    <2>3. firsts \o b \in Seq(Seq(Int)) /\ Len(firsts \o b) = m + n
          /\ \A i \in 1 .. m + n : (firsts \o b)[i] = IF i <= m THEN firsts[i] ELSE b[i - m]
      BY <2>1, <2>2, Appended
    <2> QED  BY <2>3 DEF b
  <1>6. ASSUME NEW i \in 1 .. m + n PROVE Items(w)[i] = (firsts \o Items(v))[i]
    <2>1. CASE i <= m
      <3>1. i \in 1 .. m
        BY <1>0, <2>1
      <3> QED  BY <1>1, <1>3, <1>5, <2>1, <3>1
    <2>2. CASE ~(i <= m)
      <3>1. PICK j \in 1 .. n : i = m + j /\ i - m = j
        <4>1. i - m \in 1 .. n /\ i = m + (i - m)
          BY <1>0, <2>2
        <4> QED  BY <4>1
      <3>2. (firsts \o Items(v))[i] = Items(v)[j]
        BY <1>5, <2>2, <3>1
      <3> QED  BY <1>1, <1>2, <1>4, <3>1, <3>2
    <2> QED  BY <2>1, <2>2
  <1>7. Items(w) = firsts \o Items(v)
    BY <1>1, <1>5, <1>6, SeqEqual
  <1>8. FlattenSeq(firsts \o Items(v)) = FlattenSeq(firsts) \o FlattenSeq(Items(v))
    BY <1>2, <1>3, FlattenConcat
  <1>9. Numbers(w) = FlattenSeq(firsts) \o Numbers(v)
    BY <1>0, <1>7, <1>8, ItemsType
  <1> QED  BY <1>3, <1>9 DEF w, m, firsts

\* Separators say nothing.
LEMMA NumbersAfterSeps ==
    ASSUME NEW u \in Seq(Chars), NEW v \in Seq(Chars), \A i \in 1 .. Len(u) : ~isSignedDigit(u[i])
    PROVE  Numbers(u \o v) = Numbers(v)
  <1> DEFINE firsts == [i \in 1 .. Len(u) |-> NumberAt(u \o v, i)]
  <1>0. Len(u) \in Nat /\ (u # << >> => Len(u) \in 1 .. Len(u))
    BY EmptySeq
  <1>1. Parted(u, v)
    BY <1>0 DEF Parted
  <1>2. firsts \in Seq(Seq(Int)) /\ Len(firsts) = Len(u) /\ Numbers(u \o v) = FlattenSeq(firsts) \o Numbers(v)
    BY <1>1, NumbersOfBoth
  <1>3. \A i \in 1 .. Len(u) : firsts[i] = << >>
    <2>1. \A i \in 1 .. Len(u) : ~Begins(u \o v, i)
      BY Joined DEF Begins
    <2> QED  BY <2>1 DEF NumberAt
  <1> HIDE DEF firsts
  <1>4. FlattenSeq(firsts) = << >>
    BY <1>2, <1>3, FlattenNothing
  <1> QED  BY <1>2, <1>4, ItemsType, ConcatEmptySeq

\* A number that ends where it does is one number.
LEMMA NumbersAfterNumber ==
    ASSUME NEW u \in Seq(Chars), NEW v \in Seq(Chars), IsNumber(u), v # << >>, ~isdigit(v[1])
    PROVE  Numbers(u \o v) = (IF Acceptable(u) THEN <<Value(u)>> ELSE << >>) \o Numbers(v)
  <1> DEFINE w == u \o v
             m == Len(u)
             firsts == [i \in 1 .. m |-> NumberAt(w, i)]
             one == IF Acceptable(u) THEN <<Value(u)>> ELSE << >>
             none == [i \in 1 .. m - 1 |-> << >>]
  <1>0. /\ m \in Nat \ {0} /\ Len(v) \in Nat \ {0} /\ w \in Seq(Chars) /\ Len(w) = m + Len(v)
        /\ \A i \in 1 .. m : w[i] = u[i]
    BY Joined, EmptySeq DEF IsNumber
  <1>1. w[m + 1] = v[1]
    BY <1>0, Joined
  <1>2. Parted(u, v)
    BY DEF Parted
  <1>3. firsts \in Seq(Seq(Int)) /\ Len(firsts) = m /\ Numbers(w) = FlattenSeq(firsts) \o Numbers(v)
    BY <1>2, NumbersOfBoth
  <1>4. SubSeq(w, 1, m) = u
    <2>1. SubSeq(w, 1, m) = SubSeq(u, 1, m)
      BY <1>0, SubSeqOfConcat1
    <2> QED  BY <2>1, SubSeqFull
  <1> HIDE DEF w
  <1>5. EndsAt(w, 1, m)
    <2>1. \A k \in 1 .. m - 1 : k + 1 \in 2 .. m /\ k + 1 \in 1 .. m
      BY <1>0
    <2>2. \A k \in 1 .. m - 1 : isdigit(w[k + 1])
      BY <1>0, <2>1 DEF IsNumber
    <2>3. m \in 1 .. Len(w)
      BY <1>0
    <2> QED  BY <1>1, <2>2, <2>3 DEF EndsAt
  <1>6. TextAt(w, 1) = u
    <2>1. 1 \in 1 .. Len(w)
      BY <1>0
    <2>2. Last1(w, 1) = m
      BY <1>0, <1>5, <2>1, LastEnds
    <2> QED  BY <1>0, <1>4, <2>1, <2>2, TextType
  <1>7. NumberAt(w, 1) = one
    <2>1. Begins(w, 1)
      BY <1>0 DEF Begins, IsNumber
    <2> QED  BY <1>6, <2>1 DEF NumberAt
  <1>8. ASSUME NEW i \in 2 .. m PROVE NumberAt(w, i) = << >>
    <2>1. i \in 1 .. m /\ i - 1 \in 1 .. m /\ i # 1 /\ (i - 1 = 1 \/ i - 1 \in 2 .. m)
      BY <1>0
    <2>2. isdigit(w[i]) /\ isSignedDigit(w[i - 1])
      BY <1>0, <2>1 DEF IsNumber, isSignedDigit
    <2>3. ~Begins(w, i)
      BY <2>1, <2>2 DEF Begins
    <2> QED  BY <2>3 DEF NumberAt
  <1>9. one \in Seq(Int)
    <2>1. Value(u) \in Int
      BY ValueType DEF IsNumber
    <2> QED  BY <2>1, EmptySeq
  <1> HIDE DEF one, m
  <1>10. /\ none \in Seq(Seq(Int)) /\ Len(none) = m - 1 /\ \A i \in 1 .. m - 1 : none[i] = << >>
         /\ <<one>> \in Seq(Seq(Int)) /\ Len(<<one>>) = 1 /\ <<one>>[1] = one
    BY <1>0, <1>9, EmptySeq
  <1>11. firsts = <<one>> \o none
    <2> DEFINE both == <<one>> \o none
    <2> HIDE DEF none
    <2>1. both \in Seq(Seq(Int)) /\ Len(both) = 1 + (m - 1)
          /\ \A i \in 1 .. 1 + (m - 1) : both[i] = IF i <= 1 THEN <<one>>[i] ELSE none[i - 1]
      BY <1>10, Appended
    <2>2. \A i \in 1 .. m : firsts[i] = NumberAt(w, i)
      OBVIOUS
    <2> HIDE DEF both, firsts
    <2>3. ASSUME NEW i \in 1 .. m PROVE firsts[i] = both[i]
      <3>1. CASE i = 1
        BY <1>0, <1>7, <1>10, <2>1, <2>2, <3>1
      <3>2. CASE i # 1
        <4>1. i \in 2 .. m /\ i - 1 \in 1 .. m - 1 /\ ~(i <= 1) /\ i \in 1 .. 1 + (m - 1)
          BY <1>0, <3>2
        <4> QED  BY <1>8, <1>10, <2>1, <2>2, <4>1
      <3> QED  BY <3>1, <3>2
    <2>4. Len(both) = m
      BY <1>0, <2>1
    <2>5. firsts = both
      BY <1>3, <2>1, <2>3, <2>4, SeqEqual
    <2> QED  BY <2>5 DEF both
  <1> HIDE DEF firsts, none
  <1>12. FlattenSeq(<<one>> \o none) = FlattenSeq(<<one>>) \o FlattenSeq(none)
    BY <1>10, FlattenConcat
  <1>13. FlattenSeq(<<one>>) = one
    BY <1>9, FlattenOne
  <1>14. FlattenSeq(none) = << >>
    BY <1>10, FlattenNothing
  <1>15. FlattenSeq(firsts) = one
    BY <1>9, <1>11, <1>12, <1>13, <1>14, ConcatEmptySeq
  <1> QED  BY <1>3, <1>15 DEF w, one

-----------------------------------------------------------------------------
(* The types.                                                              *)

LEMMA Split ==
    ASSUME NEW s \in Seq(Chars), NEW n \in 1 .. Len(s)
    PROVE  /\ SubSeq(s, 1, n) \in Seq(Chars) /\ SubSeq(s, n + 1, Len(s)) \in Seq(Chars)
           /\ Len(SubSeq(s, 1, n)) + Len(SubSeq(s, n + 1, Len(s))) = Len(s)
           /\ s = SubSeq(s, 1, n) \o SubSeq(s, n + 1, Len(s))
  <1>0. Len(s) \in Nat /\ n \in 1 - 1 .. Len(s) /\ Len(s) \in n .. Len(s) /\ 1 \in 1 .. Len(s) + 1
    OBVIOUS
  <1>1. /\ SubSeq(s, 1, n) \in Seq(Chars) /\ Len(SubSeq(s, 1, n)) = n
        /\ SubSeq(s, n + 1, Len(s)) \in Seq(Chars) /\ Len(SubSeq(s, n + 1, Len(s))) = Len(s) - n
    BY <1>0
  <1>2. SubSeq(s, 1, n) \o SubSeq(s, n + 1, Len(s)) = SubSeq(s, 1, Len(s))
    BY <1>0, ConcatAdjacentSubSeq
  <1>3. SubSeq(s, 1, Len(s)) = s
    BY SubSeqFull
  <1>4. Len(SubSeq(s, 1, n)) + Len(SubSeq(s, n + 1, Len(s))) = Len(s)
    BY <1>0, <1>1
  <1>5. s = SubSeq(s, 1, n) \o SubSeq(s, n + 1, Len(s))
    BY <1>2, <1>3, Zenon
  <1> QED  BY <1>1, <1>4, <1>5, Zenon

LEMMA PortInit == Init => PortInv
  <1> SUFFICES ASSUME Init PROVE PortInv
    OBVIOUS
  <1>1. input \in Seq(Chars) /\ Len(input) \in Nat /\ MaxInterrupts \in Nat
    BY InputAssumption DEF Init
  <1>2. << >> \in Seq(Chars) /\ << >> \in Seq(WordMin .. WordMax) /\ Len(<< >>) = 0
    BY EmptySeq
  <1>3. Len(taken) + Len(intstr) + Len(input_buffer) + Len(pending) <= Len(input)
    BY <1>1, <1>2 DEF Init
  <1>4. interrupts \in 0 .. MaxInterrupts
    BY <1>1 DEF Init
  <1> QED  BY <1>1, <1>2, <1>3, <1>4, Zenon DEF Init, PortInv, Modes

\* A number that is pushed is a word.
LEMMA PushedIsWord ==
    ASSUME PortInv, Converts(intstr), FitsWord(intstr)
    PROVE  intstr # << >> /\ Value(intstr) \in WordMin .. WordMax
  <1>1. intstr # << >>
    BY DEF Converts, Unsigned
  <1>2. Value(intstr) \in Int
    BY <1>1, ValueType DEF PortInv
  <1> QED  BY <1>1, <1>2, InputAssumption DEF FitsWord

LEMMA PortStep == PortInv /\ [Next]_vars => PortInv'
  <1> SUFFICES ASSUME PortInv, [Next]_vars PROVE PortInv'
    OBVIOUS
  <1>0. /\ input \in Inputs /\ closed \in BOOLEAN /\ mode \in Modes
        /\ interrupted \in BOOLEAN /\ interrupts \in 0 .. MaxInterrupts
        /\ taken \in Seq(Chars) /\ intstr \in Seq(Chars)
        /\ input_buffer \in Seq(Chars) /\ pending \in Seq(Chars)
        /\ Len(taken) + Len(intstr) + Len(input_buffer) + Len(pending) <= Len(input)
        /\ values \in Seq(WordMin .. WordMax)
    BY DEF PortInv
  <1>1. /\ Len(input) \in Nat /\ Len(taken) \in Nat /\ Len(intstr) \in Nat
        /\ Len(input_buffer) \in Nat /\ Len(pending) \in Nat
        /\ << >> \in Seq(Chars) /\ Len(<< >>) = 0
    BY <1>0, InputAssumption, EmptySeq
  <1>2. ASSUME UNCHANGED <<user, pending, input_buffer, intstr, read>>, mode' \in Modes,
               interrupted' \in BOOLEAN, interrupts' \in 0 .. MaxInterrupts
        PROVE  PortInv'
    BY <1>0, <1>2 DEF PortInv, user, read
  <1>3. CASE Read
    BY <1>0, <1>2, <1>3 DEF Read, Modes
  <1>4. CASE ScanEnded
    BY <1>0, <1>2, <1>4 DEF ScanEnded, Modes, signal
  <1>5. CASE Scan
    <2>1. intstr' = intstr \o Number /\ input_buffer' = After /\ mode' \in Modes
          /\ UNCHANGED <<user, pending, signal, read>>
      BY <1>5 DEF Scan, Number, After, Modes
    <2>2. Number \in Seq(Chars) /\ After \in Seq(Chars) /\ Len(Number) + Len(After) <= Len(input_buffer)
      BY <1>0, Cut
    <2>3. intstr' \in Seq(Chars) /\ Len(intstr') = Len(intstr) + Len(Number)
      BY <1>0, <2>1, <2>2, Joined
    <2>4. Len(Number) \in Nat /\ Len(After) \in Nat
      BY <2>2
    <2>5. Len(taken) + Len(intstr') + Len(input_buffer') + Len(pending) <= Len(input)
      BY <1>0, <1>1, <2>1, <2>2, <2>3, <2>4
    <2> QED  BY <1>0, <2>1, <2>2, <2>3, <2>5 DEF PortInv, user, signal, read
  <1>6. CASE CallsRead
    BY <1>0, <1>2, <1>6 DEF CallsRead, Modes, signal
  <1>7. CASE ScanAgain
    BY <1>0, <1>2, <1>7 DEF ScanAgain, Modes, signal
  <1>8. CASE Abandon
    <2>1. /\ input_buffer' = intstr \o input_buffer /\ intstr' = << >> /\ mode' = "idle"
          /\ UNCHANGED <<user, pending, signal, read>>
      BY <1>8 DEF Abandon
    <2>2. input_buffer' \in Seq(Chars) /\ Len(input_buffer') = Len(intstr) + Len(input_buffer)
      BY <1>0, <2>1, Joined
    <2>3. Len(taken) + Len(intstr') + Len(input_buffer') + Len(pending) <= Len(input)
      BY <1>0, <1>1, <2>1, <2>2
    <2> QED  BY <1>0, <1>1, <2>1, <2>2, <2>3 DEF PortInv, Modes, user, signal, read
  <1>9. ASSUME Used, mode' \in Modes, values' \in Seq(WordMin .. WordMax) PROVE PortInv'
    <2>1. /\ taken' = taken \o intstr /\ intstr' = << >>
          /\ UNCHANGED <<user, pending, input_buffer, signal>>
      BY <1>9 DEF Used
    <2>2. taken' \in Seq(Chars) /\ Len(taken') = Len(taken) + Len(intstr)
      BY <1>0, <2>1, Joined
    <2>3. Len(taken') + Len(intstr') + Len(input_buffer) + Len(pending) <= Len(input)
      BY <1>0, <1>1, <2>1, <2>2
    <2> QED  BY <1>0, <1>1, <1>9, <2>1, <2>2, <2>3 DEF PortInv, user, signal
  <1>10. CASE Push
    <2>1. Value(intstr) \in WordMin .. WordMax
      BY <1>10, PushedIsWord DEF Push
    <2>2. values' \in Seq(WordMin .. WordMax)
      BY <1>0, <1>10, <2>1, AppendProperties DEF Push
    <2> QED  BY <1>9, <1>10, <2>2 DEF Push, Modes
  <1>11. CASE Reject
    BY <1>0, <1>9, <1>11 DEF Reject, Modes
  <1>12. CASE Delivered
    <2>1. PICK n \in 1 .. Len(pending) :
             /\ input_buffer' = input_buffer \o SubSeq(pending, 1, n)
             /\ pending' = SubSeq(pending, n + 1, Len(pending))
      BY <1>12 DEF Delivered
    <2> DEFINE chunk == SubSeq(pending, 1, n)
    <2>2. chunk \in Seq(Chars) /\ pending' \in Seq(Chars) /\ Len(chunk) + Len(pending') = Len(pending)
      BY <1>0, <2>1, Split
    <2> HIDE DEF chunk
    <2>3. input_buffer' \in Seq(Chars) /\ Len(input_buffer') = Len(input_buffer) + Len(chunk)
      BY <1>0, <2>1, <2>2, Joined DEF chunk
    <2>4. Len(taken) + Len(intstr) + Len(input_buffer') + Len(pending') <= Len(input)
      BY <1>0, <1>1, <2>2, <2>3
    <2> QED  BY <1>0, <1>12, <2>2, <2>3, <2>4 DEF Delivered, PortInv, Modes, user, signal, read
  <1>13. CASE EndOfInput
    BY <1>0, <1>2, <1>13 DEF EndOfInput, Modes, signal
  <1>14. CASE Interrupt
    BY <1>0, <1>2, <1>14, InputAssumption DEF Interrupt, Modes
  <1>15. CASE UNCHANGED vars
    BY <1>0, <1>2, <1>15 DEF vars, signal
  <1> QED  BY <1>3, <1>4, <1>5, <1>6, <1>7, <1>8, <1>10, <1>11, <1>12, <1>13, <1>14, <1>15 DEF Next, Thread

LEMMA PortInvCorrect == Spec => []PortInv
  BY PortInit, PortStep, PTL DEF Spec

\* The types hold, and what is left over from the input is never longer than it: the buffer
\* and the characters that go back to it (Machine_readChunk) do not grow.
THEOREM TypeCorrect == Spec => []TypeOK
  <1>1. PortInv => TypeOK
    <2> SUFFICES ASSUME PortInv PROVE TypeOK
      OBVIOUS
    <2>1. ASSUME NEW s \in {pending, input_buffer, intstr, taken}
          PROVE  Len(s) <= Len(input) /\ \A i \in 1 .. Len(s) : s[i] \in Chars
      <3>1. s \in Seq(Chars)
        BY DEF PortInv
      <3>2. /\ Len(input) \in Nat /\ Len(taken) \in Nat /\ Len(intstr) \in Nat
            /\ Len(input_buffer) \in Nat /\ Len(pending) \in Nat
        BY InputAssumption DEF PortInv
      <3> QED  BY <3>1, <3>2 DEF PortInv
    <2>2. \A i \in 1 .. Len(values) : values[i] \in WordMin .. WordMax
      <3>1. values \in Seq(WordMin .. WordMax)
        BY DEF PortInv
      <3> QED  BY <3>1, ElementOfSeq
    <2> QED  BY <2>1, <2>2, Zenon DEF PortInv, TypeOK, Modes
  <1> QED  BY <1>1, PortInvCorrect, PTL

-----------------------------------------------------------------------------
(* What a step does to what there is to read.                              *)

\* It leaves it and what was read alone, or drops separators in front of it, or takes the
\* number in front of it.
Leaves == UNCHANGED <<taken, values, Unread>>
Drops == /\ mode # "convert"
         /\ intstr = << >>
         /\ UNCHANGED <<taken, values>>
         /\ Unread = Seps \o Unread'
Takes == /\ mode = "convert"
         /\ taken' = taken \o intstr
         /\ Unread = intstr \o Unread'
         /\ Unread' = input_buffer \o pending
         /\ values' = values \o (IF Acceptable(intstr) THEN <<Value(intstr)>> ELSE << >>)

LEMMA UnreadType ==
    ASSUME PortInv
    PROVE  /\ Unread \in Seq(Chars)
           /\ Unread = intstr \o (input_buffer \o pending)
           /\ input_buffer \o pending \in Seq(Chars)
  <1>1. intstr \in Seq(Chars) /\ input_buffer \in Seq(Chars) /\ pending \in Seq(Chars)
    BY DEF PortInv
  <1>2. intstr \o input_buffer \in Seq(Chars)
    BY <1>1, Joined
  <1> QED  BY <1>1, <1>2, Joined, Regroup DEF Unread

LEMMA Accounts ==
    ASSUME PortInv, [Next]_vars
    PROVE  UNCHANGED input /\ (Leaves \/ Drops \/ Takes)
  <1>0. intstr \in Seq(Chars) /\ input_buffer \in Seq(Chars) /\ pending \in Seq(Chars)
    BY DEF PortInv
  <1>1. ASSUME UNCHANGED <<user, pending, input_buffer, intstr, read>>
        PROVE  UNCHANGED input /\ Leaves
    BY <1>1 DEF Leaves, Unread, user, read
  <1>2. CASE Read
    BY <1>1, <1>2 DEF Read
  <1>3. CASE ScanEnded
    BY <1>1, <1>3 DEF ScanEnded
  <1>4. CASE Scan
    <2>1. intstr' = intstr \o Number /\ input_buffer' = After /\ pending' = pending
          /\ UNCHANGED <<input, taken, values>>
      BY <1>4 DEF Scan, Number, After, user, read
    <2>2. /\ Seps \in Seq(Chars) /\ Number \in Seq(Chars) /\ After \in Seq(Chars)
          /\ input_buffer = Seps \o (Number \o After) /\ (Start = 1 <=> Seps = << >>)
      BY <1>0, Cut
    <2>3. Number \o After \in Seq(Chars)
      BY <2>2, Joined
    <2>4. Unread' = ((intstr \o Number) \o After) \o pending
      BY <2>1, Zenon DEF Unread
    <2>5. (intstr \o Number) \o After = intstr \o (Number \o After)
      <3>1. intstr \in Seq(Chars) /\ Number \in Seq(Chars) /\ After \in Seq(Chars)
        BY <1>0, <2>2
      <3> QED  BY <3>1, Regroup
    <2>6. CASE intstr = << >>
      <3>1. Unread = (Seps \o (Number \o After)) \o pending
        BY <1>0, <2>2, <2>6, Texts DEF Unread
      <3>2. Unread' = (Number \o After) \o pending
        BY <2>3, <2>4, <2>5, <2>6, Texts
      <3>3. (Seps \o (Number \o After)) \o pending = Seps \o ((Number \o After) \o pending)
        <4>1. Seps \in Seq(Chars) /\ Number \o After \in Seq(Chars) /\ pending \in Seq(Chars)
          BY <1>0, <2>2, <2>3
        <4> QED  BY <4>1, Regroup
      <3>4. mode # "convert"
        BY <1>4 DEF Scan
      <3> QED  BY <2>1, <2>6, <3>1, <3>2, <3>3, <3>4 DEF Drops
    <2>7. CASE intstr # << >>
      <3>1. Seps = << >>
        BY <1>4, <2>2, <2>7 DEF Scan, NumberEnded
      <3>2. input_buffer = Number \o After
        BY <2>2, <2>3, <3>1, Texts
      <3>3. Unread' = Unread
        BY <2>4, <2>5, <3>2 DEF Unread
      <3> QED  BY <2>1, <3>3 DEF Leaves
    <2> QED  BY <2>6, <2>7
  <1>5. CASE CallsRead
    BY <1>1, <1>5 DEF CallsRead
  <1>6. CASE ScanAgain
    BY <1>1, <1>6 DEF ScanAgain
  <1>7. CASE Abandon
    <2>1. /\ input_buffer' = intstr \o input_buffer /\ intstr' = << >>
          /\ UNCHANGED <<input, pending, taken, values>>
      BY <1>7 DEF Abandon, user, read
    <2>2. << >> \o (intstr \o input_buffer) = intstr \o input_buffer
      BY <1>0, Joined, Texts
    <2>3. Unread' = Unread
      BY <2>1, <2>2 DEF Unread
    <2> QED  BY <2>1, <2>3 DEF Leaves
  <1>8. ASSUME Used
        PROVE  /\ UNCHANGED input /\ taken' = taken \o intstr
               /\ Unread' = input_buffer \o pending /\ Unread = intstr \o Unread'
    <2>1. /\ taken' = taken \o intstr /\ intstr' = << >>
          /\ UNCHANGED <<input, pending, input_buffer>>
      BY <1>8 DEF Used, user
    <2>2. << >> \o input_buffer = input_buffer
      BY <1>0, Texts
    <2>3. Unread' = input_buffer \o pending
      BY <2>1, <2>2 DEF Unread
    <2> QED  BY <2>1, <2>3, UnreadType
  <1>9. CASE Push
    <2>1. Acceptable(intstr) /\ mode = "convert" /\ Used /\ values' = Append(values, Value(intstr))
      BY <1>9 DEF Push, Acceptable
    <2>2. values \in Seq(WordMin .. WordMax) /\ Value(intstr) \in WordMin .. WordMax
      BY <1>9, PushedIsWord DEF PortInv, Push
    <2>3. values' = values \o <<Value(intstr)>>
      BY <2>1, <2>2, AppendIsConcat
    <2> QED  BY <1>8, <2>1, <2>3 DEF Takes
  <1>10. CASE Reject
    <2>1. ~Acceptable(intstr) /\ mode = "convert" /\ Used /\ values' = values
      BY <1>10 DEF Reject, Acceptable
    <2>2. values \in Seq(WordMin .. WordMax)
      BY DEF PortInv
    <2>3. values \o << >> = values
      BY <2>2, ConcatEmptySeq
    <2> QED  BY <1>8, <2>1, <2>3 DEF Takes
  <1>11. CASE Delivered
    <2>1. PICK n \in 1 .. Len(pending) :
             /\ input_buffer' = input_buffer \o SubSeq(pending, 1, n)
             /\ pending' = SubSeq(pending, n + 1, Len(pending))
      BY <1>11 DEF Delivered
    <2> DEFINE chunk == SubSeq(pending, 1, n)
    <2>2. chunk \in Seq(Chars) /\ pending' \in Seq(Chars) /\ pending = chunk \o pending'
      BY <1>0, <2>1, Split
    <2>3. input_buffer' = input_buffer \o chunk
      BY <2>1
    <2> HIDE DEF chunk
    <2>4. input_buffer' \o pending' = input_buffer \o pending
      BY <1>0, <2>2, <2>3, Regroup, SMTT(30)
    <2>5. input_buffer' \in Seq(Chars)
      BY <1>0, <2>2, <2>3, Joined
    <2>6. intstr' = intstr /\ UNCHANGED <<input, taken, values>>
      BY <1>11 DEF Delivered, user, read
    <2>7. Unread' = intstr \o (input_buffer' \o pending')
      <3>1. Unread' = (intstr \o input_buffer') \o pending'
        BY <2>6, Zenon DEF Unread
      <3>2. intstr \in Seq(Chars) /\ input_buffer' \in Seq(Chars) /\ pending' \in Seq(Chars)
        BY <1>0, <2>2, <2>5
      <3> QED  BY <3>1, <3>2, Regroup
    <2>8. Unread' = Unread
      BY <2>4, <2>7, UnreadType
    <2> QED  BY <2>6, <2>8 DEF Leaves
  <1>12. CASE EndOfInput
    BY <1>1, <1>12 DEF EndOfInput
  <1>13. CASE Interrupt
    BY <1>1, <1>13 DEF Interrupt
  <1>14. CASE UNCHANGED vars
    BY <1>1, <1>14 DEF vars
  <1> QED  BY <1>2, <1>3, <1>4, <1>5, <1>6, <1>7, <1>9, <1>10, <1>11, <1>12, <1>13, <1>14 DEF Next, Thread

-----------------------------------------------------------------------------
(* The two properties.                                                     *)

\* Taken and unread, separators aside, are the input.
Kept == SignedDigits(taken) \o SignedDigits(Unread) = SignedDigits(input)

LEMMA KeptIsNothingLost ==
    ASSUME PortInv
    PROVE  Kept <=> NothingLost
  <1>0. /\ taken \in Seq(Chars) /\ intstr \in Seq(Chars)
        /\ input_buffer \in Seq(Chars) /\ pending \in Seq(Chars)
    BY DEF PortInv
  <1>1. taken \o intstr \in Seq(Chars)
    BY <1>0, Joined
  <1>2. (taken \o intstr) \o input_buffer = taken \o (intstr \o input_buffer)
    BY <1>0, Regroup
  <1>3. intstr \o input_buffer \in Seq(Chars)
    BY <1>0, Joined
  <1>4. (taken \o (intstr \o input_buffer)) \o pending = taken \o Unread
    BY <1>0, <1>3, Regroup, SMTT(30) DEF Unread
  <1>5. SignedDigits(taken \o Unread) = SignedDigits(taken) \o SignedDigits(Unread)
    BY <1>0, UnreadType, SignedConcat
  <1> QED  BY <1>2, <1>4, <1>5 DEF Kept, NothingLost

LEMMA KeptInit == Init => Kept
  <1> SUFFICES ASSUME Init PROVE Kept
    OBVIOUS
  <1>1. input \in Seq(Chars)
    BY InputAssumption DEF Init
  <1>2. << >> \in Seq(Chars) /\ Len(<< >>) = 0
    BY EmptySeq
  <1>3. SignedDigits(<< >>) = << >>
    <2>1. \A i \in 1 .. Len(<< >>) : ~isSignedDigit(<< >>[i])
      BY <1>2
    <2> QED  BY <1>2, <2>1, SignedNothing
  <1>4. Unread = input
    BY <1>1, <1>2, Texts DEF Unread, Init
  <1>5. << >> \o SignedDigits(input) = SignedDigits(input)
    BY <1>1, SignedType, Texts
  <1> QED  BY <1>3, <1>4, <1>5 DEF Kept, Init

LEMMA KeptStep == PortInv /\ PortInv' /\ Kept /\ [Next]_vars => Kept'
  <1> SUFFICES ASSUME PortInv, PortInv', Kept, [Next]_vars PROVE Kept'
    OBVIOUS
  <1>0. taken \in Seq(Chars) /\ intstr \in Seq(Chars) /\ input_buffer \in Seq(Chars) /\ Unread \in Seq(Chars)
    BY UnreadType DEF PortInv
  <1>1. Unread' \in Seq(Chars)
    <2>1. intstr' \in Seq(Chars) /\ input_buffer' \in Seq(Chars) /\ pending' \in Seq(Chars)
      BY DEF PortInv
    <2>2. intstr' \o input_buffer' \in Seq(Chars)
      BY <2>1, Joined
    <2> QED  BY <2>1, <2>2, Joined DEF Unread
  <1>2. UNCHANGED input
    BY Accounts
  <1>3. CASE Leaves
    BY <1>2, <1>3 DEF Leaves, Kept
  <1>4. CASE Drops
    <2>1. Seps \in Seq(Chars) /\ SignedDigits(Seps) = << >>
      BY <1>0, Cut, SignedNothing
    <2>2. SignedDigits(Unread) = << >> \o SignedDigits(Unread')
      BY <1>1, <1>4, <2>1, SignedConcat DEF Drops
    <2>3. << >> \o SignedDigits(Unread') = SignedDigits(Unread')
      BY <1>1, SignedType, Texts
    <2> QED  BY <1>2, <1>4, <2>2, <2>3 DEF Drops, Kept
  <1>5. CASE Takes
    <2>1. SignedDigits(taken') = SignedDigits(taken) \o SignedDigits(intstr)
      BY <1>0, <1>5, SignedConcat DEF Takes
    <2>2. SignedDigits(Unread) = SignedDigits(intstr) \o SignedDigits(Unread')
      BY <1>0, <1>1, <1>5, SignedConcat DEF Takes
    <2>3. (SignedDigits(taken) \o SignedDigits(intstr)) \o SignedDigits(Unread')
             = SignedDigits(taken) \o (SignedDigits(intstr) \o SignedDigits(Unread'))
      <3>1. /\ SignedDigits(taken) \in Seq(Chars) /\ SignedDigits(intstr) \in Seq(Chars)
            /\ SignedDigits(Unread') \in Seq(Chars)
        BY <1>0, <1>1, SignedType
      <3> QED  BY <3>1, Regroup, Zenon
    <2> QED  BY <1>2, <2>1, <2>2, <2>3 DEF Kept
  <1> QED  BY <1>3, <1>4, <1>5, Accounts

\* However the input is cut into chunks and wherever READs are abandoned, no digit and no
\* sign of it is lost, repeated or moved (Machine_readIntString, Machine_readChunk).
THEOREM NothingLostCorrect == Spec => []NothingLost
  <1>1. Spec => [](PortInv /\ Kept)
    <2>1. Init => PortInv /\ Kept
      BY PortInit, KeptInit
    <2>2. PortInv /\ Kept /\ [Next]_vars => PortInv' /\ Kept'
      BY PortStep, KeptStep
    <2> QED  BY <2>1, <2>2, PTL DEF Spec
  <1>2. PortInv /\ Kept => NothingLost
    BY KeptIsNothingLost
  <1> QED  BY <1>1, <1>2, PTL

\* The end of a text that is not glued is not.
LEMMA GluedSuffix ==
    ASSUME NEW u \in Seq(Chars), NEW v \in Seq(Chars), Glued(v)
    PROVE  Glued(u \o v)
  <1>1. PICK i \in 2 .. Len(v) : v[i] = Minus /\ isSignedDigit(v[i - 1])
    BY DEF Glued
  <1>2. Len(u) \in Nat /\ Len(v) \in Nat
    OBVIOUS
  <1>3. PICK j \in 2 .. Len(u \o v) : j = Len(u) + i /\ j - 1 = Len(u) + (i - 1)
    BY <1>2, Joined
  <1>4. (u \o v)[j] = v[i]
    BY <1>2, <1>3, Joined
  <1>5. (u \o v)[j - 1] = v[i - 1]
    <2>1. PICK k \in 1 .. Len(v) : k = i - 1
      BY <1>2
    <2> QED  BY <1>3, <2>1, Joined
  <1> QED  BY <1>1, <1>3, <1>4, <1>5 DEF Glued

\* Nor is its beginning.
LEMMA GluedPrefix ==
    ASSUME NEW u \in Seq(Chars), NEW v \in Seq(Chars), Glued(u)
    PROVE  Glued(u \o v)
  <1>1. PICK i \in 2 .. Len(u) : u[i] = Minus /\ isSignedDigit(u[i - 1])
    BY DEF Glued
  <1>2. Len(u) \in Nat /\ Len(v) \in Nat /\ Len(u \o v) = Len(u) + Len(v)
    BY Joined
  <1>3. i \in 1 .. Len(u) /\ i - 1 \in 1 .. Len(u) /\ i \in 2 .. Len(u \o v)
    BY <1>2
  <1>4. (u \o v)[i] = u[i] /\ (u \o v)[i - 1] = u[i - 1]
    BY <1>3, Joined
  <1> QED  BY <1>1, <1>3, <1>4 DEF Glued

\* What goes on with a number is its digits, where no sign follows a digit.
LEMMA NumberGoesOn ==
    ASSUME NEW u \in Seq(Chars), NEW v \in Seq(Chars), IsNumber(u), IsNumber(v), ~Glued(u \o v)
    PROVE  IsNumber(u \o v)
  <1> DEFINE w == u \o v
             m == Len(u)
             n == Len(v)
  <1>0. m \in Nat \ {0} /\ n \in Nat \ {0}
    BY EmptySeq DEF IsNumber
  <1>1. /\ w \in Seq(Chars) /\ Len(w) = m + n
        /\ \A i \in 1 .. m : w[i] = u[i]
        /\ \A i \in 1 .. n : w[m + i] = v[i]
    BY Joined
  <1>2. \A i \in 1 .. n : v[i] \in Chars
    OBVIOUS
  <1> HIDE DEF w, m, n
  <1>3. ASSUME NEW i \in 2 .. m + n PROVE isdigit(w[i])
    <2>1. CASE i <= m
      <3>1. i \in 2 .. m /\ i \in 1 .. m
        BY <1>0, <2>1
      <3> QED  BY <1>1, <3>1 DEF IsNumber, m
    <2>2. CASE i = m + 1
      <3>1. isSignedDigit(u[m])
        <4>1. m = 1 \/ m \in 2 .. m
          BY <1>0
        <4> QED  BY <4>1 DEF IsNumber, isSignedDigit, m
      <3>2. i - 1 = m /\ m \in 1 .. m /\ 1 \in 1 .. n /\ i \in 2 .. Len(w)
        BY <1>0, <1>1, <2>2
      <3>3. w[i - 1] = u[m] /\ w[i] = v[1]
        BY <1>1, <2>2, <3>2
      <3>4. w[i] # Minus
        BY <3>1, <3>2, <3>3 DEF Glued, w
      <3>5. isSignedDigit(v[1])
        BY DEF IsNumber
      <3> QED  BY <3>3, <3>4, <3>5 DEF isSignedDigit
    <2>3. CASE i > m + 1
      <3>1. PICK j \in 2 .. n : i = m + j /\ j \in 1 .. n
        <4>1. i - m \in 2 .. n /\ i = m + (i - m) /\ i - m \in 1 .. n
          BY <1>0, <2>3
        <4> QED  BY <4>1
      <3> QED  BY <1>1, <3>1 DEF IsNumber, n
    <2> QED  BY <1>0, <2>1, <2>2, <2>3
  <1>4. isSignedDigit(w[1])
    <2>1. 1 \in 1 .. m
      BY <1>0
    <2> QED  BY <1>1, <2>1 DEF IsNumber
  <1>5. w # << >>
    BY <1>0, <1>1, EmptySeq
  <1> QED  BY <1>1, <1>3, <1>4, <1>5 DEF IsNumber, w

LEMMA NumberInit == Init /\ ~Glued(input) => NumberInv
  <1> SUFFICES ASSUME Init, ~Glued(input) PROVE NumberInv
    OBVIOUS
  <1>1. Unread = input
    BY InputAssumption, EmptySeq, Texts DEF Unread, Init
  <1> QED  BY <1>1 DEF NumberInv, Init

LEMMA NumberStep == PortInv /\ PortInv' /\ NumberInv /\ [Next]_vars => NumberInv'
  <1> SUFFICES ASSUME PortInv, PortInv', NumberInv, [Next]_vars PROVE NumberInv'
    OBVIOUS
  <1>0. /\ intstr \in Seq(Chars) /\ input_buffer \in Seq(Chars) /\ pending \in Seq(Chars)
        /\ intstr # << >> => IsNumber(intstr)
        /\ mode = "convert" => intstr # << >> /\ input_buffer # << >> /\ ~isdigit(input_buffer[1])
    BY DEF PortInv, NumberInv
  <1>1. Unread' \in Seq(Chars)
    <2>1. intstr' \in Seq(Chars) /\ input_buffer' \in Seq(Chars) /\ pending' \in Seq(Chars)
      BY DEF PortInv
    <2>2. intstr' \o input_buffer' \in Seq(Chars)
      BY <2>1, Joined
    <2> QED  BY <2>1, <2>2, Joined DEF Unread
  <1>2. ~Glued(Unread')
    <2>1. CASE Leaves
      BY <2>1 DEF Leaves, NumberInv
    <2>2. CASE Drops
      <3>1. Seps \in Seq(Chars)
        BY <1>0, Cut
      <3> QED  BY <1>1, <2>2, <3>1, GluedSuffix DEF Drops, NumberInv
    <2>3. CASE Takes
      BY <1>0, <1>1, <2>3, GluedSuffix DEF Takes, NumberInv
    <2> QED  BY <2>1, <2>2, <2>3, Accounts
  <1>3. ASSUME intstr' = << >>, mode' # "convert" PROVE NumberInv'
    BY <1>2, <1>3 DEF NumberInv
  <1>4. ASSUME UNCHANGED <<intstr, input_buffer>>, mode' = "convert" => mode = "convert" PROVE NumberInv'
    BY <1>0, <1>2, <1>4 DEF NumberInv
  <1>5. CASE Read
    BY <1>4, <1>5 DEF Read
  <1>6. CASE ScanEnded
    <2>1. intstr # << >> /\ Start # 1 /\ UNCHANGED <<intstr, input_buffer>>
      BY <1>6 DEF ScanEnded, NumberEnded
    <2>2. Len(input_buffer) \in Nat /\ Start \in 1 .. Len(input_buffer) + 1
          /\ \A i \in 1 .. Start - 1 : ~isSignedDigit(input_buffer[i])
      BY <1>0, StartsAndEnds
    <2>3. 1 \in 1 .. Start - 1 /\ Len(input_buffer) # 0
      BY <2>1, <2>2
    <2>4. ~isdigit(input_buffer[1]) /\ input_buffer # << >>
      BY <2>2, <2>3, EmptySeq DEF isSignedDigit
    <2> QED  BY <1>0, <1>2, <2>1, <2>4 DEF NumberInv
  <1>7. CASE Scan
    <2>1. /\ intstr' = intstr \o Number /\ input_buffer' = After /\ pending' = pending
          /\ mode' = IF End <= Len(input_buffer) THEN "convert" ELSE "chunk"
      BY <1>7 DEF Scan, Number, After
    <2>2. /\ Number \in Seq(Chars) /\ After \in Seq(Chars)
          /\ Number # << >> => IsNumber(Number)
          /\ Number = << >> => After = << >>
          /\ After # << >> => ~isdigit(After[1])
          /\ End <= Len(input_buffer) <=> After # << >>
      BY <1>0, Cut
    <2>3. CASE Number = << >>
      <3>1. intstr' = intstr
        BY <1>0, <2>1, <2>3, Texts
      <3>2. mode' = "chunk"
        BY <2>1, <2>2, <2>3
      <3> QED  BY <1>0, <1>2, <3>1, <3>2 DEF NumberInv
    <2>4. CASE Number # << >> /\ intstr = << >>
      <3>1. intstr' = Number
        BY <2>1, <2>2, <2>4, Texts
      <3> QED  BY <1>2, <2>1, <2>2, <2>4, <3>1 DEF NumberInv
    <2>5. CASE Number # << >> /\ intstr # << >>
      <3>1. intstr' \in Seq(Chars) /\ After \o pending \in Seq(Chars)
        BY <1>0, <2>1, <2>2, Joined
      <3>2. Unread' = intstr' \o (After \o pending)
        <4>1. Unread' = (intstr' \o After) \o pending
          BY <2>1, Zenon DEF Unread
        <4>2. intstr' \in Seq(Chars) /\ After \in Seq(Chars) /\ pending \in Seq(Chars)
          BY <1>0, <2>2, <3>1
        <4> QED  BY <4>1, <4>2, Regroup
      <3>3. ~Glued(intstr')
        BY <1>2, <3>1, <3>2, GluedPrefix
      <3>4. IsNumber(intstr')
        BY <1>0, <2>1, <2>2, <2>5, <3>3, NumberGoesOn
      <3>5. intstr' # << >>
        BY <3>4 DEF IsNumber
      <3> QED  BY <1>2, <2>1, <2>2, <3>4, <3>5 DEF NumberInv
    <2> QED  BY <2>3, <2>4, <2>5
  <1>8. CASE CallsRead
    BY <1>4, <1>8 DEF CallsRead
  <1>9. CASE ScanAgain
    BY <1>4, <1>9 DEF ScanAgain
  <1>10. CASE Abandon
    BY <1>3, <1>10 DEF Abandon
  <1>11. CASE Push
    BY <1>3, <1>11 DEF Push, Used
  <1>12. CASE Reject
    BY <1>3, <1>12 DEF Reject, Used
  <1>13. CASE Delivered
    <2>1. intstr' = intstr /\ mode' = "got"
      BY <1>13 DEF Delivered
    <2> QED  BY <1>0, <1>2, <2>1 DEF NumberInv
  <1>14. CASE EndOfInput
    BY <1>4, <1>14 DEF EndOfInput
  <1>15. CASE Interrupt
    BY <1>4, <1>15 DEF Interrupt
  <1>16. CASE UNCHANGED vars
    BY <1>4, <1>16 DEF vars
  <1> QED  BY <1>5, <1>6, <1>7, <1>8, <1>9, <1>10, <1>11, <1>12, <1>13, <1>14, <1>15, <1>16 DEF Next, Thread

LEMMA ReadsInit == Init => ReadsWhatWasTyped
  <1> SUFFICES ASSUME Init PROVE ReadsWhatWasTyped
    OBVIOUS
  <1>1. input \in Seq(Chars)
    BY InputAssumption DEF Init
  <1>2. Unread = input
    BY <1>1, EmptySeq, Texts DEF Unread, Init
  <1>3. << >> \o Numbers(input) = Numbers(input)
    BY <1>1, ItemsType, ConcatEmptySeq
  <1> QED  BY <1>2, <1>3 DEF ReadsWhatWasTyped, Unread, Init

LEMMA ReadsStep ==
    ASSUME PortInv, PortInv', NumberInv, ReadsWhatWasTyped, [Next]_vars
    PROVE  ReadsWhatWasTyped'
  <1>0. /\ taken \in Seq(Chars) /\ intstr \in Seq(Chars) /\ input_buffer \in Seq(Chars)
        /\ pending \in Seq(Chars) /\ Unread \in Seq(Chars)
    BY UnreadType DEF PortInv
  <1>1. Unread' \in Seq(Chars)
    <2>1. intstr' \in Seq(Chars) /\ input_buffer' \in Seq(Chars) /\ pending' \in Seq(Chars)
      BY DEF PortInv
    <2>2. intstr' \o input_buffer' \in Seq(Chars)
      BY <2>1, Joined
    <2> QED  BY <2>1, <2>2, Joined DEF Unread
  <1>2. UNCHANGED input
    BY Accounts
  <1>3. values \o Numbers(Unread) = Numbers(input)
    BY DEF ReadsWhatWasTyped, Unread
  <1>4. ASSUME values' \o Numbers(Unread') = Numbers(input) PROVE ReadsWhatWasTyped'
    BY <1>2, <1>4 DEF ReadsWhatWasTyped, Unread
  <1>5. CASE Leaves
    BY <1>3, <1>4, <1>5 DEF Leaves
  <1>6. CASE Drops
    <2>1. Seps \in Seq(Chars) /\ \A i \in 1 .. Len(Seps) : ~isSignedDigit(Seps[i])
      BY <1>0, Cut
    <2>2. Numbers(Unread) = Numbers(Unread')
      BY <1>1, <1>6, <2>1, NumbersAfterSeps DEF Drops
    <2> QED  BY <1>3, <1>4, <1>6, <2>2 DEF Drops
  <1>7. CASE Takes
    <2> DEFINE one == IF Acceptable(intstr) THEN <<Value(intstr)>> ELSE << >>
    <2>1. /\ intstr # << >> /\ IsNumber(intstr)
          /\ input_buffer # << >> /\ ~isdigit(input_buffer[1])
      BY <1>7 DEF Takes, NumberInv
    <2>2. Unread' # << >> /\ ~isdigit(Unread'[1])
      <3>1. Len(input_buffer) \in Nat \ {0} /\ Len(pending) \in Nat
        BY <1>0, <2>1, EmptySeq
      <3>2. Unread' = input_buffer \o pending
        BY <1>7 DEF Takes
      <3>3. Len(Unread') = Len(input_buffer) + Len(pending) /\ Unread'[1] = input_buffer[1]
        BY <1>0, <3>1, <3>2, Joined
      <3> QED  BY <1>1, <2>1, <3>1, <3>3, EmptySeq
    <2>3. Numbers(Unread) = one \o Numbers(Unread')
      BY <1>0, <1>1, <1>7, <2>1, <2>2, NumbersAfterNumber DEF Takes
    <2>4. values' = values \o one
      BY <1>7 DEF Takes
    <2>5. one \in Seq(Int) /\ Numbers(Unread') \in Seq(Int)
      BY <1>0, <1>1, <2>1, ValueType, ItemsType, EmptySeq
    <2>6. values \in Seq(Int)
      <3>1. values \in Seq(WordMin .. WordMax) /\ WordMin .. WordMax \subseteq Int
        BY InputAssumption DEF PortInv
      <3> QED  BY <3>1, SeqMonotonic
    <2> HIDE DEF one
    <2>7. (values \o one) \o Numbers(Unread') = values \o (one \o Numbers(Unread'))
      BY <2>5, <2>6, ConcatAssociative
    <2> QED  BY <1>3, <1>4, <2>3, <2>4, <2>7
  <1> QED  BY <1>5, <1>6, <1>7, Accounts

\* The program reads the numbers that were typed, all of them, whole and in their order,
\* whatever the chunks and the interrupts (Machine_readWord), from every input in which no
\* minus sign follows a digit or a sign.
THEOREM ReadsWhatWasTypedCorrect == Spec => [](~Glued(input) => ReadsWhatWasTyped)
  <1> DEFINE Reads == ~Glued(input) => NumberInv /\ ReadsWhatWasTyped
  <1>1. Spec => [](PortInv /\ Reads)
    <2>1. Init => PortInv /\ Reads
      BY PortInit, NumberInit, ReadsInit
    <2>2. PortInv /\ Reads /\ [Next]_vars => PortInv' /\ Reads'
      <3> SUFFICES ASSUME PortInv, Reads, [Next]_vars PROVE PortInv' /\ Reads'
        OBVIOUS
      <3>1. PortInv' /\ input' = input
        BY PortStep, Accounts
      <3>2. CASE Glued(input)
        BY <3>1, <3>2
      <3>3. CASE ~Glued(input)
        <4>1. NumberInv /\ ReadsWhatWasTyped
          BY <3>3
        <4> QED  BY <3>1, <4>1, NumberStep, ReadsStep
      <3> QED  BY <3>1, <3>2, <3>3
    <2> QED  BY <2>1, <2>2, PTL DEF Spec
  <1>2. PortInv /\ Reads => (~Glued(input) => ReadsWhatWasTyped)
    OBVIOUS
  <1> QED  BY <1>1, <1>2, PTL

=============================================================================
