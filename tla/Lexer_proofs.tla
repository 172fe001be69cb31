---------------------------- MODULE Lexer_proofs ----------------------------
(***************************************************************************)
(* The lexer takes what lexemes are: proofs for every text and any limits. *)
(***************************************************************************)
EXTENDS Lexer, SequenceFacts, FiniteSetTheorems

\* The strings, the characters named here among them: that those are strings is more than
\* the provers know.
Character == STRING \cup Letter \cup Digit \cup {"/", "*"}

-----------------------------------------------------------------------------
(* The beginnings of the fixed texts.                                      *)

\* What the beginnings of reserved words and of the other fixed texts are made of.
WordLike(s) == Len(s) > 0 /\ AllIn(s, Letter)
SignLike(s) == Len(s) > 0 /\ \A i \in DOMAIN s : s[i] \notin Letter \cup Digit \cup Space

LEMMA Classes ==
    /\ Letter \cap Digit = {} /\ Letter \cap Space = {} /\ Digit \cap Space = {}
    /\ "/" \notin Letter \cup Digit \cup Space /\ "*" \notin Letter \cup Digit \cup Space
    /\ Newline \in Space
    /\ Letter \subseteq Character /\ Digit \subseteq Character /\ {"/", "*"} \subseteq Character
  <1>1. Letter \cap Digit = {}
    BY DEF Letter, Digit
  <1>2. Letter \cap Space = {} /\ Digit \cap Space = {} /\ Newline \in Space
    BY DEF Letter, Digit, Space, Newline
  <1>3. "/" \notin Letter \cup Digit \cup Space /\ "*" \notin Letter \cup Digit \cup Space
    BY DEF Letter, Digit, Space, Newline
  <1> QED  BY <1>1, <1>2, <1>3 DEF Character

LEMMA Beginning ==
    ASSUME NEW s \in Seq(Character), NEW n \in 0 .. Len(s)
    PROVE  /\ SubSeq(s, 1, n) \in Seq(Character) /\ Len(SubSeq(s, 1, n)) = n
           /\ \A i \in 1 .. n : SubSeq(s, 1, n)[i] = s[i]
           /\ \A m \in 0 .. n : SubSeq(SubSeq(s, 1, n), 1, m) = SubSeq(s, 1, m)
  <1>1. ASSUME NEW m \in 0 .. Len(s)
        PROVE  /\ SubSeq(s, 1, m) \in Seq(Character) /\ Len(SubSeq(s, 1, m)) = m
               /\ \A i \in 1 .. m : SubSeq(s, 1, m)[i] = s[i]
    <2>1. SubSeq(s, 1, m) = [i \in 1 .. m |-> s[i]]
      OBVIOUS
    <2>2. \A i \in 1 .. m : i \in 1 .. Len(s) /\ s[i] \in Character
      OBVIOUS
    <2> QED  BY <2>1, <2>2, IsASeq
  <1>2. ASSUME NEW m \in 0 .. n PROVE SubSeq(SubSeq(s, 1, n), 1, m) = SubSeq(s, 1, m)
    BY <1>1, SubSeqOfSubSeq
  <1> QED  BY <1>1, <1>2

LEMMA ExactTexts ==
    ASSUME NEW w \in Exact
    PROVE  /\ w \in Seq(Character) /\ Len(w) > 0 /\ Len(w) <= 9
           /\ WordLike(w) <=> w \in WordTexts
           /\ WordLike(w) \/ SignLike(w)
  <1>1. CASE w \in WordTexts
    <2>1. w \in Seq(Letter) /\ Len(w) > 0 /\ Len(w) <= 9
      BY <1>1, SpellingAssumption
    <2>2. w \in Seq(Character)
      BY <2>1, Classes, SeqMonotonic
    <2>3. AllIn(w, Letter)
      BY <2>1 DEF AllIn
    <2> QED  BY <1>1, <2>1, <2>2, <2>3, Zenon DEF WordLike
  <1>2. CASE w \in FixedTexts \ WordTexts
    <2>1. w \in Seq(STRING) /\ Len(w) > 0 /\ Len(w) <= 9 /\ SignLike(w)
      BY <1>2, SpellingAssumption DEF SignLike
    <2>2. w \in Seq(Character)
      BY <2>1, SeqMonotonic DEF Character
    <2>3. ~WordLike(w)
      <3>1. 1 \in DOMAIN w
        BY <2>1
      <3> QED  BY <2>1, <3>1, Zenon DEF SignLike, WordLike, AllIn
    <2> QED  BY <1>2, <2>1, <2>2, <2>3
  <1>3. CASE w = OpenComment
    <2>1. w \in Seq(Character) /\ Len(w) = 2 /\ w[1] = "/" /\ w[2] = "*"
      BY <1>3 DEF OpenComment, Character
    <2>2. ~WordLike(w) /\ SignLike(w)
      BY <2>1, Classes DEF WordLike, SignLike, AllIn
    <2>3. w \notin WordTexts
      <3>1. ASSUME w \in Seq(Letter) PROVE w[1] \in Letter
        BY <2>1, <3>1, ElementOfSeq
      <3> QED  BY <2>1, <3>1, SpellingAssumption, Classes
    <2> QED  BY <2>1, <2>2, <2>3
  <1> QED  BY <1>1, <1>2, <1>3 DEF Exact

\* A beginning of a fixed text is nothing, or letters only, or neither letters nor digits
\* nor white space; and what it begins with is a beginning too.
LEMMA PrefixTexts ==
    ASSUME NEW s \in Beginnings
    PROVE  /\ s \in Seq(Character) /\ Len(s) <= 9
           /\ s = Start \/ WordLike(s) \/ SignLike(s)
           /\ \A n \in 0 .. Len(s) : SubSeq(s, 1, n) \in Beginnings
  <1>0. PICK w \in Exact : \E n \in 0 .. Len(w) : s = SubSeq(w, 1, n)
    BY DEF Beginnings
  <1>1. PICK n \in 0 .. Len(w) : s = SubSeq(w, 1, n)
    BY <1>0
  <1>2. w \in Seq(Character) /\ Len(w) \in Nat /\ Len(w) <= 9 /\ (WordLike(w) \/ SignLike(w))
    BY ExactTexts
  <1>3. /\ s \in Seq(Character) /\ Len(s) = n
        /\ \A i \in 1 .. n : s[i] = w[i]
        /\ \A m \in 0 .. n : SubSeq(s, 1, m) = SubSeq(w, 1, m)
    BY <1>1, <1>2, Beginning
  <1>4. n \in Nat /\ n <= 9 /\ \A m \in 0 .. n : m \in 0 .. Len(w)
    BY <1>2
  <1>5. \A m \in 0 .. Len(s) : SubSeq(s, 1, m) \in Beginnings
    BY <1>3, <1>4 DEF Beginnings
  <1>6. CASE n = 0
    BY <1>2, <1>3, <1>4, <1>5, <1>6, EmptySeq DEF Start
  <1>7. CASE n > 0
    <2>1. \A i \in DOMAIN s : i \in DOMAIN w /\ s[i] = w[i]
      BY <1>2, <1>3, <1>4
    <2>2. WordLike(w) => WordLike(s)
      BY <1>3, <1>7, <2>1, Zenon DEF WordLike, AllIn
    <2>3. SignLike(w) => SignLike(s)
      BY <1>3, <1>7, <2>1, Zenon DEF SignLike
    <2> QED  BY <1>2, <1>3, <1>4, <1>5, <2>2, <2>3
  <1> QED  BY <1>4, <1>6, <1>7

LEMMA ExactBeginnings ==
    ASSUME NEW w \in Exact
    PROVE  w \in Beginnings /\ w # Start
  <1>1. w \in Seq(Character) /\ Len(w) > 0
    BY ExactTexts
  <1>2. Len(w) \in 0 .. Len(w) /\ SubSeq(w, 1, Len(w)) = w /\ w # Start
    BY <1>1, SubSeqFull, EmptySeq DEF Start
  <1>3. w \in {SubSeq(w, 1, n) : n \in 0 .. Len(w)}
    BY <1>2, Zenon
  <1> QED  BY <1>2, <1>3, Zenon DEF Beginnings

-----------------------------------------------------------------------------
(* The machine.  Where it is follows from what it read since the start.    *)

IdentLike(s) == Len(s) > 0 /\ s[1] \in Letter /\ AllIn(s, Letter \cup Digit)
NumberLike(s) == Len(s) > 0 /\ AllIn(s, Digit)
InvalidLike(s) == Len(s) > 1 /\ s[Len(s)] \in Letter /\ \A i \in 1 .. Len(s) - 1 : s[i] \in Digit

StateOf(s) == IF s \in Beginnings THEN s
              ELSE IF IdentLike(s) THEN InIdent
              ELSE IF NumberLike(s) THEN InNumber
              ELSE IF InvalidLike(s) THEN InInvalid
              ELSE Nowhere

LEMMA Kinds ==
    ASSUME NEW s \in Seq(Character)
    PROVE  /\ Len(s) > 0 <=> s # Start
           /\ WordLike(s) => IdentLike(s)
           /\ IdentLike(s) => ~NumberLike(s) /\ ~InvalidLike(s) /\ ~SignLike(s) /\ s # Start
           /\ NumberLike(s) => ~InvalidLike(s) /\ ~SignLike(s) /\ s # Start
           /\ InvalidLike(s) => ~SignLike(s) /\ s # Start
           /\ SignLike(s) => s # Start
  <1>1. Len(s) \in Nat /\ DOMAIN s = 1 .. Len(s) /\ (Len(s) > 0 <=> s # Start)
    BY EmptySeq DEF Start
  <1>2. Len(s) > 0 => 1 \in DOMAIN s
    BY <1>1
  <1>3. Len(s) > 1 => Len(s) > 0 /\ Len(s) \in DOMAIN s /\ 1 \in 1 .. Len(s) - 1
    BY <1>1
  <1>4. WordLike(s) => IdentLike(s)
    BY <1>2 DEF WordLike, IdentLike, AllIn
  <1>5. IdentLike(s) => ~NumberLike(s) /\ ~InvalidLike(s) /\ ~SignLike(s) /\ Len(s) > 0
    BY <1>2, <1>3, Classes, Zenon DEF IdentLike, NumberLike, InvalidLike, SignLike, AllIn
  <1>6. NumberLike(s) => ~InvalidLike(s) /\ ~SignLike(s) /\ Len(s) > 0
    BY <1>2, <1>3, Classes, Zenon DEF NumberLike, InvalidLike, SignLike, AllIn
  <1>7. InvalidLike(s) => ~SignLike(s) /\ Len(s) > 0
    BY <1>2, <1>3, Classes, Zenon DEF InvalidLike, SignLike, AllIn
  <1> QED  BY <1>1, <1>4, <1>5, <1>6, <1>7 DEF SignLike

LEMMA OneMore ==
    ASSUME NEW s \in Seq(Character), NEW c \in Character
    PROVE  /\ Append(s, c) \in Seq(Character) /\ Append(s, c) # Start
           /\ IdentLike(Append(s, c)) <=> \/ s = Start /\ c \in Letter
                                          \/ IdentLike(s) /\ c \in Letter \cup Digit
           /\ NumberLike(Append(s, c)) <=> (s = Start \/ NumberLike(s)) /\ c \in Digit
           /\ InvalidLike(Append(s, c)) <=> NumberLike(s) /\ c \in Letter
           /\ Append(s, c) \in Beginnings => s \in Beginnings
  <1> DEFINE n == Len(s)
             a == Append(s, c)
  <1>1. /\ a \in Seq(Character) /\ a # Start /\ Len(a) = n + 1 /\ n \in Nat
        /\ \A i \in 1 .. n : a[i] = s[i]
        /\ a[n + 1] = c
        /\ DOMAIN a = 1 .. n + 1 /\ DOMAIN s = 1 .. n
    BY AppendProperties DEF Start
  <1>2. n = 0 <=> s = Start
    BY EmptySeq DEF Start
  <1>3. SubSeq(a, 1, n) = s
    BY <1>1
  <1> HIDE DEF a, n
  <1>4. \A i \in 1 .. n + 1 : i = n + 1 \/ i \in 1 .. n
    BY <1>1
  <1>5. (\A i \in 1 .. n : i \in 1 .. n + 1) /\ n + 1 \in 1 .. n + 1
    BY <1>1
  <1>6. n + 1 > 0 /\ n + 1 - 1 = n /\ (n + 1 > 1 <=> n > 0) /\ (n > 0 => 1 \in 1 .. n) /\ (n = 0 => n + 1 = 1)
        /\ (n > 0 <=> n # 0)
    BY <1>1
  <1>7. ASSUME NEW class PROVE AllIn(a, class) <=> AllIn(s, class) /\ c \in class
    BY <1>1, <1>4, <1>5, Zenon DEF AllIn
  <1>8. IdentLike(a) <=> \/ s = Start /\ c \in Letter
                         \/ IdentLike(s) /\ c \in Letter \cup Digit
    <2>1. CASE n = 0
      <3>1. AllIn(s, Letter \cup Digit)
        BY <1>1, <2>1 DEF AllIn
      <3>2. Len(a) > 0 /\ a[1] = c /\ ~(Len(s) > 0) /\ s = Start
        BY <1>1, <1>2, <1>6, <2>1 DEF n
      <3> QED  BY <1>7, <3>1, <3>2 DEF IdentLike
    <2>2. CASE n # 0
      <3>1. Len(a) > 0 /\ a[1] = s[1] /\ Len(s) > 0 /\ s # Start
        BY <1>1, <1>2, <1>6, <2>2 DEF n
      <3> QED  BY <1>7, <3>1, Zenon DEF IdentLike
    <2> QED  BY <2>1, <2>2
  <1>9. NumberLike(a) <=> (s = Start \/ NumberLike(s)) /\ c \in Digit
    <2>1. CASE n = 0
      <3>1. AllIn(s, Digit)
        BY <1>1, <2>1 DEF AllIn
      <3>2. Len(a) > 0 /\ s = Start
        BY <1>1, <1>2, <1>6, <2>1 DEF n
      <3> QED  BY <1>7, <3>1, <3>2 DEF NumberLike
    <2>2. CASE n # 0
      <3>1. Len(a) > 0 /\ Len(s) > 0 /\ s # Start
        BY <1>1, <1>2, <1>6, <2>2 DEF n
      <3> QED  BY <1>7, <3>1, Zenon DEF NumberLike
    <2> QED  BY <2>1, <2>2
  <1>10. InvalidLike(a) <=> NumberLike(s) /\ c \in Letter
    <2>1. (\A i \in 1 .. Len(a) - 1 : a[i] \in Digit) <=> AllIn(s, Digit)
      <3>1. Len(a) - 1 = n
        BY <1>1
      <3>2. (\A i \in 1 .. n : a[i] \in Digit) <=> (\A i \in 1 .. n : s[i] \in Digit)
        BY <1>1, Zenon
      <3> QED  BY <1>1, <3>1, <3>2, Zenon DEF AllIn
    <2>2. a[Len(a)] = c /\ (Len(a) > 1 <=> Len(s) > 0)
      BY <1>1, <1>6 DEF n
    <2> QED  BY <2>1, <2>2, Zenon DEF InvalidLike, NumberLike
  <1>11. a \in Beginnings => s \in Beginnings
    <2>1. n \in 0 .. Len(a)
      BY <1>1
    <2> QED  BY <1>3, <2>1, PrefixTexts, Zenon
  <1> QED  BY <1>1, <1>8, <1>9, <1>10, <1>11 DEF a

\* The labels are no beginnings, and none is another.
LEMMA Labels ==
    /\ InIdent \notin Beginnings /\ InNumber \notin Beginnings /\ InInvalid \notin Beginnings
    /\ Nowhere \notin Beginnings
    /\ InIdent # InNumber /\ InIdent # InInvalid /\ InNumber # InInvalid
    /\ Nowhere # InIdent /\ Nowhere # InNumber /\ Nowhere # InInvalid
    /\ Start # InIdent /\ Start # InNumber /\ Start # InInvalid /\ Start # Nowhere
  <1>1. /\ InIdent \notin Beginnings /\ InNumber \notin Beginnings /\ InInvalid \notin Beginnings
        /\ Nowhere \notin Beginnings
    BY SpellingAssumption
  <1> QED  BY <1>1 DEF InIdent, InNumber, InInvalid, Nowhere, Start

\* A transition leads from where a text leads to where the text with a character more does.
LEMMA Moves ==
    ASSUME NEW s \in Seq(Character), NEW c \in Character, StateOf(s) # Nowhere
    PROVE  Transition(StateOf(s), c) = StateOf(Append(s, c))
  <1> DEFINE a == Append(s, c)
  <1>1. /\ IdentLike(a) <=> (s = Start /\ c \in Letter) \/ (IdentLike(s) /\ c \in Letter \cup Digit)
        /\ NumberLike(a) <=> (s = Start \/ NumberLike(s)) /\ c \in Digit
        /\ InvalidLike(a) <=> NumberLike(s) /\ c \in Letter
        /\ a \in Beginnings => s \in Beginnings
    BY OneMore
  <1> HIDE DEF a
  <1>2. CASE a \in Beginnings
    <2>1. StateOf(s) = s /\ s \in Beginnings
      BY <1>1, <1>2 DEF StateOf
    <2> QED  BY <1>2, <2>1 DEF Transition, StateOf, a
  <1>3. CASE a \notin Beginnings /\ s \in Beginnings
    <2>1. StateOf(s) = s
      BY <1>3 DEF StateOf
    <2>2. s # InIdent /\ s # InNumber
      BY <1>3, Labels
    <2>3. CASE s = Start
      <3>1. ~IsWordPrefix(s)
        BY <2>3 DEF IsWordPrefix
      <3>2. ~IdentLike(s) /\ ~NumberLike(s)
        BY <2>3, Kinds
      <3> QED  BY <1>1, <1>3, <2>1, <2>2, <2>3, <3>1, <3>2, Classes DEF Transition, StateOf, a
    <2>4. CASE WordLike(s)
      <3>1. IsWordPrefix(s) /\ s # Start /\ IdentLike(s) /\ ~NumberLike(s)
        BY <1>3, <2>4, Kinds DEF IsWordPrefix, IdentLike
      <3> QED  BY <1>1, <1>3, <2>1, <2>2, <3>1 DEF Transition, StateOf, a
    <2>5. CASE SignLike(s)
      <3>1. s # Start /\ ~IdentLike(s) /\ ~NumberLike(s) /\ ~IsWordPrefix(s)
        <4>1. 1 \in DOMAIN s
          BY <2>5 DEF SignLike
        <4>2. s[1] \notin Letter
          BY <2>5, <4>1 DEF SignLike
        <4> QED  BY <2>5, <4>2, Kinds DEF IsWordPrefix
      <3> QED  BY <1>1, <1>3, <2>1, <2>2, <3>1 DEF Transition, StateOf, a
    <2> QED  BY <1>3, <2>3, <2>4, <2>5, PrefixTexts
  <1>4. CASE s \notin Beginnings
    <2>1. a \notin Beginnings /\ ~IsWordPrefix(InIdent) /\ ~IsWordPrefix(InNumber) /\ ~IsWordPrefix(InInvalid)
      BY <1>1, <1>4, Labels DEF IsWordPrefix
    <2>2. CASE IdentLike(s)
      <3>1. StateOf(s) = InIdent /\ s # Start /\ ~NumberLike(s)
        BY <1>4, <2>2, Kinds DEF StateOf
      <3> QED  BY <1>1, <2>1, <2>2, <3>1, Labels DEF Transition, StateOf, a
    <2>3. CASE NumberLike(s)
      <3>1. StateOf(s) = InNumber /\ s # Start /\ ~IdentLike(s)
        BY <1>4, <2>3, Kinds DEF StateOf
      <3> QED  BY <1>1, <2>1, <2>3, <3>1, Labels, Classes DEF Transition, StateOf, a
    <2>4. CASE InvalidLike(s)
      <3>1. StateOf(s) = InInvalid /\ s # Start /\ ~IdentLike(s) /\ ~NumberLike(s)
        BY <1>4, <2>4, Kinds DEF StateOf
      <3> QED  BY <1>1, <2>1, <3>1, Labels DEF Transition, StateOf, a
    <2> QED  BY <1>4, <2>2, <2>3, <2>4 DEF StateOf
  <1> QED  BY <1>2, <1>3, <1>4

\* What the machine has read has a form or may come to have one; so had what came before.
LEMMA Viable ==
    ASSUME NEW s \in Seq(Character), StateOf(s) # Nowhere, NEW n \in 0 .. Len(s)
    PROVE  StateOf(SubSeq(s, 1, n)) # Nowhere
  <1> DEFINE p == SubSeq(s, 1, n)
  <1>1. p \in Seq(Character) /\ Len(p) = n /\ n \in Nat /\ \A i \in 1 .. n : p[i] = s[i]
    BY Beginning
  <1>2. Len(s) \in Nat /\ n <= Len(s) /\ DOMAIN s = 1 .. Len(s) /\ DOMAIN p = 1 .. n
        /\ \A i \in 1 .. n : i \in 1 .. Len(s)
    BY <1>1
  <1>3. CASE s \in Beginnings
    <2>1. p \in Beginnings
      BY <1>3, PrefixTexts
    <2> QED  BY <2>1, Labels DEF StateOf
  <1>4. CASE n = 0
    <2>1. p = SubSeq(<<"/">>, 1, 0)
      BY <1>1, <1>4, EmptySeq
    <2>2. p \in Beginnings
      <3>1. <<"/">> \in Exact /\ 0 \in 0 .. Len(<<"/">>)
        BY SpellingAssumption DEF Exact
      <3> QED  BY <2>1, <3>1 DEF Beginnings
    <2> QED  BY <2>2, Labels DEF StateOf
  <1> HIDE DEF p
  <1>5. CASE n > 0 /\ IdentLike(s)
    <2>1. IdentLike(p)
      <3>1. 1 \in 1 .. n
        BY <1>1, <1>5
      <3> QED  BY <1>1, <1>2, <1>5, <3>1, Zenon DEF IdentLike, AllIn
    <2> QED  BY <2>1, Labels DEF StateOf, p
  <1>6. CASE n > 0 /\ NumberLike(s)
    <2>1. NumberLike(p)
      BY <1>1, <1>2, <1>6, Zenon DEF NumberLike, AllIn
    <2> QED  BY <2>1, Labels DEF StateOf, p
  <1>7. CASE n > 0 /\ InvalidLike(s)
    <2>1. CASE n = Len(s)
      <3>1. p = s
        BY <2>1 DEF p
      <3> QED  BY <3>1 DEF p
    <2>2. CASE n # Len(s)
      <3>0. n \in Nat /\ Len(s) \in Nat /\ n <= Len(s)
        BY <1>1, <1>2
      <3>1. \A i \in 1 .. n : i \in 1 .. Len(s) - 1
        BY <2>2, <3>0
      <3>2. NumberLike(p)
        BY <1>1, <1>2, <1>7, <3>1, Zenon DEF NumberLike, InvalidLike, AllIn
      <3> QED  BY <3>2, Labels DEF StateOf, p
    <2> QED  BY <2>1, <2>2
  <1>8. n = 0 \/ n > 0
    BY <1>1
  <1> QED  BY <1>3, <1>4, <1>5, <1>6, <1>7, <1>8 DEF StateOf

LEMMA Forms ==
    ASSUME NEW s \in Seq(Character)
    PROVE  /\ FormOf(s) = IF s \in FixedTexts THEN TypeOf[s]
                          ELSE IF IdentLike(s) THEN "identsym"
                          ELSE IF NumberLike(s) THEN "numbersym"
                          ELSE IF InvalidLike(s) THEN "invalid"
                          ELSE NoToken
           /\ s \in FixedTexts => ~NumberLike(s) /\ ~InvalidLike(s) /\ (IdentLike(s) <=> s \in WordTexts)
  <1>1. s \in FixedTexts => s \in Exact
    BY DEF Exact
  <1>2. s \in FixedTexts => /\ ~NumberLike(s) /\ ~InvalidLike(s)
                            /\ IdentLike(s) <=> s \in WordTexts
    BY <1>1, ExactTexts, Kinds
  <1>3. s # << >> <=> Len(s) > 0
    BY Kinds DEF Start
  <1>4. (s # << >> /\ s \notin WordTexts /\ s[1] \in Letter /\ AllIn(s, Letter \cup Digit))
        <=> IdentLike(s) /\ s \notin WordTexts
    BY <1>3 DEF IdentLike
  <1>5. (s # << >> /\ AllIn(s, Digit)) <=> NumberLike(s)
    BY <1>3 DEF NumberLike
  <1>6. (Len(s) > 1 /\ s[Len(s)] \in Letter /\ AllIn(SubSeq(s, 1, Len(s) - 1), Digit)) <=> InvalidLike(s)
    <2>1. CASE Len(s) > 1
      <3> DEFINE p == SubSeq(s, 1, Len(s) - 1)
      <3>1. Len(s) - 1 \in 0 .. Len(s)
        BY <2>1
      <3>2. DOMAIN p = 1 .. Len(s) - 1 /\ \A i \in 1 .. Len(s) - 1 : p[i] = s[i]
        BY <3>1, Beginning
      <3> HIDE DEF p
      <3> QED  BY <3>2, Zenon DEF InvalidLike, AllIn, p
    <2>2. CASE ~(Len(s) > 1)
      BY <2>2, Zenon DEF InvalidLike
    <2> QED  BY <2>1, <2>2
  <1>7. WordTexts \subseteq FixedTexts
    BY DEF FixedTexts
  <1> DEFINE ident == s # << >> /\ s \notin WordTexts /\ s[1] \in Letter /\ AllIn(s, Letter \cup Digit)
             number == s # << >> /\ AllIn(s, Digit)
             invalid == Len(s) > 1 /\ s[Len(s)] \in Letter /\ AllIn(SubSeq(s, 1, Len(s) - 1), Digit)
  <1>8. FormOf(s) = CASE s \in FixedTexts -> TypeOf[s] [] ident -> "identsym" [] number -> "numbersym"
                      [] invalid -> "invalid" [] OTHER -> NoToken
    BY DEF FormOf
  <1>9. /\ ident <=> IdentLike(s) /\ s \notin WordTexts
        /\ number <=> NumberLike(s)
        /\ invalid <=> InvalidLike(s)
    BY <1>4, <1>5, <1>6
  <1> HIDE DEF ident, number, invalid
  <1> QED  BY <1>2, <1>7, <1>8, <1>9, Kinds

\* What a text has no form is what leads nowhere, or to a state that accepts nothing; and
\* the type of the token is the form.
LEMMA FormAccepted ==
    ASSUME NEW s \in Seq(Character), s # OpenComment
    PROVE  FormOf(s) = IF StateOf(s) = Nowhere THEN NoToken ELSE Accepts(StateOf(s))
  <1>1. s \in FixedTexts => s \in Beginnings /\ s # Start
    BY ExactBeginnings DEF Exact
  <1>2. OpenComment \in Beginnings
    BY ExactBeginnings DEF Exact
  <1>3. FixedTexts \subseteq Beginnings
    BY ExactBeginnings DEF Exact
  <1>4. s \in Exact <=> s \in FixedTexts
    BY DEF Exact
  <1>5. CASE s \in Beginnings
    <2>1. StateOf(s) = s /\ StateOf(s) # Nowhere /\ s # InIdent /\ s # InNumber /\ s # InInvalid
      BY <1>5, Labels DEF StateOf
    <2>2. CASE s \in FixedTexts
      BY <2>1, <2>2, Forms, <1>4, Zenon DEF Accepts
    <2>3. CASE s \notin FixedTexts /\ s = Start
      <3>1. ~IdentLike(s) /\ ~NumberLike(s) /\ ~InvalidLike(s) /\ ~IsWordPrefix(s)
        BY <2>3, Kinds DEF IsWordPrefix
      <3> QED  BY <2>1, <2>3, <3>1, Forms DEF Accepts
    <2>4. CASE s \notin FixedTexts /\ WordLike(s)
      <3>1. IdentLike(s) /\ IsWordPrefix(s)
        BY <1>5, <2>4, Kinds DEF IsWordPrefix, IdentLike
      <3> QED  BY <1>4, <2>1, <2>4, <3>1, Forms DEF Accepts
    <2>5. CASE s \notin FixedTexts /\ SignLike(s)
      <3>1. ~IdentLike(s) /\ ~NumberLike(s) /\ ~InvalidLike(s)
        BY <2>5, Kinds
      <3>2. ~IsWordPrefix(s)
        <4>1. 1 \in DOMAIN s
          BY <2>5 DEF SignLike
        <4>2. s[1] \notin Letter
          BY <2>5, <4>1 DEF SignLike
        <4> QED  BY <4>2 DEF IsWordPrefix
      <3> QED  BY <2>1, <2>5, <3>1, <3>2, Forms DEF Accepts
    <2> QED  BY <1>5, <2>2, <2>3, <2>4, <2>5, PrefixTexts
  <1>6. CASE s \notin Beginnings
    <2>0. s \notin FixedTexts
      BY <1>1, <1>6
    <2>1. \A label \in {InIdent, InNumber, InInvalid} :
             label \notin FixedTexts /\ label # OpenComment /\ ~IsWordPrefix(label)
      BY <1>2, <1>3, Labels DEF IsWordPrefix
    <2>2. CASE IdentLike(s)
      BY <1>6, <2>0, <2>1, <2>2, Labels, Forms DEF StateOf, Accepts
    <2>3. CASE NumberLike(s)
      BY <1>6, <2>0, <2>1, <2>3, Labels, Forms, Kinds DEF StateOf, Accepts
    <2>4. CASE InvalidLike(s)
      BY <1>6, <2>0, <2>1, <2>4, Labels, Forms, Kinds DEF StateOf, Accepts
    <2>5. CASE ~IdentLike(s) /\ ~NumberLike(s) /\ ~InvalidLike(s)
      BY <1>6, <2>0, <2>5, Forms DEF StateOf
    <2> QED  BY <2>2, <2>3, <2>4, <2>5
  <1> QED  BY <1>5, <1>6

LEMMA OpenCommentIs ==
    /\ OpenComment \notin FixedTexts /\ OpenComment \in Beginnings
    /\ StateOf(OpenComment) = OpenComment /\ Accepts(OpenComment) = "comment"
  <1>1. OpenComment \in Beginnings
    BY ExactBeginnings DEF Exact
  <1>2. ASSUME OpenComment \in FixedTexts PROVE FALSE
    <2>1. OpenComment \notin WordTexts
      <3>1. ~WordLike(OpenComment)
        BY Classes DEF WordLike, AllIn, OpenComment
      <3> QED  BY <3>1, ExactTexts DEF Exact
    <2>2. OpenComment[1] = "/" /\ 1 \in DOMAIN OpenComment
      BY DEF OpenComment
    <2>3. OpenComment = <<"/">>
      BY <1>2, <2>1, <2>2, SpellingAssumption
    <2> QED  BY <2>3 DEF OpenComment
  <1>3. OpenComment \in Exact /\ OpenComment \notin {InIdent, InNumber, InInvalid}
    BY <1>1, Labels DEF Exact
  <1>4. StateOf(OpenComment) = OpenComment
    BY <1>1 DEF StateOf
  <1> QED  BY <1>1, <1>2, <1>3, <1>4, Zenon DEF Accepts

\* A text that has led somewhere, and where nothing is accepted, begins with no lexeme.
LEMMA NothingAccepted ==
    ASSUME NEW s \in Seq(Character), StateOf(s) # Nowhere, Accepts(StateOf(s)) = NoToken,
           NEW n \in 1 .. Len(s)
    PROVE  FormOf(SubSeq(s, 1, n)) = NoToken
  <1>0. Len(s) \in Nat /\ n \in 0 .. Len(s) /\ n \in Nat /\ n >= 1 /\ n <= Len(s)
    OBVIOUS
  <1>1. s # Start /\ s # OpenComment /\ Len(s) > 0
    <2>1. Len(s) > 0
      BY <1>0
    <2>2. s # OpenComment
      <3>1. ASSUME s = OpenComment PROVE FALSE
        BY <3>1, OpenCommentIs DEF NoToken
      <3> QED  BY <3>1
    <2> QED  BY <2>1, <2>2, Kinds
  <1>2. FormOf(s) = NoToken
    BY <1>1, FormAccepted
  <1>3. \A w \in FixedTexts : TypeOf[w] \in Reserved \cup Punctuation
    <2>1. ASSUME NEW w \in FixedTexts PROVE \E x \in Reserved \cup Punctuation : Chars(x) = w
      BY DEF FixedTexts, WordTexts
    <2> QED  BY <2>1 DEF TypeOf
  <1>4. NoToken \notin Reserved \cup Punctuation
    BY DEF NoToken, Reserved, Punctuation
  <1>5. s \notin FixedTexts /\ ~IdentLike(s) /\ ~NumberLike(s) /\ ~InvalidLike(s)
    BY <1>2, <1>3, <1>4, Forms DEF NoToken
  <1>6. s \in Beginnings /\ SignLike(s)
    BY <1>1, <1>5, Kinds, PrefixTexts DEF StateOf
  <1>7. PICK w \in Exact : \E k \in 0 .. Len(w) : s = SubSeq(w, 1, k)
    BY <1>6 DEF Beginnings
  <1>8. PICK k \in 0 .. Len(w) : s = SubSeq(w, 1, k)
    BY <1>7
  <1>9. /\ w \in Seq(Character) /\ Len(w) \in Nat /\ Len(s) = k /\ k \in Nat /\ k >= 1 /\ k <= Len(w)
        /\ (\A i \in 1 .. k : s[i] = w[i]) /\ SubSeq(s, 1, n) = SubSeq(w, 1, n)
    BY <1>0, <1>8, ExactTexts, Beginning
  <1> DEFINE p == SubSeq(s, 1, n)
  <1>10. p \in Seq(Character) /\ SignLike(p)
    <2>1. p \in Seq(Character) /\ Len(p) = n /\ \A i \in 1 .. n : p[i] = s[i] /\ i \in DOMAIN s
      BY <1>0, Beginning
    <2> HIDE DEF p
    <2> QED  BY <1>0, <1>6, <2>1 DEF SignLike
  <1>11. p \notin FixedTexts
    <2>1. CASE w \in WordTexts
      <3>1. 1 \in DOMAIN s /\ 1 \in DOMAIN w /\ s[1] = w[1]
        BY <1>9
      <3>2. WordLike(w)
        BY <2>1, ExactTexts
      <3> QED  BY <1>6, <3>1, <3>2, Zenon DEF WordLike, SignLike, AllIn
    <2>2. CASE w \in FixedTexts \ WordTexts
      <3>1. n \in 1 .. Len(w) /\ k \in 1 .. Len(w) /\ n <= k
        BY <1>0, <1>9
      <3>2. SubSeq(w, 1, n) \in FixedTexts => SubSeq(w, 1, k) \in FixedTexts
        BY <2>2, <3>1, SpellingAssumption
      <3> QED  BY <1>5, <1>8, <1>9, <3>2
    <2>3. CASE w = OpenComment
      <3>1. Len(w) = 2 /\ w[1] = "/"
        BY <2>3 DEF OpenComment
      <3>2. CASE k = 1
        <4>1. s = <<"/">>
          <5>1. Len(s) = 1 /\ s[1] = "/"
            BY <1>9, <3>1, <3>2
          <5> QED  BY <5>1
        <4> QED  BY <1>5, <4>1, SpellingAssumption
      <3>3. CASE k = 2
        <4>1. s = w
          BY <1>8, <1>9, <3>1, <3>3, SubSeqFull
        <4> QED  BY <1>1, <2>3, <4>1
      <3> QED  BY <1>9, <3>1, <3>2, <3>3
    <2> QED  BY <2>1, <2>2, <2>3 DEF Exact
  <1> HIDE DEF p
  <1> QED  BY <1>10, <1>11, Forms, Kinds DEF p

\* No white space is read into a lexeme, and no slash but at the beginning of one that it
\* is, or that opens a comment.
LEMMA SpacesAndSlashes ==
    ASSUME NEW s \in Seq(Character), StateOf(s) # Nowhere, NEW i \in DOMAIN s
    PROVE  s[i] \notin Space /\ (s[i] = "/" => s = <<"/">> \/ s = OpenComment)
  <1>1. CASE s \in Beginnings
    <2>1. PICK w \in Exact : \E n \in 0 .. Len(w) : s = SubSeq(w, 1, n)
      BY <1>1 DEF Beginnings
    <2>2. PICK n \in 0 .. Len(w) : s = SubSeq(w, 1, n)
      BY <2>1
    <2>3. w \in Seq(Character) /\ Len(s) = n /\ (\A m \in 1 .. n : s[m] = w[m])
      BY <2>2, ExactTexts, Beginning
    <2>4. i \in 1 .. n /\ i \in DOMAIN w /\ s[i] = w[i] /\ n \in Nat
      BY <2>3
    <2>5. CASE w \in WordTexts
      <3>1. w[i] \in Letter
        BY <2>4, <2>5, ExactTexts, Zenon DEF WordLike, AllIn
      <3> QED  BY <2>4, <3>1, Classes
    <2>6. CASE w \in FixedTexts \ WordTexts
      <3>1. w[i] \notin Space /\ (w[i] = "/" => w = <<"/">>)
        BY <2>4, <2>6, SpellingAssumption
      <3>2. ASSUME w = <<"/">> PROVE s = <<"/">>
        <4>1. Len(w) = 1 /\ w[1] = "/"
          BY <3>2
        <4>2. n = 1
          BY <2>2, <2>4, <4>1
        <4>3. Len(s) = 1 /\ s[1] = "/"
          BY <2>3, <4>1, <4>2
        <4> QED  BY <4>3
      <3> QED  BY <2>4, <3>1, <3>2
    <2>7. CASE w = OpenComment
      <3>1. Len(w) = 2 /\ w[1] = "/" /\ w[2] = "*"
        BY <2>7 DEF OpenComment
      <3>2. w[i] \notin Space
        BY <2>4, <3>1, Classes
      <3>3. CASE n = 1
        <4>1. s = <<"/">>
          BY <2>3, <3>1, <3>3
        <4> QED  BY <2>4, <3>2, <4>1
      <3>4. CASE n = 2
        <4>1. s = w
          BY <2>2, <2>3, <3>1, <3>4, SubSeqFull
        <4> QED  BY <2>4, <2>7, <3>2, <4>1
      <3>5. n \in 1 .. 2
        BY <2>4, <3>1
      <3> QED  BY <3>3, <3>4, <3>5
    <2> QED  BY <2>5, <2>6, <2>7 DEF Exact
  <1>2. CASE s \notin Beginnings
    <2>1. IdentLike(s) \/ NumberLike(s) \/ InvalidLike(s)
      BY <1>2 DEF StateOf
    <2>2. s[i] \in Letter \cup Digit
      <3>1. InvalidLike(s) => s[i] \in Letter \cup Digit
        <4>1. i = Len(s) \/ i \in 1 .. Len(s) - 1
          OBVIOUS
        <4> QED  BY <4>1, Zenon DEF InvalidLike
      <3> QED  BY <2>1, <3>1 DEF IdentLike, NumberLike, AllIn
    <2> QED  BY <2>2, Classes
  <1> QED  BY <1>1, <1>2

-----------------------------------------------------------------------------
(* The comments of a text.                                                 *)

LEMMA ClosingIs ==
    ASSUME NEW t \in Seq(Character), NEW o \in 1 .. Len(t) - 1
    PROVE  /\ Closing(t, o) \in o + 3 .. Len(t) + 1 \/ (Closing(t, o) = Len(t) + 1 /\ Closing(t, o) >= o + 2)
           /\ Closing(t, o) <= Len(t) => /\ Closing(t, o) >= o + 3
                                         /\ t[Closing(t, o) - 1] = "*" /\ t[Closing(t, o)] = "/"
           /\ \A j \in o + 2 .. Len(t) - 1 : t[j] = "*" /\ t[j + 1] = "/" => Closing(t, o) <= j + 1
  <1> DEFINE closes == Places(t, CloseComment, o + 2)
  <1>1. Len(t) \in Nat /\ o \in Nat /\ o <= Len(t) - 1
    OBVIOUS
  <1>2. \A j \in o + 2 .. Len(t) - 1 : j \in closes <=> t[j] = "*" /\ t[j + 1] = "/"
    <2>1. \A x, y : <<x, y>> = CloseComment <=> x = "*" /\ y = "/"
      BY DEF CloseComment
    <2> QED  BY <2>1, Zenon DEF Places
  <1>3. closes \subseteq o + 2 .. Len(t) - 1
    BY DEF Places
  <1> HIDE DEF closes
  <1>4. CASE closes = {}
    <2>1. Closing(t, o) = Len(t) + 1
      BY <1>4 DEF Closing, closes
    <2> QED  BY <1>1, <1>2, <1>4, <2>1
  <1>5. CASE closes # {}
    <2>1. closes \in SUBSET Nat
      BY <1>1, <1>3
    <2>2. PICK m \in closes : m = Min(closes) /\ \A k \in closes : m <= k
      BY <1>5, <2>1, MinOf
    <2>3. Closing(t, o) = m + 1
      BY <1>5, <2>2 DEF Closing, closes
    <2>4. m \in o + 2 .. Len(t) - 1 /\ t[m] = "*" /\ t[m + 1] = "/"
      BY <1>2, <1>3
    <2>5. \A j \in o + 2 .. Len(t) - 1 : t[j] = "*" /\ t[j + 1] = "/" => m + 1 <= j + 1
      <3>1. ASSUME NEW j \in o + 2 .. Len(t) - 1, t[j] = "*", t[j + 1] = "/" PROVE m + 1 <= j + 1
        <4>1. m <= j
          BY <1>2, <2>2, <3>1
        <4> QED  BY <1>1, <2>4, <4>1
      <3> QED  BY <3>1
    <2>6. m + 1 - 1 = m /\ m + 1 \in o + 3 .. Len(t) + 1
      BY <1>1, <2>4
    <2> QED  BY <1>1, <2>3, <2>4, <2>5, <2>6
  <1> QED  BY <1>4, <1>5

Opens(t, i) == Places(t, OpenComment, i)

LEMMA OpensIs ==
    ASSUME NEW t \in Seq(Character), NEW i \in Nat \ {0}
    PROVE  /\ Opens(t, i) \subseteq i .. Len(t) - 1
           /\ \A j \in i .. Len(t) - 1 : j \in Opens(t, i) <=> t[j] = "/" /\ t[j + 1] = "*"
           /\ Opens(t, i) # {} => /\ Min(Opens(t, i)) \in Opens(t, i)
                                  /\ \A j \in Opens(t, i) : Min(Opens(t, i)) <= j
                                  /\ Min(Opens(t, i)) \in i .. Len(t) - 1
  <1>1. \A j \in i .. Len(t) - 1 : j \in Opens(t, i) <=> t[j] = "/" /\ t[j + 1] = "*"
    <2>1. \A x, y : <<x, y>> = OpenComment <=> x = "/" /\ y = "*"
      BY DEF OpenComment
    <2> QED  BY <2>1, Zenon DEF Opens, Places
  <1>2. Opens(t, i) \subseteq i .. Len(t) - 1
    BY DEF Opens, Places
  <1>3. Opens(t, i) \in SUBSET Nat
    BY <1>2
  <1> QED  BY <1>1, <1>2, <1>3, MinOf

\* What the definition by recursion gives at each place.
LEMMA CommentsFromIs ==
    ASSUME NEW t \in Seq(Character)
    PROVE  /\ CommentsFrom(t) \in [1 .. Len(t) + 2 -> SUBSET (Nat \X Nat)]
           /\ \A i \in 1 .. Len(t) + 2 :
                 CommentsFrom(t)[i] =
                     IF Opens(t, i) = {} THEN {}
                     ELSE {<<Min(Opens(t, i)), Closing(t, Min(Opens(t, i)))>>}
                          \cup CommentsFrom(t)[Closing(t, Min(Opens(t, i))) + 1]
  <1> DEFINE n == Len(t) + 1
             S == SUBSET (Nat \X Nat)
             open(i) == Min(Opens(t, i))
             close(i) == Closing(t, open(i))
             nx == [i \in 1 .. n |-> IF Opens(t, i) = {} THEN i + 1 ELSE close(i) + 1]
             g == [p \in (1 .. n) \X S |-> IF Opens(t, p[1]) = {} THEN {}
                                           ELSE {<<open(p[1]), close(p[1])>>} \cup p[2]]
             Body(f, i) == IF Opens(t, i) = {} THEN {} ELSE {<<open(i), close(i)>>} \cup f[close(i) + 1]
             Defines(f) == f = [i \in 1 .. Len(t) + 2 |-> Body(f, i)]
  <1>1. Len(t) \in Nat /\ n \in Nat /\ n + 1 = Len(t) + 2
    OBVIOUS
  <1>2. ASSUME NEW i \in 1 .. Len(t) + 2, Opens(t, i) # {}
        PROVE  /\ open(i) \in i .. Len(t) - 1 /\ close(i) \in Nat /\ open(i) \in Nat
               /\ close(i) + 1 \in i + 1 .. n + 1 /\ i \in 1 .. n
    <2>1. open(i) \in i .. Len(t) - 1
      BY <1>2, OpensIs
    <2>2. PICK o \in 1 .. Len(t) - 1 : o = open(i) /\ o >= i
      BY <1>1, <2>1
    <2>3. PICK c \in Nat : c = Closing(t, o) /\ c >= o + 2 /\ c <= Len(t) + 1
      BY <1>1, ClosingIs
    <2>4. close(i) = c
      BY <2>2, <2>3
    <2> QED  BY <1>1, <2>1, <2>2, <2>3, <2>4
  <1>3. Opens(t, Len(t) + 2) = {}
    BY <1>1, OpensIs
  <1>4. \A i \in 1 .. n : i \in 1 .. Len(t) + 2
    BY <1>1
  <1> HIDE DEF open, close, n
  <1>5. \A i \in 1 .. n : nx[i] \in i + 1 .. n + 1
    <2>1. ASSUME NEW i \in 1 .. n PROVE nx[i] \in i + 1 .. n + 1
      <3>1. CASE Opens(t, i) = {}
        BY <1>1, <3>1
      <3>2. CASE Opens(t, i) # {}
        <4>1. nx[i] = close(i) + 1
          BY <3>2
        <4> QED  BY <1>2, <1>4, <3>2, <4>1
      <3> QED  BY <3>1, <3>2
    <2> QED  BY <2>1
  <1>6. g \in [(1 .. n) \X S -> S]
    <2>1. ASSUME NEW p \in (1 .. n) \X S
          PROVE  (IF Opens(t, p[1]) = {} THEN {} ELSE {<<open(p[1]), close(p[1])>>} \cup p[2]) \in S
      <3>1. p[1] \in 1 .. n /\ p[2] \in S
        OBVIOUS
      <3>2. Opens(t, p[1]) # {} => open(p[1]) \in Nat /\ close(p[1]) \in Nat
        BY <1>2, <1>4, <3>1
      <3> QED  BY <3>1, <3>2
    <2> QED  BY <2>1
  <1>7. {} \in S
    OBVIOUS
  <1>8. PICK f \in [1 .. n + 1 -> S] : f[n + 1] = {} /\ Descends(f, 1, n, nx, g)
    <2> HIDE DEF S, nx, g
    <2> QED  BY <1>1, <1>5, <1>6, <1>7, JumpsExist
  <1>9. ASSUME NEW i \in 1 .. Len(t) + 2 PROVE f[i] = Body(f, i)
    <2>1. CASE i = n + 1
      BY <1>1, <1>3, <1>8, <2>1
    <2>2. CASE i # n + 1
      <3>1. i \in 1 .. n
        BY <1>1, <2>2
      <3>2. nx[i] \in 1 .. n + 1
        BY <1>1, <1>5, <3>1
      <3>3. f[nx[i]] \in S
        BY <3>2
      <3>4. f[i] = g[<<i, f[nx[i]]>>]
        BY <1>8, <3>1, Zenon DEF Descends
      <3>5. f[i] = IF Opens(t, i) = {} THEN {} ELSE {<<open(i), close(i)>>} \cup f[nx[i]]
        BY <3>1, <3>3, <3>4
      <3>6. Opens(t, i) # {} => nx[i] = close(i) + 1
        BY <3>1
      <3> QED  BY <3>5, <3>6
    <2> QED  BY <2>1, <2>2
  <1>10. Defines(f)
    <2>1. f = [i \in 1 .. Len(t) + 2 |-> f[i]]
      BY <1>1
    <2> QED  BY <1>9, <2>1
  <1>11. CommentsFrom(t) = CHOOSE h : Defines(h)
    BY DEF CommentsFrom, open, close, Opens
  <1>12. Defines(CommentsFrom(t))
    <2> HIDE DEF Defines
    <2> QED  BY <1>10, <1>11, Zenon
  <1> DEFINE h == CommentsFrom(t)
  <1>13. \A i \in 1 .. Len(t) + 2 : h[i] = Body(h, i)
    <2> HIDE DEF h
    <2> QED  BY <1>12, Zenon DEF h
  <1>14. \A i \in 1 .. n + 1 : h[i] = f[i]
    <2> HIDE DEF h
    <2> DEFINE T == {i \in 1 .. n + 1 : h[i] = f[i]}
    <2>1. n + 1 \in T
      <3>1. Opens(t, n + 1) = {} /\ n + 1 \in 1 .. Len(t) + 2 /\ n + 1 \in 1 .. n + 1
        BY <1>1, <1>3
      <3>2. h[n + 1] = {}
        BY <1>13, <3>1
      <3> QED  BY <1>8, <3>1, <3>2
    <2>2. ASSUME NEW i \in 1 .. n, \A j \in i + 1 .. n + 1 : j \in T PROVE i \in T
      <3>1. i \in 1 .. Len(t) + 2 /\ i \in 1 .. n + 1
        BY <1>1, <1>4
      <3>2. h[i] = Body(h, i) /\ f[i] = Body(f, i)
        BY <1>9, <1>13, <3>1
      <3>3. CASE Opens(t, i) = {}
        BY <3>1, <3>2, <3>3
      <3>4. CASE Opens(t, i) # {}
        <4>1. h[close(i) + 1] = f[close(i) + 1]
          BY <1>2, <2>2, <3>1, <3>4
        <4> QED  BY <3>1, <3>2, <4>1
      <3> QED  BY <3>3, <3>4
    <2>3. T = 1 .. n + 1
      <3>1. T \in SUBSET (1 .. n + 1)
        OBVIOUS
      <3> HIDE DEF T
      <3> QED  BY <1>1, <2>1, <2>2, <3>1, DownTo
    <2> QED  BY <2>3
  <1>15. \A i \in 1 .. Len(t) + 2 : h[i] \in S
    <2>1. \A i \in 1 .. n + 1 : f[i] \in S
      OBVIOUS
    <2> HIDE DEF h, S
    <2> QED  BY <1>1, <1>14, <2>1
  <1>16. h = [i \in 1 .. Len(t) + 2 |-> Body(h, i)]
    BY <1>12, Zenon
  <1>17. h \in [1 .. Len(t) + 2 -> S]
    <2>1. h = [i \in 1 .. Len(t) + 2 |-> h[i]]
      <3> HIDE DEF h
      <3> QED  BY <1>16
    <2> HIDE DEF h, S
    <2> QED  BY <1>15, <2>1
  <1> QED  BY <1>13, <1>17 DEF open, close

\* A comment begins where it is looked for or later, and ends after that.
LEMMA CommentsAfter ==
    ASSUME NEW t \in Seq(Character), NEW i \in 1 .. Len(t) + 2, NEW c \in CommentsFrom(t)[i]
    PROVE  /\ c[1] \in i .. Len(t) - 1 /\ c[2] \in Nat
           /\ c[1] + 2 <= c[2] /\ c[2] <= Len(t) + 1
  <1> DEFINE n == Len(t) + 1
             Good(k) == \A d \in CommentsFrom(t)[k] : /\ d[1] \in k .. Len(t) - 1 /\ d[2] \in Nat
                                                      /\ d[1] + 2 <= d[2] /\ d[2] <= Len(t) + 1
             T == {k \in 1 .. n + 1 : Good(k)}
  <1>1. Len(t) \in Nat /\ n \in Nat /\ n + 1 = Len(t) + 2
    OBVIOUS
  <1>2. ASSUME NEW k \in 1 .. n + 1, \A j \in k + 1 .. n + 1 : Good(j) PROVE Good(k)
    <2>1. k \in 1 .. Len(t) + 2
      BY <1>1
    <2>2. CASE Opens(t, k) = {}
      BY <2>1, <2>2, CommentsFromIs
    <2>3. CASE Opens(t, k) # {}
      <3>1. PICK o \in 1 .. Len(t) - 1 : o = Min(Opens(t, k)) /\ o \in k .. Len(t) - 1
        BY <2>1, <2>3, OpensIs
      <3>2. PICK e \in Nat : e = Closing(t, o) /\ e >= o + 2 /\ e <= Len(t) + 1
        BY <1>1, ClosingIs
      <3>3. CommentsFrom(t)[k] = {<<o, e>>} \cup CommentsFrom(t)[e + 1]
        BY <2>1, <2>3, <3>1, <3>2, CommentsFromIs
      <3>4. e + 1 \in k + 1 .. n + 1 /\ o + 2 <= e
        BY <1>1, <3>1, <3>2
      <3>5. Good(e + 1)
        BY <1>2, <3>4
      <3>6. \A x \in e + 1 .. Len(t) - 1 : x \in k .. Len(t) - 1
        BY <3>1, <3>2
      <3> QED  BY <3>1, <3>2, <3>3, <3>4, <3>5, <3>6, SMTT(40)
    <2> QED  BY <2>2, <2>3
  <1>3. n + 1 \in T
    <2>1. n + 1 \in 1 .. n + 1 /\ \A j \in n + 1 + 1 .. n + 1 : FALSE
      BY <1>1
    <2> QED  BY <1>2, <2>1
  <1>4. T = 1 .. n + 1
    <2>1. T \in SUBSET (1 .. n + 1)
      OBVIOUS
    <2>2. ASSUME NEW k \in 1 .. n, \A j \in k + 1 .. n + 1 : j \in T PROVE k \in T
      <3>1. k \in 1 .. n + 1
        OBVIOUS
      <3> QED  BY <1>2, <2>2, <3>1
    <2> HIDE DEF T
    <2> QED  BY <1>1, <1>3, <2>1, <2>2, DownTo
  <1>5. Good(i)
    <2>1. i \in T
      BY <1>1, <1>4
    <2> QED  BY <2>1
  <1> QED  BY <1>5

OpensAt(t, i) == i \in 1 .. Len(t) - 1 /\ t[i] = "/" /\ t[i + 1] = "*"

LEMMA NoCommentBetween ==
    ASSUME NEW t \in Seq(Character), NEW a \in 1 .. Len(t) + 2, NEW b \in a .. Len(t) + 2,
           \A i \in a .. b - 1 : ~OpensAt(t, i)
    PROVE  CommentsFrom(t)[a] = CommentsFrom(t)[b]
  <1>0. b \in 1 .. Len(t) + 2 /\ Len(t) \in Nat /\ a \in Nat \ {0} /\ b \in Nat \ {0} /\ a <= b
    OBVIOUS
  <1>1. ASSUME NEW j \in Opens(t, a) PROVE j \in Opens(t, b)
    <2>1. j \in a .. Len(t) - 1 /\ t[j] = "/" /\ t[j + 1] = "*"
      BY <1>0, OpensIs
    <2>2. j \in 1 .. Len(t) - 1
      BY <1>0, <2>1
    <2>3. OpensAt(t, j)
      BY <2>1, <2>2 DEF OpensAt
    <2>4. j \in b .. Len(t) - 1
      BY <1>0, <2>1, <2>3
    <2> QED  BY <1>0, <2>1, <2>4, OpensIs
  <1>2. ASSUME NEW j \in Opens(t, b) PROVE j \in Opens(t, a)
    <2>1. j \in b .. Len(t) - 1 /\ t[j] = "/" /\ t[j + 1] = "*"
      BY <1>0, OpensIs
    <2>2. j \in a .. Len(t) - 1
      BY <1>0, <2>1
    <2> QED  BY <1>0, <2>1, <2>2, OpensIs
  <1>3. Opens(t, a) = Opens(t, b)
    BY <1>1, <1>2
  <1> DEFINE Is(i) == CommentsFrom(t)[i] =
                          IF Opens(t, i) = {} THEN {}
                          ELSE {<<Min(Opens(t, i)), Closing(t, Min(Opens(t, i)))>>}
                               \cup CommentsFrom(t)[Closing(t, Min(Opens(t, i))) + 1]
  <1>4. Is(a) /\ Is(b)
    BY <1>0, CommentsFromIs, Zenon
  <1> QED  BY <1>3, <1>4, Zenon

LEMMA ACommentAt ==
    ASSUME NEW t \in Seq(Character), NEW o, OpensAt(t, o)
    PROVE  /\ CommentsFrom(t)[o] = {<<o, Closing(t, o)>>} \cup CommentsFrom(t)[Closing(t, o) + 1]
           /\ o \in 1 .. Len(t) - 1
           /\ Closing(t, o) \in Nat /\ Closing(t, o) >= o + 2 /\ Closing(t, o) <= Len(t) + 1
  <1>1. o \in 1 .. Len(t) - 1 /\ o \in Nat \ {0} /\ o \in o .. Len(t) - 1 /\ o \in 1 .. Len(t) + 2
        /\ t[o] = "/" /\ t[o + 1] = "*"
    BY DEF OpensAt
  <1>2. o \in Opens(t, o) /\ Opens(t, o) # {}
    BY <1>1, OpensIs
  <1>3. Min(Opens(t, o)) = o
    <2>1. PICK m : m = Min(Opens(t, o)) /\ m \in o .. Len(t) - 1 /\ m <= o
      BY <1>1, <1>2, OpensIs
    <2>2. m = o
      BY <1>1, <2>1
    <2> QED  BY <2>1, <2>2
  <1>4. Closing(t, o) \in Nat /\ Closing(t, o) >= o + 2 /\ Closing(t, o) <= Len(t) + 1
    BY <1>1, ClosingIs
  <1> QED  BY <1>1, <1>2, <1>3, <1>4, CommentsFromIs

\* The comments before a place and those after are all the comments.
Divides(t, h) == /\ CommentsFrom(t)[h] \subseteq Comments(t)
                 /\ \A c \in Comments(t) : c \in CommentsFrom(t)[h] \/ c[2] < h

LEMMA DividesBeyond ==
    ASSUME NEW t \in Seq(Character), NEW a \in 1 .. Len(t) + 2, NEW b \in a .. Len(t) + 2,
           Divides(t, a), \A i \in a .. b - 1 : ~OpensAt(t, i)
    PROVE  /\ Divides(t, b)
           /\ \A i \in a .. b - 1, c \in Comments(t) : i \notin c[1] .. c[2]
  <1>0. Len(t) \in Nat /\ a \in Nat /\ b \in Nat /\ a <= b /\ 1 \in 1 .. Len(t) + 2 /\ b \in 1 .. Len(t) + 2
    OBVIOUS
  <1>1. CommentsFrom(t)[a] = CommentsFrom(t)[b]
    BY NoCommentBetween
  <1>2. \A c \in Comments(t) : c[1] \in Nat /\ c[2] \in Nat
    <2>1. ASSUME NEW c \in Comments(t) PROVE c[1] \in Nat /\ c[2] \in Nat
      <3>1. c[1] \in 1 .. Len(t) - 1 /\ c[2] \in Nat
        BY <1>0, CommentsAfter DEF Comments
      <3> QED  BY <3>1
    <2> QED  BY <2>1
  <1>3. ASSUME NEW c \in Comments(t), ~(c \in CommentsFrom(t)[b]) PROVE c[2] < a /\ c[2] < b
    <2>1. c[2] < a
      BY <1>1, <1>3 DEF Divides
    <2> QED  BY <1>0, <1>2, <2>1
  <1>4. ASSUME NEW c \in CommentsFrom(t)[b] PROVE c[1] >= b
    <2>1. c[1] \in b .. Len(t) - 1
      BY <1>0, CommentsAfter
    <2> QED  BY <1>0, <2>1
  <1>5. ASSUME NEW i \in a .. b - 1, NEW c \in Comments(t) PROVE i \notin c[1] .. c[2]
    <2>1. CASE c \in CommentsFrom(t)[b]
      BY <1>0, <1>2, <1>4, <2>1
    <2>2. CASE ~(c \in CommentsFrom(t)[b])
      BY <1>0, <1>2, <1>3, <2>2
    <2> QED  BY <2>1, <2>2
  <1> QED  BY <1>1, <1>3, <1>5 DEF Divides

LEMMA DividesAt ==
    ASSUME NEW t \in Seq(Character), NEW o, OpensAt(t, o), Divides(t, o)
    PROVE  /\ Divides(t, Closing(t, o) + 1)
           /\ <<o, Closing(t, o)>> \in Comments(t)
           /\ \A i \in o .. Closing(t, o), c \in Comments(t) :
                 i \in c[1] .. c[2] => c = <<o, Closing(t, o)>>
  <1>0. /\ CommentsFrom(t)[o] = {<<o, Closing(t, o)>>} \cup CommentsFrom(t)[Closing(t, o) + 1]
        /\ o \in 1 .. Len(t) - 1
        /\ Closing(t, o) \in Nat /\ Closing(t, o) >= o + 2 /\ Closing(t, o) <= Len(t) + 1
    BY ACommentAt
  <1>1. PICK e \in Nat : e = Closing(t, o)
    BY <1>0
  <1>2. /\ CommentsFrom(t)[o] = {<<o, e>>} \cup CommentsFrom(t)[e + 1]
        /\ o \in Nat /\ Len(t) \in Nat /\ e >= o + 2 /\ e <= Len(t) + 1 /\ e + 1 \in 1 .. Len(t) + 2
        /\ 1 \in 1 .. Len(t) + 2
    BY <1>0, <1>1
  <1>3. <<o, e>> \in Comments(t) /\ CommentsFrom(t)[e + 1] \subseteq Comments(t)
    BY <1>2 DEF Divides
  <1>4. \A c \in Comments(t) : c[1] \in Nat /\ c[2] \in Nat
    <2>1. ASSUME NEW c \in Comments(t) PROVE c[1] \in Nat /\ c[2] \in Nat
      <3>1. c[1] \in 1 .. Len(t) - 1 /\ c[2] \in Nat
        BY <1>2, CommentsAfter DEF Comments
      <3> QED  BY <3>1
    <2> QED  BY <2>1
  <1>5. ASSUME NEW c \in Comments(t) PROVE c = <<o, e>> \/ c \in CommentsFrom(t)[e + 1] \/ c[2] < o
    BY <1>2 DEF Divides
  <1>6. ASSUME NEW c \in CommentsFrom(t)[e + 1] PROVE c[1] > e
    <2>1. c[1] \in e + 1 .. Len(t) - 1
      BY <1>2, CommentsAfter
    <2> QED  BY <1>2, <2>1
  <1>7. ASSUME NEW c \in Comments(t) PROVE c \in CommentsFrom(t)[e + 1] \/ c[2] < e + 1
    <2>1. CASE c = <<o, e>>
      BY <1>2, <2>1
    <2>2. CASE c[2] < o
      BY <1>2, <1>4, <2>2
    <2> QED  BY <1>5, <2>1, <2>2
  <1>8. ASSUME NEW i \in o .. e, NEW c \in Comments(t), i \in c[1] .. c[2] PROVE c = <<o, e>>
    <2>1. ~(c[2] < o)
      BY <1>2, <1>4, <1>8
    <2>2. ~(c[1] > e)
      BY <1>2, <1>4, <1>8
    <2> QED  BY <1>5, <1>6, <2>1, <2>2
  <1>9. Divides(t, e + 1)
    BY <1>3, <1>7 DEF Divides
  <1> QED  BY <1>1, <1>3, <1>8, <1>9

-----------------------------------------------------------------------------
(* What a text means, and what is kept of it.                              *)

\* No fixed text and nothing within the limits is longer than Longest.
LEMMA LongestIs ==
    /\ Longest \in Nat /\ MaxIdent <= Longest /\ MaxDigits <= Longest
    /\ \A w \in Exact : Len(w) <= Longest
  <1> DEFINE L == {MaxIdent, MaxDigits} \cup {Len(w) : w \in Exact}
             b == MaxIdent + MaxDigits + 9
  <1>1. MaxIdent \in Nat /\ MaxDigits \in Nat /\ b \in Nat /\ MaxIdent <= b /\ MaxDigits <= b /\ 9 <= b
    BY LimitsAssumption
  <1>2. \A w \in Exact : Len(w) \in Nat /\ Len(w) <= 9
    BY ExactTexts
  <1> HIDE DEF b
  <1>3. L \in SUBSET Nat /\ L # {}
    BY <1>1, <1>2
  <1>4. \A k \in L : k <= b
    <2>1. ASSUME NEW w \in Exact PROVE Len(w) <= b
      BY <1>1, <1>2
    <2> QED  BY <1>1, <2>1
  <1>5. MaxIdent \in L /\ MaxDigits \in L /\ \A w \in Exact : Len(w) \in L
    OBVIOUS
  <1>6. Longest = Max(L)
    BY DEF Longest
  <1> HIDE DEF L
  <1>7. Max(L) \in L /\ \A k \in L : k <= Max(L)
    BY <1>1, <1>3, <1>4, MaxOf
  <1> QED  BY <1>3, <1>5, <1>6, <1>7

LEMMA Stretch ==
    ASSUME NEW t \in Seq(Character), NEW i \in 1 .. Len(t) + 1, NEW j \in i - 1 .. Len(t)
    PROVE  /\ SubSeq(t, i, j) \in Seq(Character) /\ Len(SubSeq(t, i, j)) = j - i + 1
           /\ \A k \in 1 .. j - i + 1 : SubSeq(t, i, j)[k] = t[i + k - 1]
           /\ \A n \in i - 1 .. j : SubSeq(SubSeq(t, i, j), 1, n - i + 1) = SubSeq(t, i, n)
  <1>1. Len(t) \in Nat /\ i \in Nat /\ j \in Int /\ j - i + 1 \in Nat /\ i >= 1 /\ j <= Len(t)
    OBVIOUS
  <1>2. ASSUME NEW n \in i - 1 .. j
        PROVE  /\ SubSeq(t, i, n) \in Seq(Character) /\ Len(SubSeq(t, i, n)) = n - i + 1
               /\ \A k \in 1 .. n - i + 1 : SubSeq(t, i, n)[k] = t[i + k - 1]
    <2>0. n - i + 1 \in Nat /\ n <= Len(t)
      BY <1>1
    <2>1. SubSeq(t, i, n) = [k \in 1 .. n - i + 1 |-> t[i + k - 1]]
      BY <1>1, <2>0
    <2>2. \A k \in 1 .. n - i + 1 : i + k - 1 \in 1 .. Len(t)
      BY <1>1, <2>0
    <2>3. \A k \in 1 .. n - i + 1 : t[i + k - 1] \in Character
      BY <2>2
    <2> QED  BY <2>0, <2>1, <2>3, IsASeq
  <1>3. j \in i - 1 .. j
    BY <1>1
  <1> DEFINE s == SubSeq(t, i, j)
  <1>4. s \in Seq(Character) /\ Len(s) = j - i + 1 /\ \A k \in 1 .. j - i + 1 : s[k] = t[i + k - 1]
    BY <1>2, <1>3
  <1> HIDE DEF s
  <1>5. ASSUME NEW n \in i - 1 .. j PROVE SubSeq(s, 1, n - i + 1) = SubSeq(t, i, n)
    <2> DEFINE p == SubSeq(s, 1, n - i + 1)
               q == SubSeq(t, i, n)
    <2>1. n - i + 1 \in 0 .. Len(s)
      BY <1>1, <1>4
    <2>2. p \in Seq(Character) /\ Len(p) = n - i + 1 /\ \A k \in 1 .. n - i + 1 : p[k] = s[k]
      BY <1>4, <2>1, Beginning
    <2>3. q \in Seq(Character) /\ Len(q) = n - i + 1 /\ \A k \in 1 .. n - i + 1 : q[k] = t[i + k - 1]
      BY <1>2
    <2>4. \A k \in 1 .. n - i + 1 : k \in 1 .. j - i + 1
      BY <1>1
    <2>5. \A k \in 1 .. Len(p) : p[k] = q[k]
      BY <1>4, <2>2, <2>3, <2>4
    <2> HIDE DEF p, q
    <2>6. p = q
      BY <2>2, <2>3, <2>5, SeqEqual
    <2> QED  BY <2>6 DEF p, q
  <1> QED  BY <1>4, <1>5 DEF s

\* Where the lexemes end that begin at a place.
LEMMA EndsIs ==
    ASSUME NEW t \in Seq(Character), NEW i \in 1 .. Len(t)
    PROVE  /\ Ends(t, i) \subseteq i .. Len(t)
           /\ \A j \in i .. Len(t) : j \in Ends(t, i) <=> j <= i + Longest /\ FormOf(SubSeq(t, i, j)) # NoToken
           /\ Ends(t, i) # {} => /\ Max(Ends(t, i)) \in Ends(t, i)
                                 /\ \A j \in Ends(t, i) : j <= Max(Ends(t, i))
  <1> DEFINE B == {Len(t), i + Longest}
  <1>1. Len(t) \in Nat /\ i \in Nat /\ i + Longest \in Nat
    BY LongestIs
  <1>2. PICK m \in Nat : m = Min(B) /\ m \in B /\ m <= Len(t) /\ m <= i + Longest
    <2>1. B \in SUBSET Nat /\ B # {} /\ Len(t) \in B /\ i + Longest \in B
      BY <1>1
    <2> HIDE DEF B
    <2> QED  BY <2>1, MinOf
  <1>3. Ends(t, i) = {j \in i .. m : FormOf(SubSeq(t, i, j)) # NoToken}
    BY <1>2 DEF Ends
  <1>4. Ends(t, i) \subseteq i .. Len(t)
    BY <1>1, <1>2, <1>3
  <1>5. \A j \in i .. Len(t) : j \in i .. m <=> j <= i + Longest
    BY <1>1, <1>2
  <1>6. \A j \in i .. Len(t) : j \in Ends(t, i) <=> j <= i + Longest /\ FormOf(SubSeq(t, i, j)) # NoToken
    BY <1>3, <1>5, Zenon
  <1>7. Ends(t, i) \in SUBSET Nat /\ \A j \in Ends(t, i) : j <= Len(t)
    BY <1>1, <1>4
  <1> QED  BY <1>1, <1>4, <1>6, <1>7, MaxOf

\* What a lexeme can be, and what is made of it.
Form == Reserved \cup Punctuation \cup {"identsym", "numbersym", "invalid", NoToken}
FoundToken == [type : Form, lexeme : Seq(Character), at : Nat]
Meaning == [tokens : Seq(FoundToken), ok : BOOLEAN]

LexemeAt(t, i) == SubSeq(t, i, Max(Ends(t, i)))
TokenAt(t, i) == [type |-> FormOf(LexemeAt(t, i)), lexeme |-> LexemeAt(t, i), at |-> i]
NoMeaning(t, i) == Ends(t, i) = {} \/ Wrong(LexemeAt(t, i))
Closed(t) == \A c \in Comments(t) : c[2] <= Len(t)
MeantAt(t, f, i) ==
    IF i > Len(t) THEN Stop(Closed(t))
    ELSE IF i \in Skipped(t) THEN f[i + 1]
    ELSE IF NoMeaning(t, i) THEN Stop(FALSE)
    ELSE [tokens |-> <<TokenAt(t, i)>> \o f[i + Len(LexemeAt(t, i))].tokens,
          ok |-> f[i + Len(LexemeAt(t, i))].ok]

LEMMA FormType ==
    ASSUME NEW s \in Seq(Character)
    PROVE  FormOf(s) \in Form /\ (s \in FixedTexts => TypeOf[s] \in Reserved \cup Punctuation)
  <1>1. ASSUME s \in FixedTexts PROVE TypeOf[s] \in Reserved \cup Punctuation
    <2>1. \E x \in Reserved \cup Punctuation : Chars(x) = s
      BY <1>1 DEF FixedTexts, WordTexts
    <2> QED  BY <1>1, <2>1 DEF TypeOf
  <1> QED  BY <1>1, Forms DEF Form

LEMMA LexemeIs ==
    ASSUME NEW t \in Seq(Character), NEW i \in 1 .. Len(t), Ends(t, i) # {}
    PROVE  /\ LexemeAt(t, i) \in Seq(Character)
           /\ i + Len(LexemeAt(t, i)) \in i + 1 .. Len(t) + 1
           /\ TokenAt(t, i) \in FoundToken
  <1>1. PICK m \in Ends(t, i) : m = Max(Ends(t, i)) /\ m \in i .. Len(t)
    BY EndsIs
  <1>2. i \in Nat /\ Len(t) \in Nat /\ m \in Nat /\ i <= m /\ m <= Len(t) /\ i \in 1 .. Len(t) + 1 /\ m \in i - 1 .. Len(t)
    BY <1>1
  <1>3. LexemeAt(t, i) \in Seq(Character) /\ Len(LexemeAt(t, i)) = m - i + 1
    BY <1>1, <1>2, Stretch DEF LexemeAt
  <1>4. i + (m - i + 1) \in i + 1 .. Len(t) + 1
    BY <1>2
  <1>5. TokenAt(t, i) \in FoundToken
    BY <1>2, <1>3, FormType DEF TokenAt, FoundToken
  <1> QED  BY <1>3, <1>4, <1>5

\* What the definition by recursion gives at each place.
LEMMA MeantFromIs ==
    ASSUME NEW t \in Seq(Character), NEW i \in 1 .. Len(t) + 1
    PROVE  MeantFrom(t)[i] = MeantAt(t, MeantFrom(t), i) /\ MeantFrom(t)[i] \in Meaning
  <1> DEFINE n == Len(t)
             stuck(k) == k \in Skipped(t) \/ NoMeaning(t, k)
             nx == [k \in 1 .. n |-> IF stuck(k) THEN k + 1 ELSE k + Len(LexemeAt(t, k))]
             step(k, r) == IF k \in Skipped(t) THEN r
                           ELSE IF NoMeaning(t, k) THEN Stop(FALSE)
                           ELSE [tokens |-> <<TokenAt(t, k)>> \o r.tokens, ok |-> r.ok]
             g == [p \in (1 .. n) \X Meaning |-> step(p[1], p[2])]
             Defines(f) == f = [k \in 1 .. Len(t) + 1 |-> MeantAt(t, f, k)]
  <1>1. n \in Nat
    OBVIOUS
  <1>2. \A k \in 1 .. n : nx[k] \in k + 1 .. n + 1
    <2>1. ASSUME NEW k \in 1 .. n PROVE nx[k] \in k + 1 .. n + 1
      <3>1. CASE stuck(k)
        BY <1>1, <3>1
      <3>2. CASE ~stuck(k)
        <4>1. nx[k] = k + Len(LexemeAt(t, k))
          BY <3>2
        <4>2. Ends(t, k) # {}
          BY <3>2 DEF NoMeaning
        <4> QED  BY <4>1, <4>2, LexemeIs
      <3> QED  BY <3>1, <3>2
    <2> QED  BY <2>1
  <1>3. \A ok \in BOOLEAN : Stop(ok) \in Meaning
    BY EmptySeq DEF Stop, Meaning
  <1>4. ASSUME NEW k \in 1 .. n, NEW r \in Meaning PROVE step(k, r) \in Meaning
    <2>1. CASE k \in Skipped(t)
      BY <1>4, <2>1
    <2>2. CASE k \notin Skipped(t) /\ NoMeaning(t, k)
      BY <1>3, <2>2
    <2>3. CASE k \notin Skipped(t) /\ ~NoMeaning(t, k)
      <3>1. TokenAt(t, k) \in FoundToken
        BY <2>3, LexemeIs DEF NoMeaning
      <3>2. r.tokens \in Seq(FoundToken) /\ r.ok \in BOOLEAN
        BY <1>4 DEF Meaning
      <3>3. <<TokenAt(t, k)>> \o r.tokens \in Seq(FoundToken)
        <4>1. <<TokenAt(t, k)>> \in Seq(FoundToken)
          BY <3>1
        <4> QED  BY <3>2, <4>1, ConcatProperties
      <3>4. step(k, r) = [tokens |-> <<TokenAt(t, k)>> \o r.tokens, ok |-> r.ok]
        BY <2>3
      <3> HIDE DEF step
      <3> QED  BY <3>2, <3>3, <3>4 DEF Meaning
    <2> QED  BY <2>1, <2>2, <2>3
  <1>5. g \in [(1 .. n) \X Meaning -> Meaning]
    <2>1. \A p \in (1 .. n) \X Meaning : step(p[1], p[2]) \in Meaning
      <3> HIDE DEF step, n
      <3> QED  BY <1>4
    <2> HIDE DEF step
    <2> QED  BY <2>1
  <1>6. Stop(Closed(t)) \in Meaning
    BY <1>3 DEF Closed
  <1>7. PICK f \in [1 .. n + 1 -> Meaning] : f[n + 1] = Stop(Closed(t)) /\ Descends(f, 1, n, nx, g)
    <2> HIDE DEF nx, g
    <2> QED  BY <1>1, <1>2, <1>5, <1>6, JumpsExist
  <1>8. ASSUME NEW h, NEW k \in 1 .. n, h[nx[k]] \in Meaning
        PROVE  MeantAt(t, h, k) = step(k, h[nx[k]])
    <2>0. ~(k > Len(t))
      BY <1>1
    <2>1. CASE k \in Skipped(t)
      BY <2>0, <2>1 DEF MeantAt
    <2>2. CASE k \notin Skipped(t) /\ NoMeaning(t, k)
      BY <2>0, <2>2 DEF MeantAt
    <2>3. CASE k \notin Skipped(t) /\ ~NoMeaning(t, k)
      <3>1. nx[k] = k + Len(LexemeAt(t, k))
        BY <2>3
      <3> HIDE DEF nx
      <3> QED  BY <2>0, <2>3, <3>1 DEF MeantAt
    <2> QED  BY <2>1, <2>2, <2>3
  <1>9. ASSUME NEW k \in 1 .. n PROVE k + 1 \in 1 .. n + 1 /\ nx[k] \in 1 .. n + 1
    <2> HIDE DEF nx
    <2> QED  BY <1>1, <1>2
  <1>10. ASSUME NEW k \in 1 .. n + 1 PROVE f[k] = MeantAt(t, f, k)
    <2>1. CASE k = n + 1
      <3>1. k > Len(t)
        BY <1>1, <2>1
      <3> QED  BY <1>7, <2>1, <3>1 DEF MeantAt
    <2>2. CASE k # n + 1
      <3>1. k \in 1 .. n
        BY <1>1, <2>2
      <3>2. f[nx[k]] \in Meaning
        <4> HIDE DEF nx
        <4> QED  BY <1>9, <3>1
      <3>3. f[k] = g[<<k, f[nx[k]]>>]
        <4> HIDE DEF nx, g
        <4> QED  BY <1>7, <3>1, Zenon DEF Descends
      <3>4. f[k] = step(k, f[nx[k]])
        <4> HIDE DEF nx, step
        <4> QED  BY <3>1, <3>2, <3>3
      <3> HIDE DEF nx, step
      <3> QED  BY <1>8, <3>1, <3>2, <3>4
    <2> QED  BY <2>1, <2>2
  <1>11. Defines(f)
    <2>1. f = [k \in 1 .. Len(t) + 1 |-> f[k]]
      OBVIOUS
    <2> QED  BY <1>10, <2>1
  <1>12. MeantFrom(t) = CHOOSE h : Defines(h)
    BY ZenonT(60) DEF MeantFrom, MeantAt, NoMeaning, TokenAt, LexemeAt, Closed
  <1>13. Defines(MeantFrom(t))
    <2> HIDE DEF Defines
    <2> QED  BY <1>11, <1>12, Zenon
  <1> DEFINE h == MeantFrom(t)
  <1>14. \A k \in 1 .. n + 1 : h[k] = MeantAt(t, h, k)
    <2> HIDE DEF h
    <2> QED  BY <1>13, Zenon DEF h
  <1>15. \A k \in 1 .. n + 1 : h[k] \in Meaning
    <2> HIDE DEF h
    <2> DEFINE T == {k \in 1 .. n + 1 : h[k] \in Meaning}
    <2>1. n + 1 \in T
      <3>1. n + 1 > Len(t) /\ n + 1 \in 1 .. n + 1
        BY <1>1
      <3>2. h[n + 1] = Stop(Closed(t))
        BY <1>14, <3>1 DEF MeantAt
      <3> QED  BY <1>6, <3>1, <3>2
    <2>2. ASSUME NEW k \in 1 .. n, \A j \in k + 1 .. n + 1 : j \in T PROVE k \in T
      <3>1. k \in 1 .. n + 1
        BY <1>1
      <3>2. h[nx[k]] \in Meaning
        <4> HIDE DEF nx
        <4> QED  BY <1>2, <2>2
      <3>3. h[k] = step(k, h[nx[k]])
        <4> HIDE DEF nx, step
        <4> QED  BY <1>8, <1>14, <3>1, <3>2
      <3>4. h[k] \in Meaning
        <4> HIDE DEF nx, step
        <4> QED  BY <1>4, <3>2, <3>3
      <3> QED  BY <3>1, <3>4
    <2>3. T = 1 .. n + 1
      <3>1. T \in SUBSET (1 .. n + 1)
        OBVIOUS
      <3> HIDE DEF T
      <3> QED  BY <1>1, <2>1, <2>2, <3>1, DownTo
    <2> QED  BY <2>3
  <1> QED  BY <1>14, <1>15

KeptAt(t, f, i) == IF i = 0 THEN << >>
                   ELSE IF i \in Commented(t) THEN f[i - 1]
                   ELSE Append(f[i - 1], t[i])

LEMMA KeptIs ==
    ASSUME NEW t \in Seq(Character), NEW i \in 0 .. Len(t)
    PROVE  Kept(t)[i] = KeptAt(t, Kept(t), i) /\ Kept(t)[i] \in Seq(Character)
  <1> DEFINE n == Len(t)
             S == Seq(Character)
             step(k, r) == IF k \in Commented(t) THEN r ELSE Append(r, t[k])
             g == [p \in (1 .. n) \X S |-> step(p[1], p[2])]
             Defines(f) == f = [k \in 0 .. Len(t) |-> KeptAt(t, f, k)]
  <1>1. n \in Nat /\ << >> \in S
    BY EmptySeq
  <1>2. ASSUME NEW k \in 1 .. n, NEW r \in S PROVE step(k, r) \in S
    <2>1. t[k] \in Character
      OBVIOUS
    <2>2. Append(r, t[k]) \in S
      BY <2>1, AppendProperties
    <2> QED  BY <2>2
  <1>3. g \in [(1 .. n) \X S -> S]
    <2>1. \A p \in (1 .. n) \X S : step(p[1], p[2]) \in S
      <3> HIDE DEF step, n, S
      <3> QED  BY <1>2
    <2> HIDE DEF step
    <2> QED  BY <2>1
  <1>4. PICK f \in [0 .. n -> S] : Iterates(f, n, << >>, g)
    <2> HIDE DEF g, S
    <2> QED  BY <1>1, <1>3, IterationExists
  <1>5. ASSUME NEW k \in 0 .. n PROVE f[k] = KeptAt(t, f, k)
    <2>1. CASE k = 0
      BY <1>4, <2>1 DEF Iterates, KeptAt
    <2>2. CASE k # 0
      <3>1. k \in 1 .. n /\ k - 1 \in 0 .. n
        BY <1>1, <2>2
      <3>2. f[k - 1] \in S /\ f[k] = g[<<k, f[k - 1]>>]
        BY <1>4, <3>1 DEF Iterates
      <3>3. f[k] = step(k, f[k - 1])
        <4> HIDE DEF step, S
        <4> QED  BY <3>1, <3>2
      <3> QED  BY <2>2, <3>3 DEF KeptAt
    <2> QED  BY <2>1, <2>2
  <1>6. Defines(f)
    <2>1. f = [k \in 0 .. Len(t) |-> f[k]]
      OBVIOUS
    <2> QED  BY <1>5, <2>1
  <1>7. Kept(t) = CHOOSE h : Defines(h)
    BY DEF Kept, KeptAt
  <1>8. Defines(Kept(t))
    <2> HIDE DEF Defines
    <2> QED  BY <1>6, <1>7, Zenon
  <1> DEFINE h == Kept(t)
  <1>9. \A k \in 0 .. n : h[k] = KeptAt(t, h, k)
    <2> HIDE DEF h
    <2> QED  BY <1>8, Zenon DEF h
  <1>10. \A k \in 0 .. n : h[k] \in S
    <2> HIDE DEF h
    <2> DEFINE T == {k \in 0 .. n : h[k] \in S}
    <2>1. 0 \in T
      <3>1. 0 \in 0 .. n
        BY <1>1
      <3> QED  BY <1>1, <1>9, <3>1 DEF KeptAt
    <2>2. ASSUME NEW k \in 1 .. n, k - 1 \in T PROVE k \in T
      <3>1. k \in 0 .. n /\ k # 0 /\ h[k - 1] \in S
        BY <1>1, <2>2
      <3>2. h[k] = step(k, h[k - 1])
        BY <1>9, <3>1 DEF KeptAt
      <3>3. h[k] \in S
        <4> HIDE DEF step, S
        <4> QED  BY <1>2, <3>1, <3>2
      <3> QED  BY <3>1, <3>3
    <2>3. T = 0 .. n
      <3>1. T \in SUBSET (0 .. n)
        OBVIOUS
      <3> HIDE DEF T
      <3> QED  BY <1>1, <2>1, <2>2, <3>1, UpTo
    <2> QED  BY <2>3
  <1> QED  BY <1>9, <1>10

LEMMA Regrouped ==
    ASSUME NEW s \in Seq(Character), NEW t \in Seq(Character), NEW u \in Seq(Character)
    PROVE  (s \o t) \o u = s \o (t \o u)
  <1>1. ASSUME NEW S, s \in Seq(S), t \in Seq(S), u \in Seq(S)
        PROVE  (s \o t) \o u = s \o (t \o u)
    BY <1>1, ConcatAssociative
  <1> QED  BY <1>1, Zenon

\* What lies in no comment is kept as it is, and nothing of a comment is.
LEMMA KeptBetween ==
    ASSUME NEW t \in Seq(Character), NEW a \in 0 .. Len(t), NEW b \in a .. Len(t),
           \A i \in a + 1 .. b : i \notin Commented(t)
    PROVE  Kept(t)[b] = Kept(t)[a] \o SubSeq(t, a + 1, b)
  <1> DEFINE T == {m \in 0 .. b - a : Kept(t)[a + m] = Kept(t)[a] \o SubSeq(t, a + 1, a + m)}
  <1>1. Len(t) \in Nat /\ a \in Nat /\ b \in Nat /\ b - a \in Nat /\ b <= Len(t) /\ a + (b - a) = b
    OBVIOUS
  <1>2. 0 \in T
    <2>1. Kept(t)[a] \in Seq(Character)
      BY KeptIs
    <2>2. SubSeq(t, a + 1, a + 0) = << >> /\ a + 0 = a /\ 0 \in 0 .. b - a
      BY <1>1, SubSeqEmpty
    <2> QED  BY <2>1, <2>2, ConcatEmptySeq
  <1>3. ASSUME NEW m \in 1 .. b - a, m - 1 \in T PROVE m \in T
    <2>1. PICK k \in 1 .. Len(t) : k = a + m /\ k - 1 = a + (m - 1) /\ k >= a + 1 /\ k <= b
      BY <1>1
    <2>2. k \in 0 .. Len(t) /\ k - 1 \in 0 .. Len(t) /\ k # 0 /\ k \in a + 1 .. b /\ m \in 0 .. b - a
          /\ a + 1 \in 1 .. Len(t) /\ k \in a + 1 .. Len(t) /\ a \in 0 .. Len(t)
      BY <1>1, <2>1
    <2>3. Kept(t)[k] = Append(Kept(t)[k - 1], t[k])
      BY <2>2, KeptIs DEF KeptAt
    <2>4. Kept(t)[k - 1] = Kept(t)[a] \o SubSeq(t, a + 1, k - 1)
      BY <1>3, <2>1
    <2>5. SubSeq(t, a + 1, k) = SubSeq(t, a + 1, k - 1) \o <<t[k]>>
      BY <2>2, SubSeqRecursiveSecond
    <2>6. Kept(t)[a] \in Seq(Character) /\ t[k] \in Character /\ <<t[k]>> \in Seq(Character)
      BY <2>2, KeptIs
    <2>7. SubSeq(t, a + 1, k - 1) \in Seq(Character)
      BY <1>1, <2>1, <2>2, Stretch
    <2>8. Append(Kept(t)[k - 1], t[k]) = (Kept(t)[a] \o SubSeq(t, a + 1, k - 1)) \o <<t[k]>>
      <3> DEFINE s == Kept(t)[a] \o SubSeq(t, a + 1, k - 1)
      <3>1. s \in Seq(Character)
        BY <2>6, <2>7, ConcatProperties
      <3> HIDE DEF s
      <3>2. Append(s, t[k]) = s \o <<t[k]>>
        BY <2>6, <3>1, AppendIsConcat
      <3> QED  BY <2>4, <3>2 DEF s
    <2>9. Kept(t)[k] = Kept(t)[a] \o SubSeq(t, a + 1, k)
      <3>1. PICK x \in Seq(Character) : x = Kept(t)[a]
        BY <2>6
      <3>2. PICK y \in Seq(Character) : y = SubSeq(t, a + 1, k - 1)
        BY <2>7
      <3>3. PICK z \in Seq(Character) : z = <<t[k]>>
        BY <2>6
      <3>4. (x \o y) \o z = x \o (y \o z)
        BY Regrouped, ZenonT(60)
      <3> QED  BY <2>3, <2>5, <2>8, <3>1, <3>2, <3>3, <3>4, Zenon
    <2> QED  BY <2>1, <2>2, <2>9
  <1>4. T = 0 .. b - a
    <2>1. T \in SUBSET (0 .. b - a)
      OBVIOUS
    <2> HIDE DEF T
    <2> QED  BY <1>1, <1>2, <1>3, <2>1, UpTo
  <1>5. b - a \in T
    <2>1. b - a \in 0 .. b - a
      BY <1>1
    <2> HIDE DEF T
    <2> QED  BY <1>4, <2>1
  <1> QED  BY <1>1, <1>5

-----------------------------------------------------------------------------
(* Lines.                                                                  *)

\* A newline that the lexer counts twice.
CountsTwice(t, i) == /\ t[i] = Newline /\ i > 1 /\ t[i - 1] = "*"
                     /\ \E c \in Comments(t) : i \in c[1] + 3 .. c[2]
LinesOf(t, i) == IF CountsTwice(t, i) THEN 2 ELSE IF t[i] = Newline THEN 1 ELSE 0

LEMMA LinesAre ==
    ASSUME NEW t, NEW i \in Nat
    PROVE  /\ IsFiniteSet(Newlines(t, i)) /\ IsFiniteSet(Twice(t, i))
           /\ \A j \in 1 .. i : /\ j \in Newlines(t, i) <=> t[j] = Newline
                                /\ j \in Twice(t, i) <=> CountsTwice(t, j)
           /\ Newlines(t, i) \subseteq 1 .. i /\ Twice(t, i) \subseteq 1 .. i
  <1>1. Newlines(t, i) \subseteq 1 .. i /\ Twice(t, i) \subseteq 1 .. i
    BY DEF Newlines, Twice
  <1>2. IsFiniteSet(1 .. i)
    BY FS_Interval
  <1>3. IsFiniteSet(Newlines(t, i)) /\ IsFiniteSet(Twice(t, i))
    BY <1>1, <1>2, FS_Subset
  <1>4. ASSUME NEW j \in 1 .. i
        PROVE  /\ j \in Newlines(t, i) <=> t[j] = Newline
               /\ j \in Twice(t, i) <=> CountsTwice(t, j)
    BY Zenon DEF Newlines, Twice, CountsTwice
  <1> QED  BY <1>1, <1>3, <1>4

LEMMA OneMoreLine ==
    ASSUME NEW t, NEW i \in Nat \ {0}
    PROVE  LineAt(t, i) \in Nat /\ LineAt(t, i + 1) = LineAt(t, i) + LinesOf(t, i)
  <1> DEFINE A == Newlines(t, i - 1)
             B == Twice(t, i - 1)
  <1>0. i - 1 \in Nat /\ i \in Nat /\ i + 1 - 1 = i /\ i \in 1 .. i /\ i \notin 1 .. i - 1
        /\ (\A j \in 1 .. i : j = i \/ j \in 1 .. i - 1)
        /\ \A j \in 1 .. i - 1 : j \in 1 .. i
    OBVIOUS
  <1>1. /\ IsFiniteSet(A) /\ IsFiniteSet(B)
        /\ \A j \in 1 .. i - 1 : (j \in A <=> t[j] = Newline) /\ (j \in B <=> CountsTwice(t, j))
        /\ A \subseteq 1 .. i - 1 /\ B \subseteq 1 .. i - 1
    BY <1>0, LinesAre
  <1>2. /\ \A j \in 1 .. i : (j \in Newlines(t, i) <=> t[j] = Newline) /\ (j \in Twice(t, i) <=> CountsTwice(t, j))
        /\ Newlines(t, i) \subseteq 1 .. i /\ Twice(t, i) \subseteq 1 .. i
    BY <1>0, LinesAre
  <1> HIDE DEF A, B
  <1>3. Newlines(t, i) = IF t[i] = Newline THEN A \cup {i} ELSE A
    <2>1. ASSUME NEW j PROVE j \in Newlines(t, i) <=> j \in A \/ (j = i /\ t[i] = Newline)
      <3>1. CASE j \in 1 .. i - 1
        BY <1>0, <1>1, <1>2, <3>1
      <3>2. CASE j = i
        BY <1>0, <1>1, <1>2, <3>2
      <3> QED  BY <1>0, <1>1, <1>2, <3>1, <3>2
    <2> QED  BY <2>1
  <1>4. Twice(t, i) = IF CountsTwice(t, i) THEN B \cup {i} ELSE B
    <2>1. ASSUME NEW j PROVE j \in Twice(t, i) <=> j \in B \/ (j = i /\ CountsTwice(t, i))
      <3>1. CASE j \in 1 .. i - 1
        BY <1>0, <1>1, <1>2, <3>1
      <3>2. CASE j = i
        BY <1>0, <1>1, <1>2, <3>2
      <3> QED  BY <1>0, <1>1, <1>2, <3>1, <3>2
    <2> QED  BY <2>1
  <1>5. Cardinality(A \cup {i}) = Cardinality(A) + 1 /\ Cardinality(B \cup {i}) = Cardinality(B) + 1
        /\ Cardinality(A) \in Nat /\ Cardinality(B) \in Nat
    <2>1. i \notin A /\ i \notin B
      BY <1>0, <1>1
    <2> QED  BY <1>1, <2>1, FS_AddElement, FS_CardinalityType
  <1>6. LineAt(t, i) = 1 + Cardinality(A) + Cardinality(B)
    BY DEF LineAt, A, B
  <1>7. LineAt(t, i + 1) = 1 + Cardinality(Newlines(t, i)) + Cardinality(Twice(t, i))
    BY <1>0 DEF LineAt
  <1>8. CountsTwice(t, i) => t[i] = Newline
    BY DEF CountsTwice
  <1> QED  BY <1>3, <1>4, <1>5, <1>6, <1>7, <1>8 DEF LinesOf

LEMMA FirstLine ==
    ASSUME NEW t
    PROVE  LineAt(t, 1) = 1
  <1>1. Newlines(t, 0) = {} /\ Twice(t, 0) = {}
    BY DEF Newlines, Twice
  <1> QED  BY <1>1, FS_EmptySet DEF LineAt

LEMMA SameLine ==
    ASSUME NEW t, NEW a \in Nat \ {0}, NEW b \in Nat, a <= b, \A i \in a .. b - 1 : t[i] # Newline
    PROVE  LineAt(t, a) = LineAt(t, b)
  <1>0. a - 1 \in Nat /\ b - 1 \in Nat /\ a - 1 <= b - 1
        /\ (\A j \in 1 .. b - 1 : j \in 1 .. a - 1 \/ j \in a .. b - 1)
        /\ \A j \in 1 .. a - 1 : j \in 1 .. b - 1
    OBVIOUS
  <1>1. ASSUME NEW j PROVE j \in Newlines(t, a - 1) <=> j \in Newlines(t, b - 1)
    BY <1>0 DEF Newlines
  <1>2. Newlines(t, a - 1) = Newlines(t, b - 1)
    BY <1>1
  <1>3. Twice(t, a - 1) = Twice(t, b - 1)
    BY <1>2 DEF Twice
  <1> QED  BY <1>2, <1>3 DEF LineAt

-----------------------------------------------------------------------------
(* What is read at a place.                                                *)

\* The machine has nowhere to go with the character that follows.
Stuck(t, h, p) == p < Len(t) => StateOf(SubSeq(t, h, p + 1)) = Nowhere
LongerThan(type, n) == \/ type = "identsym" /\ n > MaxIdent
                       \/ type = "numbersym" /\ n > MaxDigits
                       \/ type = "invalid"

LEMMA Beyond ==
    ASSUME NEW t \in Seq(Character), NEW h \in 1 .. Len(t) + 1, NEW p \in h - 1 .. Len(t),
           Stuck(t, h, p), NEW j \in p + 1 .. Len(t)
    PROVE  FormOf(SubSeq(t, h, j)) = NoToken
  <1>1. /\ Len(t) \in Nat /\ h \in Nat /\ p \in Int /\ j \in Int /\ p < Len(t)
        /\ j \in h - 1 .. Len(t) /\ p + 1 \in h - 1 .. j /\ p + 1 - h + 1 \in 0 .. j - h + 1
    OBVIOUS
  <1> DEFINE s == SubSeq(t, h, j)
  <1>2. s \in Seq(Character) /\ Len(s) = j - h + 1 /\ SubSeq(s, 1, p + 1 - h + 1) = SubSeq(t, h, p + 1)
    BY <1>1, Stretch
  <1>3. StateOf(SubSeq(t, h, p + 1)) = Nowhere
    BY <1>1 DEF Stuck
  <1> HIDE DEF s
  <1>4. StateOf(s) = Nowhere
    BY <1>1, <1>2, <1>3, Viable
  <1>5. s # OpenComment
    BY <1>4, OpenCommentIs, Labels
  <1> QED  BY <1>2, <1>4, <1>5, FormAccepted DEF s

LEMMA NothingIsRead ==
    ASSUME NEW t \in Seq(Character), NEW h \in 1 .. Len(t), NEW p \in h - 1 .. Len(t),
           StateOf(SubSeq(t, h, p)) # Nowhere, Accepts(StateOf(SubSeq(t, h, p))) = NoToken,
           Stuck(t, h, p), h \notin Skipped(t)
    PROVE  MeantFrom(t)[h] = Stop(FALSE)
  <1>0. Len(t) \in Nat /\ h \in Nat /\ p \in Int /\ h \in 1 .. Len(t) + 1 /\ ~(h > Len(t)) /\ p <= Len(t) /\ h - 1 <= p
    OBVIOUS
  <1> DEFINE s == SubSeq(t, h, p)
  <1>1. ASSUME NEW j \in h .. Len(t) PROVE FormOf(SubSeq(t, h, j)) = NoToken
    <2>1. CASE j <= p
      <3>1. j - h + 1 \in 1 .. p - h + 1 /\ j \in h - 1 .. p
        BY <1>0, <2>1
      <3>2. s \in Seq(Character) /\ Len(s) = p - h + 1 /\ SubSeq(s, 1, j - h + 1) = SubSeq(t, h, j)
        BY <1>0, <3>1, Stretch
      <3>3. StateOf(s) # Nowhere /\ Accepts(StateOf(s)) = NoToken
        OBVIOUS
      <3> HIDE DEF s
      <3> QED  BY <3>1, <3>2, <3>3, NothingAccepted
    <2>2. CASE ~(j <= p)
      <3>1. j \in p + 1 .. Len(t)
        BY <1>0, <2>2
      <3> QED  BY <1>0, <3>1, Beyond
    <2> QED  BY <2>1, <2>2
  <1>2. Ends(t, h) = {}
    BY <1>1, EndsIs
  <1> QED  BY <1>0, <1>2, MeantFromIs DEF MeantAt, NoMeaning

LEMMA TheLongestIsRead ==
    ASSUME NEW t \in Seq(Character), NEW h \in 1 .. Len(t), NEW p \in h .. Len(t),
           NEW type, type = FormOf(SubSeq(t, h, p)), type # NoToken,
           Stuck(t, h, p), h \notin Skipped(t), p <= h + Longest
    PROVE  MeantFrom(t)[h] =
              IF LongerThan(type, p - h + 1) THEN Stop(FALSE)
              ELSE [tokens |-> <<[type |-> type, lexeme |-> SubSeq(t, h, p), at |-> h]>>
                               \o MeantFrom(t)[p + 1].tokens,
                    ok |-> MeantFrom(t)[p + 1].ok]
  <1>0. Len(t) \in Nat /\ h \in Nat /\ p \in Nat /\ h \in 1 .. Len(t) + 1 /\ ~(h > Len(t)) /\ p <= Len(t) /\ h <= p
        /\ p \in h - 1 .. Len(t) /\ h + (p - h + 1) = p + 1
    OBVIOUS
  <1>1. p \in Ends(t, h)
    BY EndsIs
  <1>2. ASSUME NEW j \in Ends(t, h) PROVE j <= p
    <2>1. j \in h .. Len(t) /\ FormOf(SubSeq(t, h, j)) # NoToken
      BY EndsIs
    <2>2. ASSUME j > p PROVE FALSE
      <3>1. j \in p + 1 .. Len(t)
        BY <1>0, <2>1, <2>2
      <3> QED  BY <1>0, <2>1, <3>1, Beyond
    <2> QED  BY <1>0, <2>1, <2>2
  <1>3. Max(Ends(t, h)) = p
    <2>1. PICK m \in h .. Len(t) : m = Max(Ends(t, h)) /\ m \in Ends(t, h) /\ p <= m
      BY <1>1, EndsIs
    <2>2. m = p
      BY <1>0, <1>2, <2>1
    <2> QED  BY <2>1, <2>2
  <1>4. LexemeAt(t, h) = SubSeq(t, h, p) /\ Len(SubSeq(t, h, p)) = p - h + 1
    BY <1>0, <1>3, Stretch DEF LexemeAt
  <1>5. NoMeaning(t, h) <=> LongerThan(type, p - h + 1)
    BY <1>1, <1>4 DEF NoMeaning, Wrong, LongerThan
  <1>6. MeantFrom(t)[h] = IF NoMeaning(t, h) THEN Stop(FALSE)
                          ELSE [tokens |-> <<TokenAt(t, h)>> \o MeantFrom(t)[h + Len(LexemeAt(t, h))].tokens,
                                ok |-> MeantFrom(t)[h + Len(LexemeAt(t, h))].ok]
    BY <1>0, MeantFromIs DEF MeantAt
  <1>7. TokenAt(t, h) = [type |-> type, lexeme |-> SubSeq(t, h, p), at |-> h] /\ h + Len(LexemeAt(t, h)) = p + 1
    BY <1>0, <1>4 DEF TokenAt
  <1> QED  BY <1>5, <1>6, <1>7

\* What is longer than any lexeme may be is wrong, and what its first part says is wrong too.
LEMMA TooLongIsWrong ==
    ASSUME NEW t \in Seq(Character), NEW h \in 1 .. Len(t), NEW p \in h .. Len(t),
           NEW type, type = FormOf(SubSeq(t, h, p)), type # NoToken,
           h \notin Skipped(t), p > h + Longest
    PROVE  MeantFrom(t)[h] = Stop(FALSE) /\ LongerThan(type, p - h + 1)
  <1> DEFINE s == SubSeq(t, h, p)
             m == h + Longest
             q == SubSeq(t, h, m)
  <1>0. /\ Len(t) \in Nat /\ h \in Nat /\ p \in Nat /\ h \in 1 .. Len(t) + 1 /\ ~(h > Len(t)) /\ p <= Len(t) /\ h <= p
        /\ p \in h - 1 .. Len(t) /\ m \in Nat /\ m \in h .. Len(t) /\ m \in h - 1 .. p /\ Longest \in Nat
        /\ m - h + 1 = Longest + 1 /\ m <= h + Longest /\ p - h + 1 > Longest + 1
        /\ MaxIdent \in Nat /\ MaxDigits \in Nat /\ MaxIdent <= Longest /\ MaxDigits <= Longest
    BY LongestIs, LimitsAssumption
  <1> HIDE DEF m
  <1>1. s \in Seq(Character) /\ Len(s) = p - h + 1 /\ SubSeq(s, 1, Longest + 1) = q
    BY <1>0, Stretch
  <1> HIDE DEF s, q
  <1>2. Longest + 1 \in 0 .. Len(s) /\ Longest + 1 > 0 /\ Len(s) > Longest + 1 /\ Len(s) \in Nat
        /\ \A i \in 1 .. Longest + 1 : i \in 1 .. Len(s) - 1 /\ i \in 1 .. Len(s)
    BY <1>0, <1>1
  <1>3. q \in Seq(Character) /\ Len(q) = Longest + 1 /\ \A i \in 1 .. Longest + 1 : q[i] = s[i]
    BY <1>1, <1>2, Beginning
  <1>4. \A x \in Seq(Character) : Len(x) > Longest => x \notin FixedTexts
    BY <1>0, ExactTexts, LongestIs DEF Exact
  <1>5. s \notin FixedTexts /\ q \notin FixedTexts
    BY <1>0, <1>1, <1>2, <1>3, <1>4
  <1>6. IdentLike(s) \/ NumberLike(s) \/ InvalidLike(s)
    BY <1>1, <1>5, Forms DEF s
  <1>7. 1 \in 1 .. Longest + 1 /\ DOMAIN q = 1 .. Longest + 1 /\ DOMAIN s = 1 .. Len(s) /\ Len(q) > 0
    <2>1. 1 \in 1 .. Longest + 1 /\ Longest + 1 > 0
      BY <1>0
    <2>2. \A x \in Seq(Character) : DOMAIN x = 1 .. Len(x)
      OBVIOUS
    <2> QED  BY <1>1, <1>3, <2>1, <2>2, Zenon
  <1>8. IdentLike(s) => IdentLike(q)
    BY <1>2, <1>3, <1>7, Zenon DEF IdentLike, AllIn
  <1>9. NumberLike(s) \/ InvalidLike(s) => NumberLike(q)
    BY <1>2, <1>3, <1>7, Zenon DEF NumberLike, InvalidLike, AllIn
  <1>10. Wrong(q) /\ FormOf(q) # NoToken
    <2>1. CASE IdentLike(q)
      <3>1. FormOf(q) = "identsym"
        BY <1>3, <1>5, <2>1, Forms
      <3>2. Len(q) > MaxIdent
        BY <1>0, <1>3
      <3> QED  BY <3>1, <3>2 DEF Wrong, NoToken
    <2>2. CASE NumberLike(q)
      <3>1. FormOf(q) = "numbersym"
        BY <1>3, <1>5, <2>2, Forms, Kinds
      <3>2. Len(q) > MaxDigits
        BY <1>0, <1>3
      <3> QED  BY <3>1, <3>2 DEF Wrong, NoToken
    <2> QED  BY <1>6, <1>8, <1>9, <2>1, <2>2
  <1>11. LongerThan(type, p - h + 1)
    <2>1. p - h + 1 > MaxIdent /\ p - h + 1 > MaxDigits
      BY <1>0
    <2>2. FormOf(s) \in {"identsym", "numbersym", "invalid"}
      BY <1>1, <1>5, <1>6, Forms
    <2> QED  BY <2>1, <2>2 DEF LongerThan, s
  <1>12. m \in Ends(t, h)
    BY <1>0, <1>10, EndsIs DEF q
  <1>13. Max(Ends(t, h)) = m
    <2>1. PICK k \in h .. Len(t) : k = Max(Ends(t, h)) /\ k \in Ends(t, h) /\ m <= k
      BY <1>12, EndsIs
    <2>2. k <= h + Longest
      BY <2>1, EndsIs
    <2>3. k = m
      BY <1>0, <2>1, <2>2 DEF m
    <2> QED  BY <2>1, <2>3
  <1>14. LexemeAt(t, h) = q
    BY <1>13 DEF LexemeAt, q
  <1>15. NoMeaning(t, h)
    BY <1>10, <1>14 DEF NoMeaning
  <1> QED  BY <1>0, <1>11, <1>15, MeantFromIs DEF MeantAt

\* What a lexeme that is accepted means.
LEMMA Reads ==
    ASSUME NEW t \in Seq(Character), NEW h \in 1 .. Len(t), NEW p \in h .. Len(t),
           NEW type, type = FormOf(SubSeq(t, h, p)), type # NoToken,
           Stuck(t, h, p), h \notin Skipped(t)
    PROVE  MeantFrom(t)[h] =
              IF LongerThan(type, p - h + 1) THEN Stop(FALSE)
              ELSE [tokens |-> <<[type |-> type, lexeme |-> SubSeq(t, h, p), at |-> h]>>
                               \o MeantFrom(t)[p + 1].tokens,
                    ok |-> MeantFrom(t)[p + 1].ok]
  <1>1. CASE p <= h + Longest
    BY <1>1, TheLongestIsRead
  <1>2. CASE p > h + Longest
    <2>1. MeantFrom(t)[h] = Stop(FALSE) /\ LongerThan(type, p - h + 1)
      BY <1>2, TooLongIsWrong
    <2> QED  BY <2>1
  <1>3. p <= h + Longest \/ p > h + Longest
    BY LongestIs
  <1> QED  BY <1>1, <1>2, <1>3

LEMMA OneBeyond ==
    ASSUME NEW t \in Seq(Character), NEW h \in 1 .. Len(t), Divides(t, h), ~OpensAt(t, h)
    PROVE  h \notin Commented(t) /\ Divides(t, h + 1)
  <1>0. h \in 1 .. Len(t) + 2 /\ h + 1 \in h .. Len(t) + 2 /\ h \in h .. h + 1 - 1
        /\ \A i \in h .. h + 1 - 1 : i = h
    OBVIOUS
  <1>1. Divides(t, h + 1) /\ \A c \in Comments(t) : h \notin c[1] .. c[2]
    BY <1>0, DividesBeyond
  <1> QED  BY <1>1 DEF Commented

LEMMA NotSkipped ==
    ASSUME NEW t \in Seq(Character), NEW h \in 1 .. Len(t), Divides(t, h),
           t[h] \notin Space, ~OpensAt(t, h)
    PROVE  h \notin Skipped(t)
  <1>1. h \notin Commented(t)
    BY OneBeyond
  <1> QED  BY <1>1 DEF Skipped

LEMMA SkippedMeansNothing ==
    ASSUME NEW t \in Seq(Character), NEW h \in Skipped(t), h \in 1 .. Len(t)
    PROVE  MeantFrom(t)[h] = MeantFrom(t)[h + 1]
  <1>1. h \in 1 .. Len(t) + 1 /\ ~(h > Len(t))
    OBVIOUS
  <1> QED  BY <1>1, MeantFromIs DEF MeantAt

-----------------------------------------------------------------------------
(* The types.                                                              *)

Kind == Reserved \cup Punctuation \cup {"identsym", "numbersym"}
TokenRecord == [type : Kind, lexeme : Seq(Character), line : Nat, at : Nat]

TypeInv == /\ LexerTypeOK
           /\ text \in Texts
           /\ lexeme \in Seq(Character) /\ Len(lexeme) <= pos
           /\ tokens \in Seq(TokenRecord)
           /\ clean \in Seq(Character)

LEMMA TextIs ==
    ASSUME text \in Texts, pos \in 0 .. Len(text)
    PROVE  /\ text \in Seq(Character) /\ Len(text) \in Nat /\ pos \in Nat /\ pos <= Len(text)
           /\ next = Eof <=> pos = Len(text)
           /\ next # Eof => next = text[pos + 1] /\ next \in Character /\ pos + 1 \in 1 .. Len(text)
  <1>1. text \in Seq(STRING) /\ \A i \in DOMAIN text : text[i] # Eof
    BY TextsAssumption
  <1>2. text \in Seq(Character)
    BY <1>1, SeqMonotonic DEF Character
  <1>3. Len(text) \in Nat /\ DOMAIN text = 1 .. Len(text) /\ pos \in Nat /\ pos <= Len(text)
    BY <1>2
  <1>4. CASE pos = Len(text)
    BY <1>2, <1>3, <1>4 DEF next
  <1>5. CASE pos # Len(text)
    <2>0. \A a, b \in Nat : a <= b /\ a # b => a < b /\ a + 1 \in 1 .. b
      OBVIOUS
    <2>1. pos < Len(text) /\ pos + 1 \in 1 .. Len(text)
      BY <1>3, <1>5, <2>0
    <2>2. text[pos + 1] # Eof /\ text[pos + 1] \in Character
      BY <1>1, <1>2, <1>3, <2>1
    <2> QED  BY <1>2, <1>3, <1>5, <2>1, <2>2 DEF next
  <1> QED  BY <1>4, <1>5

LEMMA AcceptsType ==
    ASSUME NEW type, type = Accepts(state), type \notin {NoToken, "comment", "invalid"}
    PROVE  type \in Kind
  <1>1. ASSUME state \in FixedTexts PROVE TypeOf[state] \in Reserved \cup Punctuation
    <2>1. state \in Seq(Character)
      BY <1>1, ExactTexts DEF Exact
    <2> QED  BY <1>1, <2>1, FormType
  <1>2. type \in {TypeOf[state], "identsym", "numbersym"} /\ (type = TypeOf[state] => state \in FixedTexts \/ type \in {"identsym", "numbersym"})
    BY DEF Accepts
  <1> QED  BY <1>1, <1>2 DEF Kind

LEMMA TransitionType ==
    ASSUME NEW s, NEW c, Transition(s, c) # Nowhere
    PROVE  Transition(s, c) \in Beginnings \cup {InIdent, InNumber, InInvalid}
  BY DEF Transition

LEMMA StartIsABeginning == Start \in Beginnings
  <1>1. <<"/">> \in Exact /\ 0 \in 0 .. Len(<<"/">>) /\ SubSeq(<<"/">>, 1, 0) = Start
    BY SpellingAssumption, SubSeqEmpty DEF Exact, Start
  <1> QED  BY <1>1 DEF Beginnings

LEMMA TypeAtInit == LexerInit => TypeInv
  <1> SUFFICES ASSUME LexerInit PROVE TypeInv
    OBVIOUS
  <1> USE DEF LexerInit
  <1>1. text \in Seq(STRING) /\ Len(text) \in Nat
    BY TextsAssumption
  <1>2. LexerTypeOK
    BY <1>1, StartIsABeginning DEF LexerTypeOK
  <1> QED  BY <1>2, EmptySeq DEF TypeInv

LEMMA TypeInductive == TypeInv /\ [LexerNext]_lexerVars => TypeInv'
  <1> SUFFICES ASSUME TypeInv, [LexerNext]_lexerVars PROVE TypeInv'
    OBVIOUS
  <1>0. /\ text \in Texts /\ pos \in 0 .. Len(text) /\ pos \in Nat /\ line \in Nat /\ line >= 1 /\ line <= 1 + 2 * pos
        /\ lexeme \in Seq(Character) /\ Len(lexeme) \in Nat /\ Len(lexeme) <= pos
        /\ tokens \in Seq(TokenRecord) /\ clean \in Seq(Character) /\ Len(text) \in Nat
        /\ state \in Beginnings \cup {InIdent, InNumber, InInvalid}
        /\ \A k \in DOMAIN tokens : tokens[k].type \in Kind /\ tokens[k].line \in 1 .. line
    BY TextIs DEF TypeInv, LexerTypeOK, Kind
  <1>1. next # Eof => next \in Character /\ pos + 1 \in 0 .. Len(text) /\ pos + 1 \in Nat
    BY <1>0, TextIs
  <1>2. ASSUME NEW l \in Nat, l >= line PROVE \A k \in DOMAIN tokens : tokens[k].type \in Kind /\ tokens[k].line \in 1 .. l
    BY <1>0, <1>2
  <1>3. LineOf(next) \in 0 .. 1
    BY DEF LineOf
  <1>4. << >> \in Seq(Character) /\ Len(<< >>) = 0
    BY EmptySeq
  <1>5. CASE Shift
    <2>1. next # Eof /\ Way = Transition(state, next) /\ Way # Nowhere
      BY <1>5 DEF Shift, Way
    <2>2. Append(lexeme, next) \in Seq(Character) /\ Len(Append(lexeme, next)) = Len(lexeme) + 1
      BY <1>0, <1>1, <2>1, AppendProperties
    <2>3. state' \in Beginnings \cup {InIdent, InNumber, InInvalid}
      BY <1>5, <2>1, TransitionType DEF Shift
    <2> QED  BY <1>0, <1>1, <1>5, <2>1, <2>2, <2>3 DEF Shift, outVars, TypeInv, LexerTypeOK, Kind
  <1>6. CASE Whitespace
    <2>1. next # Eof
      BY <1>6 DEF Whitespace, Space, Newline, Eof
    <2>2. Append(clean, next) \in Seq(Character)
      BY <1>0, <1>1, <2>1, AppendProperties
    <2>3. line' \in Nat /\ line' >= line /\ line' \in 1 .. 1 + 2 * (pos + 1) /\ Len(lexeme) <= pos + 1
      BY <1>0, <1>3, <1>6 DEF Whitespace
    <2>4. \A k \in DOMAIN tokens : tokens[k].type \in Kind /\ tokens[k].line \in 1 .. line'
      BY <1>2, <2>3
    <2> QED  BY <1>0, <1>1, <1>6, <2>1, <2>2, <2>3, <2>4 DEF Whitespace, TypeInv, LexerTypeOK, Kind
  <1>7. CASE EndOfFile
    BY <1>0, <1>7 DEF EndOfFile, outVars, TypeInv, LexerTypeOK, Kind
  <1>8. CASE Unknown
    <2>1. pos' \in 0 .. Len(text) /\ pos' >= pos /\ pos' \in Nat
      BY <1>0, <1>1, <1>8 DEF Unknown
    <2>2. line \in 1 .. 1 + 2 * pos' /\ Len(lexeme) <= pos'
      <3>1. PICK q \in Nat : q = pos' /\ q >= pos
        BY <2>1
      <3>2. /\ pos \in Nat /\ line \in Nat /\ line >= 1 /\ line <= 1 + 2 * pos
            /\ Len(lexeme) \in Nat /\ Len(lexeme) <= pos
        BY <1>0
      <3>3. \A a, b, l, n \in Nat : 1 <= l /\ l <= 1 + 2 * a /\ n <= a /\ b >= a => l \in 1 .. 1 + 2 * b /\ n <= b
        OBVIOUS
      <3> QED  BY <3>1, <3>2, <3>3, Zenon
    <2> QED  BY <1>0, <1>8, <2>1, <2>2 DEF Unknown, outVars, TypeInv, LexerTypeOK, Kind
  <1>9. CASE Accept
    <2> DEFINE type == Accepts(state)
               token == [type |-> type, lexeme |-> lexeme, line |-> line, at |-> pos - Len(lexeme) + 1]
    <2>1. CASE TooLong(type) /\ mode' = "failed" /\ UNCHANGED <<text, pos, state, lexeme, line, outVars>>
      BY <1>0, <2>1 DEF outVars, TypeInv, LexerTypeOK, Kind
    <2>2. CASE /\ ~TooLong(type) /\ tokens' = Append(tokens, token) /\ clean' = clean \o lexeme
               /\ state' = Start /\ lexeme' = << >> /\ UNCHANGED <<text, pos, line, mode>>
      <3>1. type \in Kind
        BY <1>9, <2>2, AcceptsType DEF Accept, TooLong
      <3>2. token \in TokenRecord /\ token.type \in Kind /\ token.line = line
        <4>1. pos - Len(lexeme) + 1 \in Nat
          BY <1>0
        <4> HIDE DEF type
        <4> QED  BY <1>0, <3>1, <4>1 DEF TokenRecord
      <3>3. clean' \in Seq(Character)
        BY <1>0, <2>2, ConcatProperties
      <3>4. /\ tokens' \in Seq(TokenRecord)
            /\ \A k \in DOMAIN tokens' : tokens'[k].type \in Kind /\ tokens'[k].line \in 1 .. line
        <4> HIDE DEF token, type
        <4>1. tokens' \in Seq(TokenRecord) /\ Len(tokens') = Len(tokens) + 1 /\ tokens'[Len(tokens) + 1] = token
              /\ \A k \in 1 .. Len(tokens) : tokens'[k] = tokens[k]
          BY <1>0, <2>2, <3>2, AppendProperties
        <4>2. DOMAIN tokens = 1 .. Len(tokens) /\ DOMAIN tokens' = 1 .. Len(tokens) + 1 /\ Len(tokens) \in Nat
              /\ \A k \in 1 .. Len(tokens) + 1 : k = Len(tokens) + 1 \/ k \in 1 .. Len(tokens)
          BY <1>0, <4>1
        <4>3. line \in 1 .. line
          BY <1>0
        <4> QED  BY <1>0, <3>2, <4>1, <4>2, <4>3, Zenon
      <3>5. state' \in Beginnings
        BY <2>2, StartIsABeginning
      <3> QED  BY <1>0, <1>4, <1>9, <2>2, <3>3, <3>4, <3>5 DEF TypeInv, LexerTypeOK, Kind, Accept
    <2> QED  BY <1>9, <2>1, <2>2 DEF Accept
  <1>10. CASE BeginComment
    BY <1>0, <1>4, <1>10, StartIsABeginning DEF BeginComment, outVars, TypeInv, LexerTypeOK, Kind
  <1>11. CASE CommentChar
    <2>1. line' \in Nat /\ line' >= line /\ line' \in 1 .. 1 + 2 * (pos + 1) /\ Len(lexeme) <= pos + 1
      BY <1>0, <1>3, <1>11 DEF CommentChar
    <2>2. \A k \in DOMAIN tokens : tokens[k].type \in Kind /\ tokens[k].line \in 1 .. line'
      BY <1>2, <2>1
    <2> QED  BY <1>0, <1>1, <1>11, <2>1, <2>2 DEF CommentChar, outVars, TypeInv, LexerTypeOK, Kind
  <1>12. CASE CommentStar
    <2>1. line' \in Nat /\ line' >= line /\ line' \in 1 .. 1 + 2 * (pos + 1) /\ Len(lexeme) <= pos + 1
      BY <1>0, <1>3, <1>12 DEF CommentStar
    <2>2. \A k \in DOMAIN tokens : tokens[k].type \in Kind /\ tokens[k].line \in 1 .. line'
      BY <1>2, <2>1
    <2>3. mode' \in {"scan", "star", "comment"}
      BY <1>12 DEF CommentStar
    <2> QED  BY <1>0, <1>1, <1>12, <2>1, <2>2, <2>3 DEF CommentStar, outVars, TypeInv, LexerTypeOK, Kind
  <1>13. CASE CommentOpen
    BY <1>0, <1>13 DEF CommentOpen, outVars, TypeInv, LexerTypeOK, Kind
  <1>14. CASE UNCHANGED lexerVars
    BY <1>14 DEF lexerVars, readVars, outVars, TypeInv, LexerTypeOK
  <1> QED  BY <1>5, <1>6, <1>7, <1>8, <1>9, <1>10, <1>11, <1>12, <1>13, <1>14 DEF LexerNext

\* The machine is in one of its states, the reader within the text, and every token has a
\* type of its own and was found on a line that was reached.
THEOREM LexerTypeCorrect == LexerSpec => []LexerTypeOK
  <1>1. LexerInit => TypeInv
    BY TypeAtInit
  <1>2. TypeInv /\ [LexerNext]_lexerVars => TypeInv'
    BY TypeInductive
  <1>3. TypeInv => LexerTypeOK
    BY DEF TypeInv
  <1> QED  BY <1>1, <1>2, <1>3, PTL DEF LexerSpec

-----------------------------------------------------------------------------
(* Where the reader is in the text: at Here a lexeme begins, and what was  *)
(* read since is its beginning; in a comment it is between its opening and *)
(* what closes it.                                                         *)

Here == pos - Len(lexeme) + 1
Active == mode \in {"scan", "comment", "star"}

InLexeme == mode = "scan" => /\ lexeme = SubSeq(text, Here, pos)
                             /\ state = StateOf(lexeme)
                             /\ Divides(text, Here)

Inside(o) == /\ OpensAt(text, o) /\ Divides(text, o)
             /\ o + 1 <= pos /\ pos < Closing(text, o)
             /\ mode = "star" <=> pos >= o + 2 /\ text[pos] = "*"

InComment == mode \in {"comment", "star"} =>
                /\ lexeme = << >> /\ state = Start
                /\ \E o \in 1 .. Len(text) : Inside(o)

PlaceInv == TypeInv /\ InLexeme /\ InComment

\* What was counted, copied and found is what there is before Here.
LineInv == /\ Active => line = LineAt(text, Here)
           /\ \A k \in DOMAIN tokens : tokens[k].line = LineAt(text, tokens[k].at)
CleanInv == /\ Active => clean = Kept(text)[Here - 1]
            /\ CleanIsTheSource
MeantInv == /\ Active => /\ Meant(text).tokens = Found(tokens) \o MeantFrom(text)[Here].tokens
                         /\ Meant(text).ok = MeantFrom(text)[Here].ok
            /\ LexesTheText

LEMMA PlaceFacts ==
    ASSUME PlaceInv
    PROVE  /\ text \in Seq(Character) /\ Len(text) \in Nat /\ pos \in Nat /\ pos <= Len(text)
           /\ lexeme \in Seq(Character) /\ Len(lexeme) \in Nat /\ Len(lexeme) = pos - Here + 1
           /\ Here \in 1 .. Len(text) + 1 /\ Here \in Nat /\ Here - 1 <= pos /\ pos \in Here - 1 .. Len(text)
           /\ next = Eof <=> pos = Len(text)
           /\ next # Eof => /\ next = text[pos + 1] /\ next \in Character /\ pos + 1 \in 1 .. Len(text)
                            /\ pos + 1 \in Nat
           /\ state \in Beginnings \cup {InIdent, InNumber, InInvalid} /\ state # Nowhere
  <1>1. text \in Texts /\ pos \in 0 .. Len(text) /\ lexeme \in Seq(Character) /\ Len(lexeme) <= pos
        /\ state \in Beginnings \cup {InIdent, InNumber, InInvalid}
    BY DEF PlaceInv, TypeInv, LexerTypeOK
  <1>2. /\ text \in Seq(Character) /\ Len(text) \in Nat /\ pos \in Nat /\ pos <= Len(text)
        /\ next = Eof <=> pos = Len(text)
        /\ next # Eof => next = text[pos + 1] /\ next \in Character /\ pos + 1 \in 1 .. Len(text)
    BY <1>1, TextIs
  <1>3. Len(lexeme) \in Nat
    BY <1>1
  <1>4. /\ Len(lexeme) = pos - Here + 1 /\ Here \in 1 .. Len(text) + 1 /\ Here \in Nat
        /\ Here - 1 <= pos /\ pos \in Here - 1 .. Len(text)
    <2>1. \A a, b, n \in Nat : a <= b /\ n <= a =>
             /\ n = a - (a - n + 1) + 1 /\ a - n + 1 \in 1 .. b + 1 /\ a - n + 1 \in Nat
             /\ a - n + 1 - 1 <= a /\ a \in a - n + 1 - 1 .. b
      OBVIOUS
    <2> QED  BY <1>1, <1>2, <1>3, <2>1 DEF Here
  <1>5. state # Nowhere
    BY <1>1, Labels
  <1>6. next # Eof => pos + 1 \in Nat
    BY <1>2
  <1> QED  BY <1>1, <1>2, <1>3, <1>4, <1>5, <1>6

\* A stretch of the text and the character after it.
LEMMA StretchAndOne ==
    ASSUME NEW t \in Seq(Character), NEW i \in 1 .. Len(t), NEW j \in i - 1 .. Len(t) - 1
    PROVE  Append(SubSeq(t, i, j), t[j + 1]) = SubSeq(t, i, j + 1)
  <1>1. /\ Len(t) \in Nat /\ i \in Nat /\ j \in Int /\ i \in 1 .. Len(t) + 1 /\ j \in i - 1 .. Len(t)
        /\ j + 1 \in i - 1 .. Len(t) /\ j + 1 \in 1 .. Len(t) /\ j - i + 1 \in Nat /\ j + 1 - i + 1 = j - i + 1 + 1
    OBVIOUS
  <1> DEFINE s == SubSeq(t, i, j)
             c == t[j + 1]
             a == Append(s, c)
             u == SubSeq(t, i, j + 1)
             n == j - i + 1
  <1>2. s \in Seq(Character) /\ Len(s) = n /\ (\A k \in 1 .. n : s[k] = t[i + k - 1]) /\ c \in Character
    BY <1>1, Stretch
  <1>3. u \in Seq(Character) /\ Len(u) = n + 1 /\ (\A k \in 1 .. n + 1 : u[k] = t[i + k - 1])
    BY <1>1, Stretch
  <1>4. i + (n + 1) - 1 = j + 1 /\ n \in Nat
    BY <1>1
  <1> HIDE DEF s, u, c, n
  <1>5. a \in Seq(Character) /\ Len(a) = n + 1 /\ (\A k \in 1 .. n : a[k] = s[k]) /\ a[n + 1] = c
    BY <1>2, <1>4, AppendProperties
  <1> HIDE DEF a
  <1>6. ASSUME NEW k \in 1 .. n + 1 PROVE a[k] = u[k]
    <2>1. CASE k \in 1 .. n
      BY <1>2, <1>3, <1>5, <2>1
    <2>2. CASE k = n + 1
      BY <1>3, <1>4, <1>5, <2>2 DEF c
    <2> QED  BY <1>4, <2>1, <2>2
  <1>7. a = u
    BY <1>3, <1>5, <1>6, SeqEqual
  <1> QED  BY <1>7 DEF a, u, s, c

LEMMA ScanFacts ==
    ASSUME PlaceInv, mode = "scan"
    PROVE  /\ lexeme = SubSeq(text, Here, pos) /\ state = StateOf(lexeme) /\ Divides(text, Here)
           /\ Way = Nowhere => Stuck(text, Here, pos)
           /\ next # Eof => /\ Append(lexeme, next) = SubSeq(text, Here, pos + 1)
                            /\ Way = StateOf(Append(lexeme, next))
           /\ state \in Beginnings => lexeme = state
           /\ state = Start => lexeme = << >> /\ Here = pos + 1
  <1>1. lexeme = SubSeq(text, Here, pos) /\ state = StateOf(lexeme) /\ Divides(text, Here)
    BY DEF PlaceInv, InLexeme
  <1>2. next # Eof => Append(lexeme, next) = SubSeq(text, Here, pos + 1)
    <2>1. SUFFICES ASSUME next # Eof PROVE Append(lexeme, next) = SubSeq(text, Here, pos + 1)
      OBVIOUS
    <2>2. /\ text \in Seq(Character) /\ Len(text) \in Nat /\ Here \in Nat /\ Here >= 1 /\ pos \in Nat
          /\ Here - 1 <= pos /\ pos + 1 \in 1 .. Len(text) /\ next = text[pos + 1]
      BY <2>1, PlaceFacts
    <2> HIDE DEF Here, next
    <2>3. Here \in 1 .. Len(text) /\ pos \in Here - 1 .. Len(text) - 1
      BY <2>2
    <2> QED  BY <1>1, <2>2, <2>3, StretchAndOne
  <1>3. next # Eof => Way = StateOf(Append(lexeme, next))
    BY <1>1, PlaceFacts, Moves DEF Way
  <1>4. Way = Nowhere => Stuck(text, Here, pos)
    <2>1. pos < Len(text) => next # Eof
      BY PlaceFacts
    <2> QED  BY <1>2, <1>3, <2>1 DEF Stuck
  <1>5. state \in Beginnings => lexeme = state
    BY <1>1, Labels DEF StateOf
  <1>6. state = Start => lexeme = << >> /\ Here = pos + 1
    <2>1. state = Start => lexeme = << >>
      BY <1>5, StartIsABeginning DEF Start
    <2>2. pos \in Nat /\ Len(<< >>) = 0
      BY PlaceFacts
    <2>3. lexeme = << >> => Here = pos + 1
      BY <2>2 DEF Here
    <2> QED  BY <2>1, <2>3
  <1> QED  BY <1>1, <1>2, <1>3, <1>4, <1>5, <1>6

LEMMA SpaceFacts ==
    ASSUME PlaceInv, mode = "scan", state = Start, next \in Space
    PROVE  /\ next = text[pos + 1] /\ pos + 1 \in 1 .. Len(text) /\ Here = pos + 1 /\ lexeme = << >>
           /\ pos + 1 \in Skipped(text) /\ pos + 1 \notin Commented(text)
           /\ Divides(text, pos + 2)
  <1>1. next # Eof
    BY DEF Space, Newline, Eof
  <1>2. /\ text \in Seq(Character) /\ Len(text) \in Nat /\ pos \in Nat
        /\ next = text[pos + 1] /\ pos + 1 \in 1 .. Len(text)
    BY <1>1, PlaceFacts
  <1>3. Here = pos + 1 /\ lexeme = << >> /\ Divides(text, pos + 1)
    BY ScanFacts
  <1>4. PICK h \in 1 .. Len(text) : h = pos + 1
    BY <1>2
  <1>5. ~OpensAt(text, h) /\ h + 1 = pos + 2
    BY <1>2, <1>4, Classes DEF OpensAt
  <1>6. h \notin Commented(text) /\ Divides(text, h + 1)
    BY <1>2, <1>3, <1>4, <1>5, OneBeyond
  <1>7. pos + 1 \in Skipped(text)
    BY <1>2 DEF Skipped
  <1> QED  BY <1>2, <1>3, <1>4, <1>5, <1>6, <1>7

LEMMA LexemeInText ==
    ASSUME PlaceInv, mode = "scan", NEW i \in Here .. pos
    PROVE  /\ text[i] \notin Space /\ (text[i] = "/" => lexeme = <<"/">> \/ lexeme = OpenComment)
           /\ i \in 1 .. Len(text) /\ text[i] = lexeme[i - Here + 1] /\ i - Here + 1 \in 1 .. Len(lexeme)
  <1>1. /\ text \in Seq(Character) /\ Len(text) \in Nat /\ pos \in Nat /\ Here \in Nat /\ Here >= 1 /\ pos <= Len(text)
        /\ Here \in 1 .. Len(text) + 1 /\ pos \in Here - 1 .. Len(text)
        /\ lexeme \in Seq(Character) /\ Len(lexeme) = pos - Here + 1
    BY PlaceFacts
  <1>2. lexeme = SubSeq(text, Here, pos) /\ StateOf(lexeme) # Nowhere
    BY PlaceFacts, ScanFacts
  <1> HIDE DEF Here
  <1>3. i - Here + 1 \in 1 .. pos - Here + 1 /\ Here + (i - Here + 1) - 1 = i /\ i \in 1 .. Len(text)
    BY <1>1
  <1>4. lexeme[i - Here + 1] = text[i]
    BY <1>1, <1>2, <1>3, Stretch
  <1>5. i - Here + 1 \in DOMAIN lexeme
    BY <1>1, <1>3
  <1> QED  BY <1>1, <1>2, <1>3, <1>4, <1>5, SpacesAndSlashes

LEMMA AcceptFacts ==
    ASSUME PlaceInv, mode = "scan", Way = Nowhere, Accepts(state) \notin {NoToken, "comment"}
    PROVE  /\ Here \in 1 .. Len(text) /\ Here <= pos /\ pos \in Here .. Len(text)
           /\ FormOf(lexeme) = Accepts(state)
           /\ \A i \in Here .. pos : text[i] # Newline /\ i \notin Commented(text)
           /\ Here \notin Skipped(text)
           /\ Divides(text, pos + 1)
  <1>1. /\ text \in Seq(Character) /\ Len(text) \in Nat /\ pos \in Nat /\ Here \in Nat /\ Here >= 1 /\ pos <= Len(text)
        /\ lexeme \in Seq(Character) /\ Len(lexeme) = pos - Here + 1 /\ state # Nowhere
    BY PlaceFacts
  <1>2. lexeme = SubSeq(text, Here, pos) /\ state = StateOf(lexeme) /\ Divides(text, Here)
    BY ScanFacts
  <1>3. lexeme # OpenComment
    BY <1>2, OpenCommentIs
  <1>4. FormOf(lexeme) = Accepts(state)
    BY <1>1, <1>2, <1>3, FormAccepted
  <1>5. lexeme # Start
    <2>1. ASSUME lexeme = Start PROVE FALSE
      <3>1. Start \notin FixedTexts
        BY ExactBeginnings DEF Exact
      <3>2. ~IdentLike(lexeme) /\ ~NumberLike(lexeme) /\ ~InvalidLike(lexeme)
        BY <1>1, <2>1, Kinds
      <3>3. FormOf(lexeme) = NoToken
        BY <1>1, <2>1, <3>1, <3>2, Forms
      <3> QED  BY <1>4, <3>3
    <2> QED  BY <2>1
  <1>6. Here <= pos /\ Here \in 1 .. Len(text) /\ pos \in Here .. Len(text)
    <2>1. Len(lexeme) > 0
      BY <1>1, <1>5, Kinds
    <2> HIDE DEF Here
    <2> QED  BY <1>1, <2>1
  <1>7. ASSUME NEW i \in Here .. pos, OpensAt(text, i) PROVE FALSE
    <2>1. i \in 1 .. Len(text) - 1 /\ text[i] = "/" /\ text[i + 1] = "*"
      BY <1>7 DEF OpensAt
    <2>2. lexeme = <<"/">>
      BY <1>3, <2>1, LexemeInText
    <2>3. Len(lexeme) = 1
      BY <2>2
    <2>4. i = pos
      <3>1. \A a, b \in Nat : b - a + 1 = 1 /\ i \in a .. b => i = b
        OBVIOUS
      <3>2. pos - Here + 1 = 1
        BY <1>1, <2>3, Zenon
      <3> QED  BY <1>1, <3>1, <3>2, Zenon
    <2>5. pos # Len(text)
      BY <1>1, <2>1, <2>4
    <2>6. next = "*" /\ next # Eof
      BY <2>1, <2>4, <2>5, PlaceFacts
    <2>7. Append(lexeme, next) = OpenComment
      <3> DEFINE a == Append(lexeme, next)
      <3>1. next \in Character
        BY <2>6, PlaceFacts
      <3>2. a \in Seq(Character) /\ Len(a) = Len(lexeme) + 1 /\ a[Len(lexeme) + 1] = next
            /\ \A k \in 1 .. Len(lexeme) : a[k] = lexeme[k]
        BY <1>1, <3>1, AppendProperties
      <3>3. lexeme[1] = "/" /\ 1 \in 1 .. Len(lexeme)
        BY <2>2, <2>3
      <3> HIDE DEF a
      <3>4. Len(a) = 2 /\ a[1] = "/" /\ a[2] = "*"
        BY <2>3, <2>6, <3>2, <3>3
      <3>5. OpenComment \in Seq(Character) /\ Len(OpenComment) = 2 /\ OpenComment[1] = "/" /\ OpenComment[2] = "*"
        BY DEF OpenComment, Character
      <3>6. \A k \in 1 .. 2 : k = 1 \/ k = 2
        OBVIOUS
      <3>7. a = OpenComment
        BY <3>2, <3>4, <3>5, <3>6, SeqEqual
      <3> QED  BY <3>7 DEF a
    <2>8. Way = OpenComment
      BY <2>6, <2>7, ScanFacts, OpenCommentIs
    <2> QED  BY <2>8, OpenCommentIs, Labels
  <1>8. Divides(text, pos + 1) /\ \A i \in Here .. pos : i \notin Commented(text)
    <2>1. PICK a \in 1 .. Len(text) + 2 : a = Here
      BY <1>6
    <2>2. PICK b \in a .. Len(text) + 2 : b = pos + 1
      <3> HIDE DEF Here
      <3> QED  BY <1>1, <1>6, <2>1
    <2>3. a .. b - 1 = Here .. pos
      <3>1. b - 1 = pos
        BY <1>1, <2>2
      <3> QED  BY <2>1, <3>1
    <2>4. \A i \in a .. b - 1 : ~OpensAt(text, i)
      BY <1>7, <2>3
    <2>5. Divides(text, a)
      BY <1>2, <2>1
    <2>6. Divides(text, b) /\ \A i \in a .. b - 1, c \in Comments(text) : i \notin c[1] .. c[2]
      BY <1>1, <2>4, <2>5, DividesBeyond
    <2> QED  BY <2>2, <2>3, <2>6, Zenon DEF Commented
  <1>9. Here \notin Skipped(text)
    <2>1. Here \in Here .. pos
      <3> HIDE DEF Here
      <3> QED  BY <1>1, <1>6
    <2>2. text[Here] \notin Space /\ ~OpensAt(text, Here)
      BY <1>7, <2>1, LexemeInText
    <2> QED  BY <1>1, <1>2, <1>6, <2>2, NotSkipped
  <1>10. \A i \in Here .. pos : text[i] # Newline
    BY LexemeInText, Classes
  <1> QED  BY <1>4, <1>6, <1>8, <1>9, <1>10

LEMMA UnknownFacts ==
    ASSUME PlaceInv, mode = "scan", Way = Nowhere, Accepts(state) = NoToken,
           ~(state = Start /\ next \in Space \cup {Eof})
    PROVE  MeantFrom(text)[Here] = Stop(FALSE)
  <1>1. /\ text \in Seq(Character) /\ Len(text) \in Nat /\ pos \in Nat /\ Here \in Nat /\ Here >= 1 /\ pos <= Len(text)
        /\ lexeme \in Seq(Character) /\ Len(lexeme) = pos - Here + 1 /\ state # Nowhere
        /\ pos \in Here - 1 .. Len(text)
    BY PlaceFacts
  <1>2. /\ lexeme = SubSeq(text, Here, pos) /\ state = StateOf(lexeme) /\ Divides(text, Here)
        /\ Stuck(text, Here, pos)
    BY ScanFacts
  <1>3. lexeme # OpenComment
    BY <1>2, OpenCommentIs DEF NoToken
  <1>4. lexeme # <<"/">>
    <2>1. ASSUME lexeme = <<"/">> PROVE FALSE
      <3>1. lexeme \in FixedTexts
        BY <2>1, SpellingAssumption
      <3>2. FormOf(lexeme) \in Reserved \cup Punctuation
        BY <1>1, <3>1, FormType, Forms
      <3>3. FormOf(lexeme) = NoToken
        BY <1>1, <1>2, <1>3, FormAccepted
      <3> QED  BY <3>2, <3>3 DEF NoToken, Reserved, Punctuation
    <2> QED  BY <2>1
  <1>5. Here \in 1 .. Len(text) /\ text[Here] \notin Space /\ text[Here] # "/"
    <2>1. CASE lexeme = << >>
      <3>1. state = Start
        BY <1>2, <2>1, StartIsABeginning DEF StateOf, Start
      <3>2. next # Eof /\ next \notin Space
        BY <3>1
      <3>3. Here = pos + 1
        BY <3>1, ScanFacts
      <3>4. next = text[pos + 1] /\ pos + 1 \in 1 .. Len(text) /\ next \in Character
        BY <3>2, PlaceFacts
      <3>5. next # "/"
        <4>1. ASSUME next = "/" PROVE FALSE
          <5>1. Append(lexeme, next) = <<"/">>
            BY <2>1, <4>1
          <5>2. <<"/">> \in Beginnings
            BY SpellingAssumption, ExactBeginnings DEF Exact
          <5>3. Way = <<"/">>
            BY <3>2, <5>1, <5>2, ScanFacts DEF StateOf
          <5> QED  BY <5>2, <5>3, Labels
        <4> QED  BY <4>1
      <3> QED  BY <3>2, <3>3, <3>4, <3>5
    <2>2. CASE lexeme # << >>
      <3>1. Len(lexeme) > 0
        BY <1>1, <2>2, Kinds DEF Start
      <3>2. Here \in Here .. pos
        <4> HIDE DEF Here
        <4> QED  BY <1>1, <3>1
      <3> QED  BY <1>3, <1>4, <3>2, LexemeInText
    <2> QED  BY <2>1, <2>2
  <1>6. Here \notin Skipped(text)
    BY <1>1, <1>2, <1>5, NotSkipped DEF OpensAt
  <1>7. StateOf(SubSeq(text, Here, pos)) # Nowhere /\ Accepts(StateOf(SubSeq(text, Here, pos))) = NoToken
    BY <1>1, <1>2
  <1> HIDE DEF Here
  <1> QED  BY <1>1, <1>2, <1>5, <1>6, <1>7, NothingIsRead

LEMMA OpenFacts ==
    ASSUME PlaceInv, mode = "scan", state = OpenComment
    PROVE  /\ lexeme = OpenComment /\ pos = Here + 1
           /\ Here \in 1 .. Len(text) /\ pos \in 1 .. Len(text)
           /\ OpensAt(text, Here) /\ Divides(text, Here)
           /\ pos < Closing(text, Here)
           /\ Here \in Commented(text) /\ pos \in Commented(text)
           /\ text[Here] # Newline /\ text[pos] # Newline
  <1>1. /\ text \in Seq(Character) /\ Len(text) \in Nat /\ pos \in Nat /\ Here \in Nat /\ Here >= 1 /\ pos <= Len(text)
        /\ lexeme \in Seq(Character) /\ Len(lexeme) = pos - Here + 1
    BY PlaceFacts
  <1>2. lexeme = OpenComment /\ Divides(text, Here)
    BY ScanFacts, OpenCommentIs
  <1>3. Len(lexeme) = 2 /\ lexeme[1] = "/" /\ lexeme[2] = "*"
    BY <1>2 DEF OpenComment
  <1>4. pos = Here + 1 /\ Here \in Here .. pos /\ pos \in Here .. pos /\ Here - Here + 1 = 1 /\ pos - Here + 1 = 2
        /\ Here \in 1 .. Len(text) - 1
    <2>1. \A a, b, n \in Nat : b - a + 1 = 2 /\ a >= 1 /\ b <= n =>
             /\ b = a + 1 /\ a \in a .. b /\ b \in a .. b /\ a - a + 1 = 1 /\ b - a + 1 = 2
             /\ a \in 1 .. n - 1
      OBVIOUS
    <2>2. pos - Here + 1 = 2
      BY <1>1, <1>3, Zenon
    <2> QED  BY <1>1, <2>1, <2>2, Zenon
  <1>5. text[Here] = "/" /\ text[pos] = "*"
    BY <1>3, <1>4, LexemeInText
  <1>6. OpensAt(text, Here)
    BY <1>4, <1>5 DEF OpensAt
  <1>7. PICK e \in Nat : e = Closing(text, Here) /\ e >= Here + 2
    BY <1>1, <1>6, ACommentAt
  <1>8. <<Here, e>> \in Comments(text)
    BY <1>1, <1>2, <1>6, <1>7, DividesAt
  <1>9. Here \in Here .. e /\ pos \in Here .. e /\ pos < e /\ pos \in 1 .. Len(text) /\ Here \in 1 .. Len(text)
    <2> HIDE DEF Here
    <2> QED  BY <1>1, <1>4, <1>7
  <1>10. \A i \in Here .. e : i \in Commented(text)
    <2>1. <<Here, e>>[1] = Here /\ <<Here, e>>[2] = e
      OBVIOUS
    <2> QED  BY <1>8, <2>1, Zenon DEF Commented
  <1>11. text[Here] # Newline /\ text[pos] # Newline
    BY <1>5, Classes
  <1> QED  BY <1>2, <1>4, <1>6, <1>7, <1>9, <1>10, <1>11

LEMMA InsideFacts ==
    ASSUME PlaceInv, mode \in {"comment", "star"}, NEW o \in 1 .. Len(text), Inside(o), next # Eof
    PROVE  /\ lexeme = << >> /\ state = Start /\ Here = pos + 1
           /\ pos + 1 \in 1 .. Len(text) /\ next = text[pos + 1]
           /\ pos + 1 \in Commented(text)
           /\ pos + 1 = Closing(text, o) <=> mode = "star" /\ next = "/"
           /\ pos + 1 < Closing(text, o) \/ pos + 1 = Closing(text, o)
           /\ Divides(text, Closing(text, o) + 1)
           /\ CountsTwice(text, pos + 1) <=> mode = "star" /\ next = Newline
  <1>1. /\ text \in Seq(Character) /\ Len(text) \in Nat /\ pos \in Nat /\ next = text[pos + 1]
        /\ pos + 1 \in 1 .. Len(text) /\ pos + 1 <= Len(text)
    BY PlaceFacts
  <1>2. lexeme = << >> /\ state = Start
    BY DEF PlaceInv, InComment
  <1>3. Here = pos + 1
    <2>1. Len(<< >>) = 0
      OBVIOUS
    <2> QED  BY <1>1, <1>2, <2>1 DEF Here
  <1>4. /\ OpensAt(text, o) /\ Divides(text, o) /\ o + 1 <= pos /\ pos < Closing(text, o)
        /\ mode = "star" <=> pos >= o + 2 /\ text[pos] = "*"
    BY DEF Inside
  <1>5. PICK e \in Nat : e = Closing(text, o) /\ e >= o + 2 /\ e <= Len(text) + 1
    BY <1>1, <1>4, ACommentAt
  <1>6. /\ Divides(text, e + 1) /\ <<o, e>> \in Comments(text)
        /\ \A i \in o .. e, c \in Comments(text) : i \in c[1] .. c[2] => c = <<o, e>>
    BY <1>1, <1>4, <1>5, DividesAt
  <1>7. /\ e <= Len(text) => e >= o + 3 /\ text[e - 1] = "*" /\ text[e] = "/"
        /\ \A j \in o + 2 .. Len(text) - 1 : text[j] = "*" /\ text[j + 1] = "/" => e <= j + 1
    <2>1. o \in 1 .. Len(text) - 1
      BY <1>4 DEF OpensAt
    <2> QED  BY <1>1, <1>5, <2>1, ClosingIs
  <1>8. o \in Nat /\ pos < e /\ pos + 1 <= e /\ pos + 1 \in o .. e /\ (pos + 1 < e \/ pos + 1 = e)
    BY <1>1, <1>4, <1>5
  <1>9. pos + 1 = e <=> mode = "star" /\ next = "/"
    <2>1. ASSUME pos + 1 = e PROVE mode = "star" /\ next = "/"
      <3>1. e <= Len(text) /\ e - 1 = pos
        BY <1>1, <2>1
      <3>2. text[pos] = "*" /\ text[pos + 1] = "/" /\ e >= o + 3
        BY <1>7, <2>1, <3>1
      <3>3. pos >= o + 2
        BY <1>1, <1>8, <2>1, <3>2
      <3> QED  BY <1>1, <1>4, <3>2, <3>3
    <2>2. ASSUME mode = "star", next = "/" PROVE pos + 1 = e
      <3>1. pos >= o + 2 /\ text[pos] = "*" /\ text[pos + 1] = "/"
        BY <1>1, <1>4, <2>2
      <3>2. pos \in o + 2 .. Len(text) - 1
        BY <1>1, <1>8, <3>1
      <3>3. e <= pos + 1
        BY <1>7, <3>1, <3>2
      <3> QED  BY <1>1, <1>8, <3>3
    <2> QED  BY <2>1, <2>2
  <1>10. <<o, e>>[1] = o /\ <<o, e>>[2] = e
    OBVIOUS
  <1>11. pos + 1 \in Commented(text)
    BY <1>6, <1>8, <1>10, Zenon DEF Commented
  <1>12. CountsTwice(text, pos + 1) <=> mode = "star" /\ next = Newline
    <2>1. pos + 1 - 1 = pos /\ pos + 1 > 1
      BY <1>1, <1>4, <1>8
    <2>2. CountsTwice(text, pos + 1) <=> /\ next = Newline /\ text[pos] = "*"
                                         /\ \E c \in Comments(text) : pos + 1 \in c[1] + 3 .. c[2]
      BY <1>1, <2>1 DEF CountsTwice
    <2>3. (\E c \in Comments(text) : pos + 1 \in c[1] + 3 .. c[2]) <=> pos >= o + 2
      <3>1. ASSUME NEW c \in Comments(text), pos + 1 \in c[1] + 3 .. c[2] PROVE pos >= o + 2
        <4>1. c[1] \in Nat /\ c[2] \in Nat
          <5>1. 1 \in 1 .. Len(text) + 2
            BY <1>1
          <5>2. c[1] \in 1 .. Len(text) - 1 /\ c[2] \in Nat
            BY <1>1, <5>1, CommentsAfter DEF Comments
          <5> QED  BY <1>1, <5>2
        <4>2. pos + 1 \in c[1] .. c[2] /\ pos + 1 >= c[1] + 3
          BY <1>1, <3>1, <4>1
        <4>3. c = <<o, e>>
          BY <1>6, <1>8, <4>2
        <4>4. c[1] = o
          BY <1>10, <4>3
        <4> QED  BY <1>1, <1>8, <4>2, <4>4
      <3>2. ASSUME pos >= o + 2 PROVE pos + 1 \in o + 3 .. e
        BY <1>1, <1>8, <3>2
      <3> QED  BY <1>6, <1>10, <3>1, <3>2, Zenon
    <2> QED  BY <1>4, <2>2, <2>3
  <1> QED  BY <1>1, <1>2, <1>3, <1>5, <1>6, <1>8, <1>9, <1>11, <1>12

\* Where nothing was read since the last lexeme.
LEMMA AtStart ==
    ASSUME NEW t, NEW p \in Nat
    PROVE  p - Len(<< >>) + 1 = p + 1 /\ SubSeq(t, p + 1, p) = << >> /\ StateOf(<< >>) = Start
  <1>1. Len(<< >>) = 0
    OBVIOUS
  <1>2. SubSeq(t, p + 1, p) = << >>
    BY SubSeqEmpty
  <1> QED  BY <1>1, <1>2, StartIsABeginning DEF StateOf, Start

LEMMA PlaceAtInit == LexerInit => PlaceInv
  <1> SUFFICES ASSUME LexerInit PROVE PlaceInv
    OBVIOUS
  <1>1. TypeInv
    BY TypeAtInit
  <1>2. pos = 0 /\ lexeme = << >> /\ state = Start /\ mode = "scan"
    BY DEF LexerInit
  <1>3. Here = 1 /\ SubSeq(text, 1, 0) = << >> /\ StateOf(<< >>) = Start
    <2>1. 0 - Len(<< >>) + 1 = 0 + 1 /\ SubSeq(text, 0 + 1, 0) = << >> /\ StateOf(<< >>) = Start
      BY AtStart
    <2> QED  BY <1>2, <2>1 DEF Here
  <1>4. Divides(text, 1)
    BY DEF Divides, Comments
  <1>5. InLexeme
    BY <1>2, <1>3, <1>4 DEF InLexeme
  <1>6. InComment
    BY <1>2 DEF InComment
  <1> QED  BY <1>1, <1>5, <1>6 DEF PlaceInv

LEMMA PlaceInductive == PlaceInv /\ [LexerNext]_lexerVars => PlaceInv'
  <1> SUFFICES ASSUME PlaceInv, [LexerNext]_lexerVars PROVE PlaceInv'
    OBVIOUS
  <1>1. TypeInv'
    BY TypeInductive DEF PlaceInv
  <1>2. /\ text \in Seq(Character) /\ Len(text) \in Nat /\ pos \in Nat /\ pos <= Len(text)
        /\ lexeme \in Seq(Character) /\ Len(lexeme) \in Nat
    BY PlaceFacts
  <1> SUFFICES InLexeme' /\ InComment'
    BY <1>1 DEF PlaceInv
  <1>3. ASSUME mode' \notin {"scan", "comment", "star"} PROVE InLexeme' /\ InComment'
    BY <1>3 DEF InLexeme, InComment
  <1>4. CASE Shift
    <2>1. /\ mode = "scan" /\ mode' = "scan" /\ text' = text /\ pos' = pos + 1 /\ Way # Nowhere
          /\ state' = Way /\ lexeme' = Append(lexeme, next)
      BY <1>4 DEF Shift
    <2>2. next # Eof
      BY <2>1 DEF Way
    <2>3. Here' = Here
      <3>1. Len(Append(lexeme, next)) = Len(lexeme) + 1
        BY <1>2, <2>2, PlaceFacts, AppendProperties
      <3> QED  BY <1>2, <2>1, <3>1 DEF Here
    <2>4. Divides(text, Here) /\ Append(lexeme, next) = SubSeq(text, Here, pos + 1) /\ Way = StateOf(Append(lexeme, next))
      BY <2>1, <2>2, ScanFacts
    <2>5. InLexeme'
      BY <2>1, <2>3, <2>4 DEF InLexeme
    <2>6. InComment'
      BY <2>1 DEF InComment
    <2> QED  BY <2>5, <2>6
  <1>5. CASE Whitespace
    <2>1. /\ mode = "scan" /\ mode' = "scan" /\ text' = text /\ pos' = pos + 1 /\ state = Start
          /\ state' = Start /\ lexeme' = lexeme /\ next \in Space
      BY <1>5 DEF Whitespace
    <2>2. lexeme = << >> /\ Divides(text, pos + 2)
      BY <2>1, SpaceFacts
    <2>3. pos + 1 - Len(<< >>) + 1 = pos + 1 + 1 /\ SubSeq(text, pos + 1 + 1, pos + 1) = << >> /\ StateOf(<< >>) = Start
      BY <1>2, AtStart
    <2>4. pos + 1 + 1 = pos + 2
      BY <1>2
    <2>5. Here' = pos + 2
      BY <2>1, <2>2, <2>3, <2>4 DEF Here
    <2>6. InLexeme'
      BY <2>1, <2>2, <2>3, <2>4, <2>5 DEF InLexeme
    <2>7. InComment'
      BY <2>1 DEF InComment
    <2> QED  BY <2>6, <2>7
  <1>6. CASE EndOfFile \/ Unknown \/ CommentOpen
    BY <1>3, <1>6 DEF EndOfFile, Unknown, CommentOpen
  <1>7. CASE Accept
    <2>1. CASE mode' = "failed"
      BY <1>3, <2>1
    <2>2. CASE mode' # "failed"
      <3>1. /\ mode = "scan" /\ mode' = "scan" /\ text' = text /\ pos' = pos /\ state' = Start /\ lexeme' = << >>
            /\ Way = Nowhere /\ Accepts(state) \notin {NoToken, "comment"}
        BY <1>7, <2>2 DEF Accept
      <3>2. Divides(text, pos + 1)
        BY <3>1, AcceptFacts
      <3>3. pos - Len(<< >>) + 1 = pos + 1 /\ SubSeq(text, pos + 1, pos) = << >> /\ StateOf(<< >>) = Start
        BY <1>2, AtStart
      <3>4. Here' = pos + 1
        BY <3>1, <3>3 DEF Here
      <3>5. InLexeme'
        BY <3>1, <3>2, <3>3, <3>4 DEF InLexeme
      <3>6. InComment'
        BY <3>1 DEF InComment
      <3> QED  BY <3>5, <3>6
    <2> QED  BY <2>1, <2>2
  <1>8. CASE BeginComment
    <2>1. /\ mode = "scan" /\ mode' = "comment" /\ text' = text /\ pos' = pos /\ state' = Start /\ lexeme' = << >>
          /\ state = OpenComment
      BY <1>8 DEF BeginComment, outVars
    <2>2. PICK o \in 1 .. Len(text) : o = Here
      BY <2>1, OpenFacts
    <2>3. pos = o + 1 /\ OpensAt(text, o) /\ Divides(text, o) /\ pos < Closing(text, o)
      BY <2>1, <2>2, OpenFacts
    <2>4. Inside(o)'
      <3>1. o + 1 <= pos /\ ~(pos >= o + 2)
        BY <2>3
      <3> QED  BY <2>1, <2>3, <3>1 DEF Inside
    <2>5. InLexeme'
      BY <2>1 DEF InLexeme
    <2>6. InComment'
      BY <2>1, <2>4 DEF InComment
    <2> QED  BY <2>5, <2>6
  <1>9. CASE CommentChar \/ CommentStar
    <2>1. /\ mode \in {"comment", "star"} /\ next # Eof /\ text' = text /\ pos' = pos + 1
          /\ state' = state /\ lexeme' = lexeme
      BY <1>9 DEF CommentChar, CommentStar, outVars
    <2>2. PICK o \in 1 .. Len(text) : Inside(o)
      BY <2>1 DEF PlaceInv, InComment
    <2>3. /\ lexeme = << >> /\ state = Start
          /\ next = text[pos + 1]
          /\ pos + 1 = Closing(text, o) <=> mode = "star" /\ next = "/"
          /\ pos + 1 < Closing(text, o) \/ pos + 1 = Closing(text, o)
          /\ Divides(text, Closing(text, o) + 1)
      BY <2>1, <2>2, InsideFacts
    <2>4. mode' = IF mode = "star" /\ next = "/" THEN "scan" ELSE IF next = "*" THEN "star" ELSE "comment"
      BY <1>9 DEF CommentChar, CommentStar
    <2>5. CASE mode = "star" /\ next = "/"
      <3>1. mode' = "scan" /\ Divides(text, pos + 1 + 1)
        BY <2>3, <2>4, <2>5
      <3>2. pos + 1 - Len(<< >>) + 1 = pos + 1 + 1 /\ SubSeq(text, pos + 1 + 1, pos + 1) = << >> /\ StateOf(<< >>) = Start
        BY <1>2, AtStart
      <3>3. Here' = pos + 1 + 1
        BY <2>1, <2>3, <3>2 DEF Here
      <3>4. InLexeme'
        BY <2>1, <2>3, <3>1, <3>2, <3>3 DEF InLexeme
      <3>5. InComment'
        BY <3>1 DEF InComment
      <3> QED  BY <3>4, <3>5
    <2>6. CASE ~(mode = "star" /\ next = "/")
      <3>1. pos + 1 < Closing(text, o) /\ OpensAt(text, o) /\ Divides(text, o) /\ o + 1 <= pos
        BY <2>2, <2>3, <2>6 DEF Inside
      <3>2. o + 1 <= pos + 1 /\ pos + 1 >= o + 2
        BY <1>2, <3>1
      <3>3. mode' \in {"comment", "star"} /\ (mode' = "star" <=> next = "*")
        BY <2>4, <2>6
      <3>4. Inside(o)'
        BY <2>1, <2>3, <3>1, <3>2, <3>3 DEF Inside
      <3>5. InLexeme'
        BY <3>3 DEF InLexeme
      <3>6. InComment'
        BY <2>1, <2>3, <3>4 DEF InComment
      <3> QED  BY <3>5, <3>6
    <2> QED  BY <2>5, <2>6
  <1>10. CASE UNCHANGED lexerVars
    <2>1. /\ text' = text /\ pos' = pos /\ state' = state /\ lexeme' = lexeme /\ mode' = mode
      BY <1>10 DEF lexerVars, readVars
    <2>2. InLexeme'
      BY <2>1 DEF PlaceInv, InLexeme, Here
    <2>3. InComment'
      BY <2>1 DEF PlaceInv, InComment, Inside
    <2> QED  BY <2>2, <2>3
  <1> QED  BY <1>4, <1>5, <1>6, <1>7, <1>8, <1>9, <1>10 DEF LexerNext

\* In every state of the machine but the last it is somewhere in the text.
THEOREM PlaceCorrect == LexerSpec => []PlaceInv
  <1>1. LexerInit => PlaceInv
    BY PlaceAtInit
  <1>2. PlaceInv /\ [LexerNext]_lexerVars => PlaceInv'
    BY PlaceInductive
  <1> QED  BY <1>1, <1>2, PTL DEF LexerSpec

-----------------------------------------------------------------------------
(* Lines.                                                                  *)

LEMMA LineAtInit == LexerInit => LineInv
  <1> SUFFICES ASSUME LexerInit PROVE LineInv
    OBVIOUS
  <1>1. pos = 0 /\ lexeme = << >> /\ line = 1 /\ tokens = << >>
    BY DEF LexerInit
  <1>2. Here = 1
    BY <1>1 DEF Here
  <1> QED  BY <1>1, <1>2, FirstLine DEF LineInv

LEMMA LineInductive == PlaceInv /\ LineInv /\ [LexerNext]_lexerVars => LineInv'
  <1> SUFFICES ASSUME PlaceInv, LineInv, [LexerNext]_lexerVars PROVE LineInv'
    OBVIOUS
  <1>1. /\ text \in Seq(Character) /\ Len(text) \in Nat /\ pos \in Nat /\ pos <= Len(text)
        /\ lexeme \in Seq(Character) /\ Len(lexeme) \in Nat /\ Here \in Nat \ {0} /\ Here - 1 <= pos
    BY PlaceFacts
  <1>2. line \in Nat /\ tokens \in Seq(TokenRecord)
    BY TextIs DEF PlaceInv, TypeInv, LexerTypeOK
  <1>3. \A k \in DOMAIN tokens : tokens[k].line = LineAt(text, tokens[k].at)
    BY DEF LineInv
  <1>4. Active => line = LineAt(text, Here)
    BY DEF LineInv
  <1>5. \A i \in Nat \ {0} : LineAt(text, i) \in Nat /\ LineAt(text, i + 1) = LineAt(text, i) + LinesOf(text, i)
    BY OneMoreLine
  <1>6. ASSUME ~Active', UNCHANGED <<text, tokens>> PROVE LineInv'
    BY <1>3, <1>6 DEF LineInv
  <1>7. ASSUME line' = LineAt(text, Here'), UNCHANGED <<text, tokens>> PROVE LineInv'
    BY <1>3, <1>7 DEF LineInv
  <1>8. CASE Shift
    <2>1. next # Eof
      BY <1>8 DEF Shift, Way
    <2>2. Here' = Here
      <3>1. Len(Append(lexeme, next)) = Len(lexeme) + 1
        BY <1>1, <2>1, PlaceFacts, AppendProperties
      <3> QED  BY <1>1, <1>8, <3>1 DEF Here, Shift
    <2> QED  BY <1>4, <1>7, <1>8, <2>2 DEF Shift, Active, outVars
  <1>9. CASE Whitespace
    <2>1. /\ mode = "scan" /\ state = Start /\ next \in Space /\ text' = text /\ pos' = pos + 1
          /\ lexeme' = lexeme /\ line' = line + LineOf(next) /\ tokens' = tokens
      BY <1>9 DEF Whitespace
    <2>2. next = text[pos + 1] /\ Here = pos + 1 /\ lexeme = << >> /\ pos + 1 \notin Commented(text)
      BY <2>1, SpaceFacts
    <2>3. ~CountsTwice(text, pos + 1)
      <3>1. ASSUME NEW c \in Comments(text), pos + 1 \in c[1] + 3 .. c[2] PROVE FALSE
        <4>1. c[1] \in Nat /\ c[2] \in Nat
          <5>1. 1 \in 1 .. Len(text) + 2
            BY <1>1
          <5>2. c[1] \in 1 .. Len(text) - 1 /\ c[2] \in Nat
            BY <1>1, <5>1, CommentsAfter DEF Comments
          <5> QED  BY <1>1, <5>2
        <4>2. pos + 1 \in c[1] .. c[2]
          BY <1>1, <3>1, <4>1
        <4> QED  BY <2>2, <4>2 DEF Commented
      <3> QED  BY <3>1 DEF CountsTwice
    <2>4. LinesOf(text, pos + 1) = LineOf(next)
      BY <2>2, <2>3 DEF LinesOf, LineOf
    <2>5. Here' = pos + 1 + 1
      BY <1>1, <2>1, <2>2, AtStart DEF Here
    <2>6. pos + 1 \in Nat \ {0}
      BY <1>1
    <2>7. LineAt(text, pos + 1 + 1) = LineAt(text, pos + 1) + LineOf(next)
      BY <1>5, <2>4, <2>6
    <2>8. line' = LineAt(text, Here')
      BY <1>4, <2>1, <2>2, <2>5, <2>7 DEF Active
    <2> QED  BY <1>7, <2>1, <2>8
  <1>10. CASE EndOfFile \/ Unknown \/ CommentOpen
    BY <1>6, <1>10 DEF EndOfFile, Unknown, CommentOpen, Active, outVars
  <1>11. CASE Accept
    <2>1. CASE mode' = "failed"
      <3>1. UNCHANGED <<text, tokens>>
        BY <1>11, <2>1 DEF Accept, outVars
      <3> QED  BY <1>6, <2>1, <3>1 DEF Active
    <2>2. CASE mode' # "failed"
      <3> DEFINE token == [type |-> Accepts(state), lexeme |-> lexeme, line |-> line, at |-> Here]
      <3>1. /\ mode = "scan" /\ mode' = "scan" /\ text' = text /\ pos' = pos /\ lexeme' = << >> /\ line' = line
            /\ tokens' = Append(tokens, token)
            /\ Way = Nowhere /\ Accepts(state) \notin {NoToken, "comment"}
        BY <1>11, <2>2 DEF Accept, Here
      <3>2. Here' = pos + 1
        BY <1>1, <3>1, AtStart DEF Here
      <3>3. \A i \in Here .. pos : text[i] # Newline
        BY <3>1, AcceptFacts
      <3>4. LineAt(text, Here) = LineAt(text, pos + 1)
        <4>1. pos + 1 \in Nat /\ Here <= pos + 1 /\ pos + 1 - 1 = pos
          BY <1>1
        <4>2. \A i \in Here .. pos + 1 - 1 : text[i] # Newline
          BY <3>3, <4>1
        <4> HIDE DEF Here
        <4> QED  BY <1>1, <4>1, <4>2, SameLine
      <3>5. line = LineAt(text, Here)
        BY <1>4, <3>1 DEF Active
      <3>6. token.line = LineAt(text, token.at)
        BY <3>5
      <3> HIDE DEF token
      <3>7. /\ Len(tokens') = Len(tokens) + 1 /\ tokens'[Len(tokens) + 1] = token
            /\ \A k \in 1 .. Len(tokens) : tokens'[k] = tokens[k]
            /\ DOMAIN tokens = 1 .. Len(tokens) /\ DOMAIN tokens' = 1 .. Len(tokens) + 1 /\ Len(tokens) \in Nat
        BY <1>2, <3>1
      <3>8. \A k \in 1 .. Len(tokens) + 1 : k = Len(tokens) + 1 \/ k \in 1 .. Len(tokens)
        BY <3>7
      <3>9. \A k \in DOMAIN tokens' : tokens'[k].line = LineAt(text, tokens'[k].at)
        BY <1>3, <3>6, <3>7, <3>8, Zenon
      <3> QED  BY <3>1, <3>2, <3>4, <3>5, <3>9 DEF LineInv
    <2> QED  BY <2>1, <2>2
  <1>12. CASE BeginComment
    <2>1. /\ mode = "scan" /\ state = OpenComment /\ text' = text /\ pos' = pos /\ lexeme' = << >> /\ line' = line
          /\ tokens' = tokens
      BY <1>12 DEF BeginComment, outVars
    <2>2. pos = Here + 1 /\ text[Here] # Newline /\ text[pos] # Newline
      BY <2>1, OpenFacts
    <2>3. Here' = pos + 1
      BY <1>1, <2>1, AtStart DEF Here
    <2>4. pos + 1 \in Nat /\ Here <= pos + 1 /\ \A i \in Here .. pos + 1 - 1 : i = Here \/ i = pos
      <3> HIDE DEF Here
      <3> QED  BY <1>1, <2>2
    <2>5. LineAt(text, Here) = LineAt(text, pos + 1)
      <3>1. \A i \in Here .. pos + 1 - 1 : text[i] # Newline
        BY <2>2, <2>4
      <3> HIDE DEF Here
      <3> QED  BY <1>1, <2>4, <3>1, SameLine
    <2>6. line' = LineAt(text, Here')
      BY <1>4, <2>1, <2>3, <2>5 DEF Active
    <2> QED  BY <1>7, <2>1, <2>6
  <1>13. CASE CommentChar \/ CommentStar
    <2>1. /\ mode \in {"comment", "star"} /\ next # Eof /\ text' = text /\ pos' = pos + 1
          /\ lexeme' = lexeme /\ tokens' = tokens
          /\ line' = line + (IF mode = "star" THEN 2 * LineOf(next) ELSE LineOf(next))
      BY <1>13 DEF CommentChar, CommentStar, outVars
    <2>2. PICK o \in 1 .. Len(text) : Inside(o)
      BY <2>1 DEF PlaceInv, InComment
    <2>3. /\ lexeme = << >> /\ Here = pos + 1 /\ next = text[pos + 1]
          /\ CountsTwice(text, pos + 1) <=> mode = "star" /\ next = Newline
      BY <2>1, <2>2, InsideFacts
    <2>4. LinesOf(text, pos + 1) = IF mode = "star" THEN 2 * LineOf(next) ELSE LineOf(next)
      BY <2>3 DEF LinesOf, LineOf
    <2>5. Here' = pos + 1 + 1
      BY <1>1, <2>1, <2>3, AtStart DEF Here
    <2>6. pos + 1 \in Nat \ {0}
      BY <1>1
    <2>7. LineAt(text, pos + 1 + 1) = LineAt(text, pos + 1) + LinesOf(text, pos + 1)
      BY <1>5, <2>6
    <2>8. line' = LineAt(text, Here')
      BY <1>4, <2>1, <2>3, <2>4, <2>5, <2>7 DEF Active
    <2> QED  BY <1>7, <2>1, <2>8
  <1>14. CASE UNCHANGED lexerVars
    BY <1>14 DEF lexerVars, readVars, outVars, LineInv, Active, Here
  <1> QED  BY <1>8, <1>9, <1>10, <1>11, <1>12, <1>13, <1>14 DEF LexerNext

\* The line of every token is the number of newlines before it and one, where a newline
\* that follows an asterisk in a comment counts twice.
THEOREM LinesCorrect == LexerSpec => []LinesAreCounted
  <1>1. LexerInit => LineInv
    BY LineAtInit
  <1>2. PlaceInv /\ LineInv /\ [LexerNext]_lexerVars => LineInv'
    BY LineInductive
  <1>3. LineInv => LinesAreCounted
    BY DEF LineInv, LinesAreCounted
  <1> QED  BY <1>1, <1>2, <1>3, PlaceCorrect, PTL DEF LexerSpec

-----------------------------------------------------------------------------
(* The clean source.                                                       *)

LEMMA CleanAtInit == LexerInit => CleanInv
  <1> SUFFICES ASSUME LexerInit PROVE CleanInv
    OBVIOUS
  <1>1. PlaceInv /\ pos = 0 /\ lexeme = << >> /\ clean = << >> /\ mode = "scan"
    BY PlaceAtInit DEF LexerInit
  <1>2. text \in Seq(Character) /\ 0 \in 0 .. Len(text)
    BY <1>1, PlaceFacts
  <1>3. Kept(text)[0] = << >>
    BY <1>2, KeptIs DEF KeptAt
  <1>4. Here - 1 = 0
    <2>1. pos = 0 /\ lexeme = << >>
      BY <1>1
    <2>2. Here = 1
      BY <2>1 DEF Here
    <2> QED  BY <2>2
  <1> QED  BY <1>1, <1>3, <1>4 DEF CleanInv, CleanIsTheSource

LEMMA CleanInductive == PlaceInv /\ CleanInv /\ [LexerNext]_lexerVars => CleanInv'
  <1> SUFFICES ASSUME PlaceInv, CleanInv, [LexerNext]_lexerVars PROVE CleanInv'
    OBVIOUS
  <1>1. /\ text \in Seq(Character) /\ Len(text) \in Nat /\ pos \in Nat /\ pos <= Len(text)
        /\ lexeme \in Seq(Character) /\ Len(lexeme) \in Nat /\ Here \in Nat \ {0} /\ Here - 1 <= pos
        /\ Here - 1 \in 0 .. Len(text) /\ pos \in Here - 1 .. Len(text) /\ Here - 1 + 1 = Here
    <2>1. \A a, n \in Nat : a \in 1 .. n + 1 => a \in Nat \ {0} /\ a - 1 \in 0 .. n /\ a - 1 + 1 = a
      OBVIOUS
    <2> QED  BY <2>1, PlaceFacts
  <1>2. Active => clean = Kept(text)[Here - 1]
    BY DEF CleanInv
  <1>3. ASSUME Active', clean' = Kept(text)[Here' - 1], text' = text PROVE CleanInv'
    <2>1. mode' # "done"
      BY <1>3 DEF Active
    <2> QED  BY <1>3, <2>1 DEF CleanInv, CleanIsTheSource
  <1>4. ASSUME mode' = "failed" PROVE CleanInv'
    BY <1>4 DEF CleanInv, CleanIsTheSource, Active
  <1>5. pos + 1 - 1 = pos /\ pos + 1 + 1 - 1 = pos + 1
    BY <1>1
  <1>6. ASSUME NEW i \in 1 .. Len(text)
        PROVE  Kept(text)[i] = IF i \in Commented(text) THEN Kept(text)[i - 1] ELSE Append(Kept(text)[i - 1], text[i])
    <2>1. i \in 0 .. Len(text) /\ i # 0
      OBVIOUS
    <2> QED  BY <1>1, <2>1, KeptIs DEF KeptAt
  <1>7. CASE Shift
    <2>1. next # Eof
      BY <1>7 DEF Shift, Way
    <2>2. Here' = Here
      <3>1. Len(Append(lexeme, next)) = Len(lexeme) + 1
        BY <1>1, <2>1, PlaceFacts, AppendProperties
      <3> QED  BY <1>1, <1>7, <3>1 DEF Here, Shift
    <2> QED  BY <1>2, <1>3, <1>7, <2>2 DEF Shift, Active, outVars
  <1>8. CASE Whitespace
    <2>1. /\ mode = "scan" /\ mode' = "scan" /\ state = Start /\ next \in Space /\ text' = text /\ pos' = pos + 1
          /\ lexeme' = lexeme /\ clean' = Append(clean, next)
      BY <1>8 DEF Whitespace
    <2>2. /\ next = text[pos + 1] /\ Here = pos + 1 /\ lexeme = << >> /\ pos + 1 \notin Commented(text)
          /\ pos + 1 \in 1 .. Len(text)
      BY <2>1, SpaceFacts
    <2>3. Here' = pos + 1 + 1
      BY <1>1, <2>1, <2>2, AtStart DEF Here
    <2>4. PICK i \in 1 .. Len(text) : i = pos + 1
      BY <2>2
    <2>5. clean' = Append(Kept(text)[i - 1], text[i])
      <3>1. Active /\ Here = i
        BY <2>1, <2>2, <2>4 DEF Active
      <3>2. clean = Kept(text)[i - 1]
        BY <1>2, <3>1, Zenon
      <3> QED  BY <2>1, <2>2, <2>4, <3>2, Zenon
    <2>6. clean' = Kept(text)[Here' - 1]
      <3>1. clean' = Kept(text)[i]
        BY <1>6, <2>2, <2>4, <2>5, Zenon
      <3>2. Here' - 1 = i
        BY <1>1, <2>3, <2>4
      <3> QED  BY <3>1, <3>2, Zenon
    <2> QED  BY <1>3, <2>1, <2>6 DEF Active
  <1>9. CASE EndOfFile
    <2>1. mode = "scan" /\ state = Start /\ next = Eof /\ mode' = "done" /\ text' = text /\ clean' = clean
      BY <1>9 DEF EndOfFile, outVars
    <2>2. pos = Len(text) /\ Here = pos + 1
      BY <2>1, PlaceFacts, ScanFacts
    <2>3. clean = Kept(text)[Len(text)]
      BY <1>2, <1>5, <2>1, <2>2 DEF Active
    <2> QED  BY <2>1, <2>3 DEF CleanInv, CleanIsTheSource, Active
  <1>10. CASE Unknown \/ CommentOpen
    BY <1>4, <1>10 DEF Unknown, CommentOpen
  <1>11. CASE Accept
    <2>1. CASE mode' = "failed"
      BY <1>4, <2>1
    <2>2. CASE mode' # "failed"
      <3>1. /\ mode = "scan" /\ mode' = "scan" /\ text' = text /\ pos' = pos /\ lexeme' = << >>
            /\ clean' = clean \o lexeme
            /\ Way = Nowhere /\ Accepts(state) \notin {NoToken, "comment"}
        BY <1>11, <2>2 DEF Accept
      <3>2. Here' = pos + 1
        BY <1>1, <3>1, AtStart DEF Here
      <3>3. \A i \in Here .. pos : i \notin Commented(text)
        BY <3>1, AcceptFacts
      <3>4. lexeme = SubSeq(text, Here, pos)
        BY <3>1, ScanFacts
      <3>5. Kept(text)[pos] = Kept(text)[Here - 1] \o SubSeq(text, Here, pos)
        <4>1. \A i \in Here - 1 + 1 .. pos : i \notin Commented(text)
          BY <1>1, <3>3
        <4> HIDE DEF Here
        <4>2. Kept(text)[pos] = Kept(text)[Here - 1] \o SubSeq(text, Here - 1 + 1, pos)
          BY <1>1, <4>1, KeptBetween
        <4> QED  BY <1>1, <4>2
      <3>6. clean = Kept(text)[Here - 1]
        BY <1>2, <3>1 DEF Active
      <3>7. clean' = Kept(text)[Here' - 1]
        <4>1. clean' = Kept(text)[pos]
          BY <3>1, <3>4, <3>5, <3>6, Zenon
        <4>2. Here' - 1 = pos
          BY <1>1, <3>2
        <4> QED  BY <4>1, <4>2, Zenon
      <3> QED  BY <1>3, <3>1, <3>7 DEF Active
    <2> QED  BY <2>1, <2>2
  <1>12. CASE BeginComment
    <2>1. /\ mode = "scan" /\ mode' = "comment" /\ state = OpenComment /\ text' = text /\ pos' = pos
          /\ lexeme' = << >> /\ clean' = clean
      BY <1>12 DEF BeginComment, outVars
    <2>2. /\ pos = Here + 1 /\ Here \in Commented(text) /\ pos \in Commented(text)
          /\ Here \in 1 .. Len(text) /\ pos \in 1 .. Len(text)
      BY <2>1, OpenFacts
    <2>3. Here' = pos + 1
      BY <1>1, <2>1, AtStart DEF Here
    <2>4. pos - 1 = Here
      BY <1>1, <2>2
    <2>5. Kept(text)[pos] = Kept(text)[Here - 1]
      <3>1. Kept(text)[pos] = Kept(text)[pos - 1]
        BY <1>6, <2>2
      <3>2. Kept(text)[Here] = Kept(text)[Here - 1]
        BY <1>6, <2>2
      <3> QED  BY <2>4, <3>1, <3>2
    <2>6. clean' = Kept(text)[Here' - 1]
      <3>1. clean' = Kept(text)[pos]
        BY <1>2, <2>1, <2>5, Zenon DEF Active
      <3>2. Here' - 1 = pos
        BY <1>1, <2>3
      <3> QED  BY <3>1, <3>2, Zenon
    <2> QED  BY <1>3, <2>1, <2>6 DEF Active
  <1>13. CASE CommentChar \/ CommentStar
    <2>1. /\ mode \in {"comment", "star"} /\ next # Eof /\ text' = text /\ pos' = pos + 1
          /\ lexeme' = lexeme /\ clean' = clean /\ mode' \in {"scan", "comment", "star"}
      BY <1>13 DEF CommentChar, CommentStar, outVars
    <2>2. PICK o \in 1 .. Len(text) : Inside(o)
      BY <2>1 DEF PlaceInv, InComment
    <2>3. /\ lexeme = << >> /\ Here = pos + 1 /\ pos + 1 \in Commented(text) /\ pos + 1 \in 1 .. Len(text)
      BY <2>1, <2>2, InsideFacts
    <2>4. Here' = pos + 1 + 1
      BY <1>1, <2>1, <2>3, AtStart DEF Here
    <2>5. PICK i \in 1 .. Len(text) : i = pos + 1
      BY <2>3
    <2>6. clean' = Kept(text)[Here' - 1]
      <3>1. Active /\ Here = i
        BY <2>1, <2>3, <2>5 DEF Active
      <3>2. clean = Kept(text)[i - 1]
        BY <1>2, <3>1, Zenon
      <3>3. clean' = Kept(text)[i]
        BY <1>6, <2>1, <2>3, <2>5, <3>2, Zenon
      <3>4. Here' - 1 = i
        BY <1>1, <2>4, <2>5
      <3> QED  BY <3>3, <3>4, Zenon
    <2> QED  BY <1>3, <2>1, <2>6 DEF Active
  <1>14. CASE UNCHANGED lexerVars
    BY <1>14 DEF lexerVars, readVars, outVars, CleanInv, CleanIsTheSource, Active, Here
  <1> QED  BY <1>7, <1>8, <1>9, <1>10, <1>11, <1>12, <1>13, <1>14 DEF LexerNext

\* When a text is scanned to its end the clean source is the text without its comments,
\* character for character.
THEOREM CleanCorrect == LexerSpec => []CleanIsTheSource
  <1>1. LexerInit => CleanInv
    BY CleanAtInit
  <1>2. PlaceInv /\ CleanInv /\ [LexerNext]_lexerVars => CleanInv'
    BY CleanInductive
  <1>3. CleanInv => CleanIsTheSource
    BY DEF CleanInv
  <1> QED  BY <1>1, <1>2, <1>3, PlaceCorrect, PTL DEF LexerSpec

-----------------------------------------------------------------------------
(* The tokens.                                                             *)

LEMMA FoundIs ==
    ASSUME NEW ts \in Seq(TokenRecord)
    PROVE  /\ Found(ts) \in Seq(FoundToken) /\ Len(Found(ts)) = Len(ts)
           /\ \A k \in 1 .. Len(ts) :
                 Found(ts)[k] = [type |-> ts[k].type, lexeme |-> ts[k].lexeme, at |-> ts[k].at]
  <1>1. Len(ts) \in Nat /\ DOMAIN ts = 1 .. Len(ts) /\ \A k \in 1 .. Len(ts) : ts[k] \in TokenRecord
    OBVIOUS
  <1>2. Kind \subseteq Form
    BY DEF Kind, Form
  <1>3. ASSUME NEW k \in 1 .. Len(ts)
        PROVE  [type |-> ts[k].type, lexeme |-> ts[k].lexeme, at |-> ts[k].at] \in FoundToken
    <2>1. ts[k].type \in Form /\ ts[k].lexeme \in Seq(Character) /\ ts[k].at \in Nat
      BY <1>1, <1>2 DEF TokenRecord
    <2> QED  BY <2>1 DEF FoundToken
  <1>4. Found(ts) = [k \in 1 .. Len(ts) |-> [type |-> ts[k].type, lexeme |-> ts[k].lexeme, at |-> ts[k].at]]
    BY <1>1 DEF Found
  <1> QED  BY <1>1, <1>3, <1>4, IsASeq

LEMMA FoundOneMore ==
    ASSUME NEW ts \in Seq(TokenRecord), NEW token \in TokenRecord
    PROVE  Found(Append(ts, token)) =
              Append(Found(ts), [type |-> token.type, lexeme |-> token.lexeme, at |-> token.at])
  <1> DEFINE us == Append(ts, token)
             x == [type |-> token.type, lexeme |-> token.lexeme, at |-> token.at]
             n == Len(ts)
             f == Found(ts)
             g == Found(us)
             h == Append(f, x)
  <1>1. us \in Seq(TokenRecord) /\ Len(us) = n + 1 /\ us[n + 1] = token /\ (\A k \in 1 .. n : us[k] = ts[k]) /\ n \in Nat
    BY AppendProperties
  <1> HIDE DEF us
  <1>2. f \in Seq(FoundToken) /\ Len(f) = n
        /\ \A k \in 1 .. n : f[k] = [type |-> ts[k].type, lexeme |-> ts[k].lexeme, at |-> ts[k].at]
    BY FoundIs
  <1>3. g \in Seq(FoundToken) /\ Len(g) = n + 1
        /\ \A k \in 1 .. n + 1 : g[k] = [type |-> us[k].type, lexeme |-> us[k].lexeme, at |-> us[k].at]
    BY <1>1, FoundIs
  <1>4. n + 1 \in 1 .. n + 1 /\ (\A k \in 1 .. n : k \in 1 .. n + 1) /\ \A k \in 1 .. n + 1 : k = n + 1 \/ k \in 1 .. n
    BY <1>1
  <1>5. g[n + 1] = x
    BY <1>1, <1>3, <1>4
  <1>6. x \in FoundToken
    BY <1>3, <1>4, <1>5
  <1> HIDE DEF x, n, f, g
  <1>7. h \in Seq(FoundToken) /\ Len(h) = n + 1 /\ h[n + 1] = x /\ (\A k \in 1 .. n : h[k] = f[k])
    BY <1>2, <1>6, AppendProperties
  <1> HIDE DEF h
  <1>8. ASSUME NEW k \in 1 .. n + 1 PROVE g[k] = h[k]
    <2>1. CASE k = n + 1
      BY <1>5, <1>7, <2>1
    <2>2. CASE k \in 1 .. n
      BY <1>1, <1>2, <1>3, <1>4, <1>7, <2>2, ZenonT(60)
    <2> QED  BY <1>4, <2>1, <2>2
  <1>9. g = h
    BY <1>3, <1>7, <1>8, SeqEqual
  <1> QED  BY <1>9 DEF g, h, f, us, x

\* What was found, and then one token more, and then the rest.
LEMMA OneFoundBetween ==
    ASSUME NEW a \in Seq(FoundToken), NEW x \in FoundToken, NEW b \in Seq(FoundToken)
    PROVE  a \o (<<x>> \o b) = Append(a, x) \o b
  <1>1. ASSUME NEW S, a \in Seq(S), x \in S, b \in Seq(S)
        PROVE  a \o (<<x>> \o b) = Append(a, x) \o b
    <2>1. <<x>> \in Seq(S)
      BY <1>1
    <2>2. PICK one \in Seq(S) : one = <<x>>
      BY <2>1, Zenon
    <2>3. Append(a, x) = a \o <<x>>
      BY <1>1, AppendIsConcat
    <2>4. (a \o one) \o b = a \o (one \o b)
      BY <1>1, ConcatAssociative
    <2> QED  BY <2>2, <2>3, <2>4, Zenon
  <1> QED  BY <1>1, Zenon

LEMMA MeantAtInit == LexerInit => MeantInv
  <1> SUFFICES ASSUME LexerInit PROVE MeantInv
    OBVIOUS
  <1>1. PlaceInv /\ tokens = << >> /\ mode = "scan"
    BY PlaceAtInit DEF LexerInit
  <1>2. text \in Seq(Character) /\ 1 \in 1 .. Len(text) + 1
    BY <1>1, PlaceFacts
  <1>3. MeantFrom(text)[1].tokens \in Seq(FoundToken)
    BY <1>2, MeantFromIs DEF Meaning
  <1>4. Here = 1
    <2>1. pos = 0 /\ lexeme = << >>
      BY DEF LexerInit
    <2> QED  BY <2>1 DEF Here
  <1>5. Found(tokens) = << >>
    BY <1>1 DEF Found
  <1>6. << >> \o MeantFrom(text)[1].tokens = MeantFrom(text)[1].tokens
    BY <1>3, ConcatEmptySeq
  <1> QED  BY <1>1, <1>4, <1>5, <1>6 DEF MeantInv, Meant, LexesTheText, Scanned

LEMMA MeantInductive == PlaceInv /\ MeantInv /\ [LexerNext]_lexerVars => MeantInv'
  <1> SUFFICES ASSUME PlaceInv, MeantInv, [LexerNext]_lexerVars PROVE MeantInv'
    OBVIOUS
  <1>1. /\ text \in Seq(Character) /\ Len(text) \in Nat /\ pos \in Nat /\ pos <= Len(text)
        /\ lexeme \in Seq(Character) /\ Len(lexeme) \in Nat /\ Len(lexeme) = pos - Here + 1
        /\ Here \in 1 .. Len(text) + 1 /\ Here \in Nat \ {0} /\ Here - 1 <= pos
    BY PlaceFacts
  <1>2. tokens \in Seq(TokenRecord) /\ Found(tokens) \in Seq(FoundToken)
    BY FoundIs DEF PlaceInv, TypeInv
  <1>3. \A i \in 1 .. Len(text) + 1 : MeantFrom(text)[i].tokens \in Seq(FoundToken)
    BY <1>1, MeantFromIs DEF Meaning
  <1>4. Active => /\ Meant(text).tokens = Found(tokens) \o MeantFrom(text)[Here].tokens
                  /\ Meant(text).ok = MeantFrom(text)[Here].ok
    BY DEF MeantInv
  <1>5. ASSUME Active, Active', text' = text, tokens' = tokens, MeantFrom(text)[Here] = MeantFrom(text)[Here']
        PROVE  MeantInv'
    <2>1. ~Scanned'
      BY <1>5 DEF Active, Scanned
    <2> QED  BY <1>4, <1>5, <2>1 DEF MeantInv, LexesTheText
  <1>6. ASSUME Active, text' = text, tokens' = tokens, NEW ok \in BOOLEAN, MeantFrom(text)[Here] = Stop(ok),
               mode' = IF ok THEN "done" ELSE "failed"
        PROVE  MeantInv'
    <2>1. Stop(ok).tokens = << >> /\ Stop(ok).ok = ok
      BY DEF Stop
    <2>2. Found(tokens) \o << >> = Found(tokens)
      BY <1>2, ConcatEmptySeq
    <2>3. Meant(text).tokens = Found(tokens) /\ Meant(text).ok = ok
      BY <1>4, <1>6, <2>1, <2>2
    <2>4. ~Active' /\ (mode' = "done") = ok
      BY <1>6 DEF Active
    <2> QED  BY <1>6, <2>3, <2>4 DEF MeantInv, LexesTheText
  <1>7. CASE Shift
    <2>1. next # Eof
      BY <1>7 DEF Shift, Way
    <2>2. Here' = Here
      <3>1. Len(Append(lexeme, next)) = Len(lexeme) + 1
        BY <1>1, <2>1, PlaceFacts, AppendProperties
      <3>2. pos \in Nat /\ Len(lexeme) \in Nat
        BY <1>1
      <3> QED  BY <1>7, <3>1, <3>2 DEF Here, Shift
    <2>3. Active /\ Active' /\ text' = text /\ tokens' = tokens
      BY <1>7 DEF Shift, Active, outVars
    <2> QED  BY <1>5, <2>2, <2>3, Zenon
  <1>8. CASE Whitespace
    <2>1. /\ mode = "scan" /\ mode' = "scan" /\ state = Start /\ next \in Space /\ text' = text /\ pos' = pos + 1
          /\ lexeme' = lexeme /\ tokens' = tokens
      BY <1>8 DEF Whitespace
    <2>2. Here = pos + 1 /\ lexeme = << >> /\ pos + 1 \in Skipped(text) /\ pos + 1 \in 1 .. Len(text)
      BY <2>1, SpaceFacts
    <2>3. Here' = pos + 1 + 1
      BY <1>1, <2>1, <2>2, AtStart DEF Here
    <2>4. PICK i \in Skipped(text) : i = pos + 1 /\ i \in 1 .. Len(text)
      BY <2>2
    <2>5. MeantFrom(text)[i] = MeantFrom(text)[i + 1]
      BY <1>1, <2>4, SkippedMeansNothing
    <2>6. Here = i /\ Here' = i + 1
      BY <2>2, <2>3, <2>4
    <2> QED  BY <1>5, <2>1, <2>5, <2>6 DEF Active
  <1>9. CASE EndOfFile
    <2>1. mode = "scan" /\ state = Start /\ next = Eof /\ mode' = "done" /\ text' = text /\ tokens' = tokens
      BY <1>9 DEF EndOfFile, outVars
    <2>2. pos = Len(text) /\ Here = pos + 1 /\ Divides(text, Here)
      BY <2>1, PlaceFacts, ScanFacts
    <2>3. PICK i \in 1 .. Len(text) + 1 : i = Here /\ i = Len(text) + 1 /\ i > Len(text)
      BY <1>1, <2>2
    <2>4. Closed(text)
      <3>1. ASSUME NEW c \in Comments(text) PROVE c[2] <= Len(text)
        <4>1. c \notin CommentsFrom(text)[i]
          <5>1. i \in 1 .. Len(text) + 2
            BY <1>1
          <5>2. ASSUME c \in CommentsFrom(text)[i] PROVE FALSE
            <6>1. c[1] \in i .. Len(text) - 1
              BY <1>1, <5>1, <5>2, CommentsAfter
            <6> QED  BY <1>1, <2>3, <6>1
          <5> QED  BY <5>2
        <4>2. c[2] < i
          BY <2>2, <2>3, <4>1 DEF Divides
        <4>3. c[2] \in Nat
          <5>1. 1 \in 1 .. Len(text) + 2
            BY <1>1
          <5> QED  BY <1>1, <5>1, CommentsAfter DEF Comments
        <4> QED  BY <1>1, <2>3, <4>2, <4>3
      <3> QED  BY <3>1 DEF Closed
    <2>5. MeantFrom(text)[i] = Stop(Closed(text))
      BY <1>1, <2>3, MeantFromIs DEF MeantAt
    <2>6. MeantFrom(text)[Here] = Stop(TRUE)
      BY <2>3, <2>4, <2>5
    <2> QED  BY <1>6, <2>1, <2>6 DEF Active
  <1>10. CASE Unknown
    <2>1. /\ mode = "scan" /\ Way = Nowhere /\ Accepts(state) = NoToken
          /\ ~(state = Start /\ next \in Space \cup {Eof})
          /\ mode' = "failed" /\ text' = text /\ tokens' = tokens
      BY <1>10 DEF Unknown, outVars
    <2>2. MeantFrom(text)[Here] = Stop(FALSE)
      BY <2>1, UnknownFacts
    <2> QED  BY <1>6, <2>1, <2>2 DEF Active
  <1>11. CASE Accept
    <2> DEFINE type == Accepts(state)
    <2>1. mode = "scan" /\ Way = Nowhere /\ type \notin {NoToken, "comment"}
      BY <1>11 DEF Accept
    <2>2. /\ Here \in 1 .. Len(text) /\ pos \in Here .. Len(text)
          /\ FormOf(lexeme) = type /\ Here \notin Skipped(text)
      BY <2>1, AcceptFacts
    <2>3. lexeme = SubSeq(text, Here, pos) /\ Stuck(text, Here, pos)
      BY <2>1, ScanFacts
    <2>4. type = FormOf(SubSeq(text, Here, pos)) /\ type # NoToken
      BY <2>1, <2>2, <2>3
    <2>5. MeantFrom(text)[Here] =
              IF LongerThan(type, pos - Here + 1) THEN Stop(FALSE)
              ELSE [tokens |-> <<[type |-> type, lexeme |-> SubSeq(text, Here, pos), at |-> Here]>>
                               \o MeantFrom(text)[pos + 1].tokens,
                    ok |-> MeantFrom(text)[pos + 1].ok]
      <3>1. PICK h \in 1 .. Len(text) : h = Here
        BY <2>2
      <3>2. PICK p \in h .. Len(text) : p = pos
        BY <2>2, <3>1
      <3>3. PICK f : f = type
        OBVIOUS
      <3> HIDE DEF Here, type
      <3>4. f = FormOf(SubSeq(text, h, p)) /\ f # NoToken /\ Stuck(text, h, p) /\ h \notin Skipped(text)
        BY <2>2, <2>3, <2>4, <3>1, <3>2, <3>3
      <3>5. text \in Seq(Character)
        BY <1>1
      <3>6. MeantFrom(text)[h] =
              IF LongerThan(f, p - h + 1) THEN Stop(FALSE)
              ELSE [tokens |-> <<[type |-> f, lexeme |-> SubSeq(text, h, p), at |-> h]>>
                               \o MeantFrom(text)[p + 1].tokens,
                    ok |-> MeantFrom(text)[p + 1].ok]
        BY <3>4, <3>5, Reads, ZenonT(60)
      <3> QED  BY <3>1, <3>2, <3>3, <3>6, Zenon
    <2>6. TooLong(type) <=> LongerThan(type, pos - Here + 1)
      BY <1>1 DEF TooLong, LongerThan
    <2>7. CASE mode' = "failed"
      <3>1. TooLong(type) /\ text' = text /\ tokens' = tokens
        BY <1>11, <2>1, <2>7 DEF Accept, outVars
      <3>2. MeantFrom(text)[Here] = Stop(FALSE)
        BY <2>5, <2>6, <3>1
      <3> QED  BY <1>6, <2>1, <2>7, <3>1, <3>2 DEF Active
    <2>8. CASE mode' # "failed"
      <3> DEFINE token == [type |-> type, lexeme |-> lexeme, line |-> line, at |-> Here]
                 found == [type |-> type, lexeme |-> lexeme, at |-> Here]
                 rest == MeantFrom(text)[pos + 1]
      <3>1. /\ ~TooLong(type) /\ mode' = "scan" /\ text' = text /\ pos' = pos /\ lexeme' = << >>
            /\ tokens' = Append(tokens, token)
        BY <1>11, <2>1, <2>8 DEF Accept, Here
      <3>2. Here' = pos + 1
        BY <1>1, <3>1, AtStart DEF Here
      <3>3. MeantFrom(text)[Here] = [tokens |-> <<found>> \o rest.tokens, ok |-> rest.ok]
        BY <2>3, <2>5, <2>6, <3>1
      <3>4. type \in Kind
        BY <2>1, <3>1, AcceptsType DEF TooLong
      <3>5. line \in Nat
        BY TextIs DEF PlaceInv, TypeInv, LexerTypeOK
      <3>6. token \in TokenRecord /\ found \in FoundToken
        <4>1. Kind \subseteq Form
          BY DEF Kind, Form
        <4> HIDE DEF type, Here
        <4> QED  BY <1>1, <3>4, <3>5, <4>1 DEF TokenRecord, FoundToken
      <3>7. token.type = type /\ token.lexeme = lexeme /\ token.at = Here
        OBVIOUS
      <3>8. Found(tokens') = Append(Found(tokens), found)
        <4> HIDE DEF token, type
        <4>1. Found(Append(tokens, token)) =
                 Append(Found(tokens), [type |-> token.type, lexeme |-> token.lexeme, at |-> token.at])
          BY <1>2, <3>6, FoundOneMore
        <4> QED  BY <3>1, <3>7, <4>1
      <3>9. rest.tokens \in Seq(FoundToken)
        <4>1. pos + 1 \in 1 .. Len(text) + 1
          BY <1>1
        <4> QED  BY <1>3, <4>1
      <3> HIDE DEF token, found, rest, type
      <3>10. Found(tokens) \o (<<found>> \o rest.tokens) = Append(Found(tokens), found) \o rest.tokens
        BY <1>2, <3>6, <3>9, OneFoundBetween, Zenon
      <3>11. Meant(text).tokens = Found(tokens) \o (<<found>> \o rest.tokens) /\ Meant(text).ok = rest.ok
        <4>1. Active
          BY <2>1 DEF Active
        <4> QED  BY <1>4, <3>3, <4>1
      <3>12. Meant(text).tokens = Found(tokens') \o MeantFrom(text)[Here'].tokens
             /\ Meant(text).ok = MeantFrom(text)[Here'].ok
        BY <3>2, <3>8, <3>10, <3>11, Zenon DEF rest
      <3>13. ~Scanned'
        BY <3>1 DEF Scanned
      <3> QED  BY <3>1, <3>12, <3>13 DEF MeantInv, LexesTheText
    <2> QED  BY <2>7, <2>8
  <1>12. CASE BeginComment
    <2>1. /\ mode = "scan" /\ mode' = "comment" /\ state = OpenComment /\ text' = text /\ pos' = pos
          /\ lexeme' = << >> /\ tokens' = tokens
      BY <1>12 DEF BeginComment, outVars
    <2>2. /\ pos = Here + 1 /\ Here \in Commented(text) /\ pos \in Commented(text)
          /\ Here \in 1 .. Len(text) /\ pos \in 1 .. Len(text)
      BY <2>1, OpenFacts
    <2>3. Here' = pos + 1
      BY <1>1, <2>1, AtStart DEF Here
    <2>4. Here \in Skipped(text) /\ pos \in Skipped(text)
      BY <2>2 DEF Skipped
    <2>5. MeantFrom(text)[Here] = MeantFrom(text)[Here + 1]
      BY <1>1, <2>2, <2>4, SkippedMeansNothing
    <2>6. MeantFrom(text)[pos] = MeantFrom(text)[pos + 1]
      BY <1>1, <2>2, <2>4, SkippedMeansNothing
    <2>7. MeantFrom(text)[Here] = MeantFrom(text)[Here']
      BY <2>2, <2>3, <2>5, <2>6, Zenon
    <2> QED  BY <1>5, <2>1, <2>7 DEF Active
  <1>13. CASE CommentChar \/ CommentStar
    <2>1. /\ mode \in {"comment", "star"} /\ next # Eof /\ text' = text /\ pos' = pos + 1
          /\ lexeme' = lexeme /\ tokens' = tokens /\ mode' \in {"scan", "comment", "star"}
      BY <1>13 DEF CommentChar, CommentStar, outVars
    <2>2. PICK o \in 1 .. Len(text) : Inside(o)
      BY <2>1 DEF PlaceInv, InComment
    <2>3. /\ lexeme = << >> /\ Here = pos + 1 /\ pos + 1 \in Commented(text) /\ pos + 1 \in 1 .. Len(text)
      BY <2>1, <2>2, InsideFacts
    <2>4. Here' = pos + 1 + 1
      BY <1>1, <2>1, <2>3, AtStart DEF Here
    <2>5. PICK i \in Skipped(text) : i = pos + 1 /\ i \in 1 .. Len(text)
      BY <2>3 DEF Skipped
    <2>6. MeantFrom(text)[i] = MeantFrom(text)[i + 1]
      BY <1>1, <2>5, SkippedMeansNothing
    <2>7. Here = i /\ Here' = i + 1
      BY <2>3, <2>4, <2>5
    <2> QED  BY <1>5, <2>1, <2>6, <2>7 DEF Active
  <1>14. CASE CommentOpen
    <2>1. /\ mode \in {"comment", "star"} /\ next = Eof /\ mode' = "failed" /\ text' = text /\ tokens' = tokens
      BY <1>14 DEF CommentOpen, outVars
    <2>2. PICK o \in 1 .. Len(text) : Inside(o)
      BY <2>1 DEF PlaceInv, InComment
    <2>3. pos = Len(text)
      BY <2>1, PlaceFacts
    <2>4. PICK i \in 1 .. Len(text) + 1 : i = Here /\ i > Len(text)
      <3>1. lexeme = << >>
        BY <2>1 DEF PlaceInv, InComment
      <3>2. Here = pos + 1
        BY <1>1, <3>1, AtStart DEF Here
      <3> QED  BY <1>1, <2>3, <3>2
    <2>5. ~Closed(text)
      <3>1. OpensAt(text, o) /\ Divides(text, o) /\ pos < Closing(text, o)
        BY <2>2 DEF Inside
      <3>2. PICK e \in Nat : e = Closing(text, o)
        BY <1>1, <3>1, ACommentAt
      <3>3. <<o, e>> \in Comments(text)
        BY <1>1, <3>1, <3>2, DividesAt
      <3>4. ~(<<o, e>>[2] <= Len(text))
        BY <1>1, <2>3, <3>1, <3>2
      <3> QED  BY <3>3, <3>4, Zenon DEF Closed
    <2>6. MeantFrom(text)[i] = Stop(Closed(text))
      BY <1>1, <2>4, MeantFromIs DEF MeantAt
    <2>7. Closed(text) = FALSE
      BY <2>5 DEF Closed
    <2>8. MeantFrom(text)[Here] = Stop(FALSE)
      BY <2>4, <2>6, <2>7
    <2> QED  BY <1>6, <2>1, <2>8 DEF Active
  <1>15. CASE UNCHANGED lexerVars
    <2>1. text' = text /\ tokens' = tokens /\ mode' = mode /\ Here' = Here
      BY <1>15 DEF lexerVars, readVars, outVars, Here
    <2> QED  BY <2>1 DEF MeantInv, LexesTheText, Active, Scanned
  <1> QED  BY <1>7, <1>8, <1>9, <1>10, <1>11, <1>12, <1>13, <1>14, <1>15 DEF LexerNext

\* The scanner takes the longest lexeme at each place that is neither white space nor in a
\* comment, with the type it has, up to the end of the text or the first that is wrong.
THEOREM LexingCorrect == LexerSpec => []LexesTheText
  <1>1. LexerInit => MeantInv
    BY MeantAtInit
  <1>2. PlaceInv /\ MeantInv /\ [LexerNext]_lexerVars => MeantInv'
    BY MeantInductive
  <1>3. MeantInv => LexesTheText
    BY DEF MeantInv
  <1> QED  BY <1>1, <1>2, <1>3, PlaceCorrect, PTL DEF LexerSpec

=============================================================================
