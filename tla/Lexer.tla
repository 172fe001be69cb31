------------------------------- MODULE Lexer -------------------------------
(***************************************************************************)
(* The lexer (lexer/lexer.c) with the tokens of PL/0 (lexer/pl0lex.c): a   *)
(* finite state machine fed one character at a time, which run_lexer calls *)
(* until the text ends or a character fits nowhere.  Texts and lexemes are *)
(* sequences of characters, and a character is a string of one.            *)
(***************************************************************************)
EXTENDS Integers, Sequences, FiniteSetsExt

CONSTANTS
    Texts,      \* what input.txt may hold
    MaxIdent,   \* the longest identifier (11)
    MaxDigits   \* the longest number (5)

Eof == ""

ASSUME TextsAssumption == \A t \in Texts : t \in Seq(STRING) /\ \A i \in DOMAIN t : t[i] # Eof
ASSUME LimitsAssumption == MaxIdent \in Nat /\ MaxDigits \in Nat

\* The characters of a string.
Chars(w) == [i \in 1 .. Len(w) |-> SubSeq(w, i, i)]

\* Character classes: isspace, isalpha, isdigit.
Newline == "\n"
Space == {" ", "\t", Newline}
Letter == {"a", "b", "c", "d", "e", "f", "g", "h", "i", "j", "k", "l", "m",
           "n", "o", "p", "q", "r", "s", "t", "u", "v", "w", "x", "y", "z",
           "A", "B", "C", "D", "E", "F", "G", "H", "I", "J", "K", "L", "M",
           "N", "O", "P", "Q", "R", "S", "T", "U", "V", "W", "X", "Y", "Z"}
Digit == {"0", "1", "2", "3", "4", "5", "6", "7", "8", "9"}

\* The fixed texts.  Each has a type of token of its own, which goes by the text's name.
Reserved == {"begin", "call", "const", "do", "else", "end", "if", "odd", "procedure",
             "read", "then", "var", "while", "write"}
Punctuation == {"+", "-", "*", "/", "%", "=", "<", "<>", "<=", ">", ">=", "(", ")",
                ",", ";", ".", ":="}
WordTexts == {Chars(w) : w \in Reserved}
FixedTexts == WordTexts \cup {Chars(w) : w \in Punctuation}
TypeOf == [s \in FixedTexts |-> CHOOSE w \in Reserved \cup Punctuation : Chars(w) = s]
OpenComment == <<"/", "*">>
CloseComment == <<"*", "/">>
Exact == FixedTexts \cup {OpenComment}

-----------------------------------------------------------------------------
(* The machine.  A state on the way to an exact text is that prefix of it, *)
(* the initial state being the empty one (Lexer_getState); the others are  *)
(* the labels the code gives them, which are no characters.                *)

Start == << >>
InIdent == <<"ID">>
InNumber == <<"NUMBER">>
InInvalid == <<"INVALID">>
Nowhere == <<"NULL">>

Beginnings == UNION {{SubSeq(w, 1, n) : n \in 0 .. Len(w)} : w \in Exact}
IsWordPrefix(s) == s \in Beginnings /\ s # Start /\ s[1] \in Letter

\* What the properties rest on of how the fixed texts are spelled; it has no parameter,
\* and evaluating it decides it.  Reserved words are letters; the others have no character
\* that names, numbers or white space have; a beginning of one of these that is none
\* itself begins with none, and a slash is only in the division sign.
ASSUME SpellingAssumption ==
    /\ \A w \in WordTexts : w \in Seq(Letter) /\ 0 < Len(w) /\ Len(w) <= 9
    /\ \A w \in FixedTexts \ WordTexts :
          /\ w \in Seq(STRING) /\ 0 < Len(w) /\ Len(w) <= 9
          /\ \A i \in DOMAIN w : w[i] \notin Letter \cup Digit \cup Space
          /\ \A i \in DOMAIN w : w[i] = "/" => w = <<"/">>
          /\ \A n \in 1 .. Len(w), m \in 1 .. Len(w) :
                m <= n /\ SubSeq(w, 1, m) \in FixedTexts => SubSeq(w, 1, n) \in FixedTexts
    /\ <<"/">> \in FixedTexts
    /\ Beginnings \cap {InIdent, InNumber, InInvalid, Nowhere} = {}

\* A fault to be caught: the prefixes of reserved words have no way to "ID".
Transition_Fault(s, c) ==
    IF s \in Beginnings /\ Append(s, c) \in Beginnings THEN Append(s, c)
    ELSE CASE s = Start /\ c \in Letter -> InIdent
           [] s = InIdent /\ c \in Letter \cup Digit -> InIdent
           [] s \in {Start, InNumber} /\ c \in Digit -> InNumber
           [] s = InNumber /\ c \in Letter -> InInvalid
           [] OTHER -> Nowhere

\* The exact transitions of a state were added before those by a matcher, and the
\* prefixes of reserved words fall back to "ID" (add_identifier_transitions).
Transition(s, c) ==
    IF s \in Beginnings /\ Append(s, c) \in Beginnings THEN Append(s, c)
    ELSE CASE s = Start /\ c \in Letter -> InIdent
           [] (s = InIdent \/ IsWordPrefix(s)) /\ c \in Letter \cup Digit -> InIdent
           [] s \in {Start, InNumber} /\ c \in Digit -> InNumber
           [] s = InNumber /\ c \in Letter -> InInvalid
           [] OTHER -> Nowhere

\* The type of the token an acceptor makes.
NoToken == "nulsym"
Accepts(s) == CASE s \in FixedTexts -> TypeOf[s]
                [] s = OpenComment -> "comment"
                [] s = InIdent \/ (IsWordPrefix(s) /\ s \notin Exact) -> "identsym"
                [] s = InNumber -> "numbersym"
                [] s = InInvalid -> "invalid"
                [] OTHER -> NoToken

-----------------------------------------------------------------------------
VARIABLES
    text,       \* the stream
    pos,        \* how many of its characters were read
    state,      \* cur
    lexeme,
    line,       \* line_number
    mode,       \* where the code is: "scan", "comment", "star", "done", "failed"
    tokens,     \* the tokens returned, with the place where each begins
    clean       \* the file of the source without its comments

readVars == <<pos, state, lexeme, line, mode>>
outVars == <<tokens, clean>>
lexerVars == <<text, readVars, outVars>>

next == IF pos < Len(text) THEN text[pos + 1] ELSE Eof
Way == IF next = Eof THEN Nowhere ELSE Transition(state, next)
LineOf(c) == IF c = Newline THEN 1 ELSE 0

LexerInit == /\ text \in Texts
             /\ pos = 0 /\ state = Start /\ lexeme = << >> /\ line = 1 /\ mode = "scan"
             /\ tokens = << >> /\ clean = << >>

\* The machine moves.
Shift == /\ mode = "scan" /\ Way # Nowhere
         /\ pos' = pos + 1
         /\ state' = Way
         /\ lexeme' = Append(lexeme, next)
         /\ UNCHANGED <<text, line, mode, outVars>>

\* White space between tokens goes to the clean source (writeWhitespace).
Whitespace == /\ mode = "scan" /\ state = Start /\ Way = Nowhere /\ next \in Space
              /\ pos' = pos + 1
              /\ line' = line + LineOf(next)
              /\ clean' = Append(clean, next)
              /\ UNCHANGED <<text, state, lexeme, mode, tokens>>

EndOfFile == /\ mode = "scan" /\ state = Start /\ next = Eof
             /\ mode' = "done"
             /\ UNCHANGED <<text, pos, state, lexeme, line, outVars>>

\* A fault to be caught: the end of the text is taken for a character.
Unknown_Fault == /\ mode = "scan" /\ Way = Nowhere /\ Accepts(state) = NoToken
                 /\ ~(state = Start /\ next \in Space \cup {Eof})
                 /\ mode' = "failed"
                 /\ pos' = pos + 1
                 /\ UNCHANGED <<text, state, lexeme, line, outVars>>

\* Nothing is accepted where the machine got stuck; the character is lost.
Unknown == /\ mode = "scan" /\ Way = Nowhere /\ Accepts(state) = NoToken
           /\ ~(state = Start /\ next \in Space \cup {Eof})
           /\ mode' = "failed"
           /\ pos' = IF next = Eof THEN pos ELSE pos + 1
           /\ UNCHANGED <<text, state, lexeme, line, outVars>>

\* accept_identifier, accept_number, accept_invalid_varname.
TooLong(type) == \/ type = "identsym" /\ Len(lexeme) > MaxIdent
                 \/ type = "numbersym" /\ Len(lexeme) > MaxDigits
                 \/ type = "invalid"

Accept == /\ mode = "scan" /\ Way = Nowhere /\ Accepts(state) \notin {NoToken, "comment"}
          /\ LET type == Accepts(state)
             IN  \/ /\ TooLong(type)
                    /\ mode' = "failed"
                    /\ UNCHANGED <<text, pos, state, lexeme, line, outVars>>
                 \/ /\ ~TooLong(type)
                    /\ tokens' = Append(tokens, [type |-> type, lexeme |-> lexeme, line |-> line,
                                                 at |-> pos - Len(lexeme) + 1])
                    /\ clean' = clean \o lexeme
                    /\ state' = Start /\ lexeme' = << >>
                    /\ UNCHANGED <<text, pos, line, mode>>

\* accept_comment: "comment" is its inner loop, "star" the getc that follows.
BeginComment == /\ mode = "scan" /\ state = OpenComment /\ Way = Nowhere
                /\ mode' = "comment" /\ state' = Start /\ lexeme' = << >>
                /\ UNCHANGED <<text, pos, line, outVars>>

CommentChar == /\ mode = "comment" /\ next # Eof
               /\ pos' = pos + 1
               /\ line' = line + LineOf(next)
               /\ mode' = IF next = "*" THEN "star" ELSE "comment"
               /\ UNCHANGED <<text, state, lexeme, outVars>>

\* A fault to be caught: the character after an asterisk is never the next one.
CommentStar_Fault == /\ mode = "star" /\ next # Eof
                     /\ pos' = pos + 1
                     /\ line' = line + 2 * LineOf(next)
                     /\ mode' = IF next = "/" THEN "scan" ELSE "comment"
                     /\ UNCHANGED <<text, state, lexeme, outVars>>

\* What follows an asterisk and does not close is looked at again by the inner loop,
\* which counts a newline a second time.
CommentStar == /\ mode = "star" /\ next # Eof
               /\ pos' = pos + 1
               /\ line' = line + 2 * LineOf(next)
               /\ mode' = CASE next = "/" -> "scan" [] next = "*" -> "star" [] OTHER -> "comment"
               /\ UNCHANGED <<text, state, lexeme, outVars>>

\* A fault to be caught: the inner loop only waits for an asterisk.
CommentOpen_Fault == /\ mode \in {"comment", "star"} /\ next = Eof
                     /\ mode' = "comment"
                     /\ UNCHANGED <<text, pos, state, lexeme, line, outVars>>

CommentOpen == /\ mode \in {"comment", "star"} /\ next = Eof
               /\ mode' = "failed"
               /\ UNCHANGED <<text, pos, state, lexeme, line, outVars>>

LexerNext == \/ Shift \/ Whitespace \/ EndOfFile \/ Unknown \/ Accept
             \/ BeginComment \/ CommentChar \/ CommentStar \/ CommentOpen

LexerSpec == LexerInit /\ [][LexerNext]_lexerVars

-----------------------------------------------------------------------------
(* Properties.                                                             *)

\* The machine is in one of its states and the reader within the text; every token has
\* a type of its own, and was found on a line that was reached.
LexerTypeOK == /\ pos \in 0 .. Len(text)
               /\ state \in Beginnings \cup {InIdent, InNumber, InInvalid}
               /\ mode \in {"scan", "comment", "star", "done", "failed"}
               /\ line \in 1 .. 1 + 2 * pos
               /\ \A k \in DOMAIN tokens :
                    /\ tokens[k].type \in Reserved \cup Punctuation \cup {"identsym", "numbersym"}
                    /\ tokens[k].line \in 1 .. line

Scanned == mode \in {"done", "failed"}

\* What lexemes look like, without a machine: the fixed texts, identifiers, numbers and
\* the numbers that run into a letter.
AllIn(s, class) == \A i \in DOMAIN s : s[i] \in class
FormOf(s) ==
    CASE s \in FixedTexts -> TypeOf[s]
      [] s # << >> /\ s \notin WordTexts /\ s[1] \in Letter /\ AllIn(s, Letter \cup Digit) -> "identsym"
      [] s # << >> /\ AllIn(s, Digit) -> "numbersym"
      [] Len(s) > 1 /\ s[Len(s)] \in Letter /\ AllIn(SubSeq(s, 1, Len(s) - 1), Digit) -> "invalid"
      [] OTHER -> NoToken

\* The comments of the text, each from its opening slash to its closing one, or past
\* the end when nothing closes it.
Places(t, two, from) == {j \in from .. Len(t) - 1 : <<t[j], t[j + 1]>> = two}
Closing(t, open) == LET closes == Places(t, CloseComment, open + 2)
                    IN  IF closes = {} THEN Len(t) + 1 ELSE Min(closes) + 1
CommentsFrom(t) ==
    LET after[i \in 1 .. Len(t) + 2] ==
            LET opens == Places(t, OpenComment, i)
            IN  IF opens = {} THEN {}
                ELSE {<<Min(opens), Closing(t, Min(opens))>>} \cup after[Closing(t, Min(opens)) + 1]
    IN  after
Comments(t) == CommentsFrom(t)[1]
Commented(t) == UNION {c[1] .. c[2] : c \in Comments(t)}

\* The tokens of the text: the longest lexeme at each place that is neither white space
\* nor in a comment, up to the first that is wrong.  What is longer than Longest is wrong
\* by its length.
Longest == Max({MaxIdent, MaxDigits} \cup {Len(w) : w \in Exact})
Skipped(t) == Commented(t) \cup {i \in DOMAIN t : t[i] \in Space}
Ends(t, i) == {j \in i .. Min({Len(t), i + Longest}) : FormOf(SubSeq(t, i, j)) # NoToken}
Wrong(s) == \/ FormOf(s) = "invalid"
            \/ FormOf(s) = "identsym" /\ Len(s) > MaxIdent
            \/ FormOf(s) = "numbersym" /\ Len(s) > MaxDigits
Stop(ok) == [tokens |-> << >>, ok |-> ok]
MeantFrom(t) ==
    LET skipped == Skipped(t)
        from[i \in 1 .. Len(t) + 1] ==
            IF i > Len(t) THEN Stop(\A c \in Comments(t) : c[2] <= Len(t))
            ELSE IF i \in skipped THEN from[i + 1]
            ELSE IF Ends(t, i) = {} THEN Stop(FALSE)
            ELSE LET s == SubSeq(t, i, Max(Ends(t, i)))
                     rest == from[i + Len(s)]
                 IN  IF Wrong(s) THEN Stop(FALSE)
                     ELSE [tokens |-> <<[type |-> FormOf(s), lexeme |-> s, at |-> i]>> \o rest.tokens,
                           ok |-> rest.ok]
    IN  from
Meant(t) == MeantFrom(t)[1]

\* The scanner takes the longest lexeme at each place, gives it the type it has, loses
\* nothing but white space and comments, and stops at the first character that belongs
\* to no lexeme: reserved words and identifiers that share a prefix, numbers that run
\* into letters and operators of two characters are told apart.
Found(ts) == [k \in DOMAIN ts |-> [type |-> ts[k].type, lexeme |-> ts[k].lexeme, at |-> ts[k].at]]
LexesTheText == Scanned => /\ (mode = "done") = Meant(text).ok
                           /\ Found(tokens) = Meant(text).tokens

\* The clean source is the text without its comments, character for character.
Kept(t) ==
    LET commented == Commented(t)
        kept[i \in 0 .. Len(t)] == IF i = 0 THEN << >>
                                   ELSE IF i \in commented THEN kept[i - 1]
                                   ELSE Append(kept[i - 1], t[i])
    IN  kept
CleanIsTheSource == mode = "done" => clean = Kept(text)[Len(text)]

\* The line of a token is the number of newlines before it, where one that follows an
\* asterisk in a comment counts twice.
Newlines(t, to) == {i \in 1 .. to : t[i] = Newline}
Twice(t, to) == {i \in Newlines(t, to) : /\ i > 1 /\ t[i - 1] = "*"
                                         /\ \E c \in Comments(t) : i \in c[1] + 3 .. c[2]}
LineAt(t, i) == 1 + Cardinality(Newlines(t, i - 1)) + Cardinality(Twice(t, i - 1))
LinesAreCounted == Scanned => \A k \in DOMAIN tokens : tokens[k].line = LineAt(text, tokens[k].at)

\* Every text is scanned to its end or to an error, the end of the text included where
\* a comment is open.
ScansToTheEnd == <>Scanned

\* "Keep track of line numbers" (lexer.c:121): a token has the number of its line.
LinesAreTrue ==
    Scanned => \A k \in DOMAIN tokens :
        tokens[k].line = 1 + Cardinality(Newlines(text, tokens[k].at - 1))

=============================================================================
