---------------------------- MODULE MCFrontEnd ----------------------------
(***************************************************************************)
(* Texts for FrontEnd: every short one over the characters that matter to  *)
(* the lexer, and programs with one token too few, too many or wrong.      *)
(***************************************************************************)
EXTENDS FrontEnd

Some == {"d", "o", "x", "1", ":", "=", "<", ">", "/", "*", Newline, " ", ""}
InComment == {"/", "*", Newline, "x"}
ShortTexts == {a \o b \o c \o d : a, b, c \in Some, d \in {"", "o", "1", "=", "*", Newline}}
              \cup {"/*" \o a \o b \o c \o d \o "*/x" : a, b, c, d \in InComment}
              \cup {"x/*" \o a \o b \o "/*x*/ y" : a, b \in InComment}
              \cup {"abcdefghi odd", "x abcdefghij", "12 1", "1 123", "abc1;abc2d", "pro call:x", "1do", "<>=>==", "a/*b*/c"}

\* Programs by their tokens.
Words1 == <<"const", "c", "=", "2", ",", "d", "=", "3", ";", "var", "x", ",", "y", ";",
            "x", ":=", "-", "c", "*", "x", "-", "y", ".">>
Words2 == <<"procedure", "p", "(", "a", ",", "b", ")", ";", "procedure", "q", "(", ")", ";", ";", ";",
            "call", "p", "(", "1", ",", "2", ")", ".">>
Words3 == <<"if", "odd", "x", "then", "if", "x", "<", "y", "then", "read", "x", "else",
            "while", "x", "<>", "+", "y", "do", "begin", ";", "x", ":=", "(", "x", "%", "y", ")", "end", ".">>
Words4 == <<"if", "x", ">=", "1", "then", "if", "x", "=", "2", "then", "else", "write", "3",
            "else", "write", "4", ".">>
Words5 == <<"write", "call", "q", "(", ")", "/", "call", "r", "(", "-", "(", "1", ")", ")", ".">>
Programs == {Words1, Words2, Words3, Words4, Words5}

Changes == {";", ",", ".", "x", "(", "call", "else", "-", "procedure", ""}
With(p, i, w) == [p EXCEPT ![i] = w]
Before(p, i, w) == SubSeq(p, 1, i - 1) \o <<w>> \o SubSeq(p, i, Len(p))

Joined(p) == LET s[n \in 0 .. Len(p)] == IF n = 0 THEN "" ELSE s[n - 1] \o p[n] \o " "
              IN  s[Len(p)]
Mutated(p) == {Joined(With(p, i, w)) : i \in DOMAIN p, w \in Changes}
              \cup {Joined(Before(p, i, w)) : i \in DOMAIN p, w \in Changes}

MCTexts == {Chars(t) : t \in ShortTexts \cup UNION {Mutated(p) : p \in Programs}}

=============================================================================
