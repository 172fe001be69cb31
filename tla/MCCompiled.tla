----------------------------- MODULE MCCompiled -----------------------------
(***************************************************************************)
(* Sources for Compiled, each a text with a space between any two tokens.  *)
(***************************************************************************)
EXTENDS Compiled

G == INSTANCE Parser

Reserved == {"begin", "call", "const", "do", "else", "end", "if", "odd", "procedure",
             "read", "then", "var", "while", "write"}
Signs == {"+", "-", "*", "/", "%", "=", "<", "<>", "<=", ">", ">=", "(", ")", ",", ";", ".", ":="}
IsNumber(w) == SubSeq(w, 1, 1) \in DOMAIN G!Digits
\* The lexeme of a number is its digits; a name is one value.
Token(w) == [lexeme |-> IF IsNumber(w) THEN [i \in 1 .. Len(w) |-> SubSeq(w, i, i)] ELSE w,
             type |-> CASE w \in Reserved \cup Signs -> w
                        [] IsNumber(w) -> "numbersym"
                        [] OTHER -> "identsym"]
Split(text) ==
    LET n == Len(text)
        Stop(i) == CHOOSE j \in i .. n + 1 : (j = n + 1 \/ SubSeq(text, j, j) = " ")
                                             /\ \A k \in i .. j - 1 : SubSeq(text, k, k) # " "
        from[i \in 1 .. n + 2] == IF i > n THEN << >>
                                  ELSE LET j == Stop(i)
                                       IN  (IF j = i THEN << >> ELSE <<SubSeq(text, i, j - 1)>>)
                                           \o from[j + 1]
    IN  from[1]
Tokens(text) == LET words == Split(text) IN [i \in DOMAIN words |-> Token(words[i])]
Parsed(text) == G!ParseProgram(Tokens(text)).tree

-----------------------------------------------------------------------------
(* Programs that run.                                                      *)

\* Control: a statement of each shape within an "if" or a "while" with each relation,
\* in the main program and in a procedure.
Small == {"", "write x", "x := x - 1"}
Conds == {"odd x", "x < 1", "x >= 1", "x = 1"}
Inner == Small \cup {"if " \o c \o " then " \o s : c \in {"odd x", "1 <> x"}, s \in Small \ {""}}
               \cup {"if 1 >= x then else write 7", "if x <= 1 then write 7 else write 8"}
               \cup {"while x > 0 do begin " \o s \o " ; x := x - 1 end" : s \in {"", "write x", "if odd x then write 7"}}
Outer == {"if " \o c \o " then " \o s \o " else " \o t : c \in Conds, s \in Inner, t \in {"", "write 9"}}
         \cup {"if " \o c \o " then begin " \o s \o " end else begin " \o t \o " end" :
                  c \in {"x > 1", "odd x"}, s \in {"", "write 9"}, t \in Inner}
         \cup {"while x > 0 do begin " \o s \o " ; x := x - 1 end" : s \in Inner}
         \cup {"while x > 0 do begin x := x - 1 ; " \o s \o " end" : s \in Inner}
         \cup {s \o " ; " \o t : s, t \in Inner \ Small}
InMain == {"var x ; begin read x ; " \o s \o " ; write x end ." : s \in Outer}
AtTheEnd == {"var x ; begin read x ; " \o s \o " end ." : s \in Outer}
InProc == {"var y ; procedure p ( x ) ; begin " \o s \o " end ; begin read y ; call p ( y ) ; write y end ." : s \in Outer}
Control == InMain \cup AtTheEnd \cup InProc

\* Calls.
Recursion == {
    "var x ; procedure fib ( n ) ; if n < 2 then return := n else return := call fib ( n - 1 ) + call fib ( n - 2 ) ; begin read x ; write call fib ( x + 3 ) end .",
    "var n ; procedure a ( x ) ; var y ; procedure b ( z ) ; begin y := y + z ; if z > 0 then y := call a ( z - 1 ) + call b ( z - 1 ) + y ; return := y end ; begin y := x ; if x > 0 then x := call b ( x - 1 ) + 0 ; return := y + x end ; begin read n ; write call a ( n ) ; write call a ( call a ( 1 ) ) end .",
    "procedure even ( n ) ; if n = 0 then return := 1 else return := call odds ( n - 1 ) ; procedure odds ( n ) ; if n = 0 then return := 0 else return := call even ( n - 1 ) ; begin write call even ( 3 ) ; write call even ( 2 ) end ."}
TailCalls == {
    "var x ; procedure sum ( n , a ) ; if n = 0 then return := a else return := call sum ( n - 1 , a + n ) ; begin read x ; write call sum ( x , 1 ) end .",
    "var n ; procedure outer ( a ) ; var s ; procedure down ( i ) ; var t ; procedure up ( j ) ; begin t := t + j ; s := s + t ; write s ; if j > 1 then call up ( j - 1 ) else if j = 1 then call down ( i - 1 ) else if i > 0 then call outer ( i - 1 ) end ; begin t := i ; if i > 0 then call up ( i ) else write t end ; begin s := a ; if a > 0 then call down ( a ) else write 5 end ; begin read n ; call outer ( n ) end .",
    "var x ; procedure q ( ) ; begin write x ; x := x - 1 end ; procedure p ( y ) ; begin if y > 0 then call q else write 2 end ; begin read x ; call p ( x ) ; call p ( x ) ; write x end .",
    "var x ; procedure last ( ) ; write x ; procedure p ( a , b , c ) ; var d , e ; begin d := a - b ; e := c ; if d > 0 then call p ( d , b , e * d ) else call last end ; begin read x ; call p ( x + 2 , 1 , x ) ; write 0 end ."}
Scopes == {
    "var x ; procedure f ( a ) ; begin write a ; x := x + a ; return := x end ; begin read x ; write call f ( 1 ) - call f ( x ) * call f ( - 2 ) ; write x end .",
    "const c = 3 ; var x ; procedure p ( c ) ; var x ; procedure q ( ) ; const x = 5 ; begin c := c + x ; write c end ; begin x := c ; call q ( ) ; return := x + c end ; begin read x ; write call p ( x + c ) ; write x ; write c end .",
    "var x ; procedure one ( ) ; begin call two ( x ) ; write 1 end ; procedure two ( a ) ; procedure three ( ) ; begin call four ; write a end ; begin call three ; call four ; write 2 end ; procedure four ( ) ; begin x := x + 1 ; write x end ; procedure five ( ) ; begin call one ; write 5 end ; begin x := 0 ; call one ; call five ; call two ( 7 ) end ."}
Empty == {
    "var x ; procedure e ( ) ; ; procedure f ( a , b ) ; var c ; ; procedure g ( ) ; call e ; begin read x ; call e ; call f ( 1 , 2 ) ; if x > 0 then call e else write x ; while x > 1 do begin call g ; x := x - 1 end ; if x = 1 then begin call g ; call f ( x , x ) end else call e ; write x end ."}
Limits == {
    "var x ; begin read x ; write 6 / x ; write 7 % ( x - 1 ) ; write ( - 127 - x ) / ( 2 - x - 1 ) end .",
    "var x ; begin read x ; write 126 + x ; write - 100 - x * 30 ; write - 7 / ( x + 2 ) ; write - 7 % ( x + 2 ) end .",
    "var x ; begin read x ; write ( - 126 - x ) / ( x - 3 ) end .",
    "var x ; begin x := 1 ; while x = 1 do x := 2 - x end .",
    "procedure p ( n ) ; begin n := n + call p ( n ) end ; call p ( 1 ) .",
    "procedure p ( ) ; begin call p ( ) ; write 1 end ; begin call p end .",
    "procedure p ( n ) ; begin if n >= 0 then call p ( n ) else write 1 end ; call p ( 1 ) ."}
Handmade == Recursion \cup TailCalls \cup Scopes \cup Empty \cup Limits

-----------------------------------------------------------------------------
(* Sources that are only judged: with one name in place of another.        *)

Names == {"c", "x", "p", "a", "u", "q", "return", "none"}
Bases == {
    "const c = 1 , d = 2 ; var x , y ; procedure p ( a , b ) ; const v = 3 ; var u ; procedure q ( ) ; x := u + v ; begin u := - a ; call q end ; begin read x ; write c * c ; call p ( x , 1 ) end .",
    "var x ; procedure p ( a ) ; var b , c ; while odd a do begin if b = c then b := call p ( a ) else read c end ; procedure q ( ) ; return := 1 ; write call q ( ) + x ."}
Spelled(words) == FoldLeft(LAMBDA s, w : s \o w \o " ", "", words)
Renamed(text) == LET words == Split(text)
                 IN  {Spelled([words EXCEPT ![i] = x]) :
                         i \in {j \in DOMAIN words : Token(words[j]).type = "identsym"}, x \in Names}
\* Procedures among the parameters of calls: the failure is ignored and the mark stays.
Marked == {
    "var x ; procedure e ( ) ; ; procedure q ( ) ; write x ; procedure p ( a ) ; write a ; begin call p ( e ) ; call p ( q ) ; x := call p ( 1 + q ) end .",
    "var x ; procedure e ( ) ; ; procedure q ( ) ; write x ; procedure r ( ) ; begin x := 1 ; call x ( q ) end ; begin call e ( q ) ; call r ; call x ( q ) end ."}
Judged == UNION {Renamed(text) : text \in Bases} \cup Marked

MCExecuted == Control \cup Handmade
MCSources == [text \in MCExecuted \cup Judged |-> Parsed(text)]

-----------------------------------------------------------------------------
(* What the properties refuted are refuted by.                             *)

OfTexts(texts) == [text \in texts |-> Parsed(text)]
MCCallInIf == OfTexts({"var x ; procedure q ( ) ; write 1 ; procedure p ( ) ; begin if x = 0 then call q ; write 2 end ; call p ."})
MCRedeclared == OfTexts({"var x , x , y ; x := 1 ."})

=============================================================================
