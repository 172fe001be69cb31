------------------------------ MODULE FrontEnd ------------------------------
(***************************************************************************)
(* From the source text to the syntax tree: the lexer, and the parser on   *)
(* the tokens it returned (run_lexer and run_compiler, which scans the     *)
(* same file again).                                                       *)
(***************************************************************************)
EXTENDS Lexer, Parser

VARIABLE parsed     \* what Parser_parseProgram returned, or NotYet

vars == <<lexerVars, parsed>>
NotYet == [ok |-> "not yet", tree |-> << >>, at |-> 0]

Init == LexerInit /\ parsed = NotYet

Scan == LexerNext /\ UNCHANGED parsed

\* The parser is not reached when the lexer failed (main.c:146).
Parse == /\ mode = "done" /\ parsed = NotYet
         /\ parsed' = ParseProgram(tokens)
         /\ UNCHANGED lexerVars

Terminated == (mode = "failed" \/ parsed # NotYet) /\ UNCHANGED vars

Next == Scan \/ Parse \/ Terminated

\* A sequential program: run_lexer goes on as long as there is a token.
Spec == Init /\ [][Next]_vars /\ WF_vars(Scan)

-----------------------------------------------------------------------------
(* Properties.                                                             *)

Ours == INSTANCE Grammar WITH BareCalls <- FALSE
Bison == INSTANCE Grammar WITH BareCalls <- TRUE

\* The parser takes exactly the programs of the grammar in its comments, in the one tree
\* the grammar gives them: no program is refused, none gets a tree of another shape (the
\* nearest "if" has the "else", the first factor has the sign), and nothing else is
\* taken.
ParsesTheGrammar ==
    /\ parsed.ok = "yes" => Ours!Derives(tokens, parsed.at) = {parsed.tree}
    /\ parsed.ok \in {"no", "undefined"} => \A n \in 2 .. Len(tokens) + 1 : Ours!Derives(tokens, n) = {}

\* The calls in expressions, by what stands before them.
CallsInExpressions ==
    {k \in DOMAIN tokens : /\ Is(tokens, k, {"call"})
                           /\ Is(tokens, k - 1, {":=", "write", "(", ",", "if", "while", "odd"}
                                                \cup TermOps \cup ExprOps \cup RelOps)}

\* The parser that Bison makes of parser.y takes the same programs in the same trees, as
\* far as nothing follows the period and every call in an expression has its list.
AgreesWithBison ==
    parsed # NotYet =>
        LET bison == Bison!Derives(tokens, Len(tokens) + 1)
            bare == {k \in CallsInExpressions : ~Is(tokens, k + 2, {"("})}
        IN  /\ (parsed.ok = "yes" /\ parsed.at = Len(tokens) + 1) => bison = {parsed.tree}
            /\ (bison # {} /\ bare = {}) => parsed.ok = "yes"

\* Memory that was not written to is used only where a call in an expression is wrong,
\* never in a program of the grammar, and never in a text without such a call.
UndefinedAfterCalls ==
    parsed.ok = "undefined" => \E k \in CallsInExpressions : k < parsed.at

=============================================================================
