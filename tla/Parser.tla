------------------------------- MODULE Parser -------------------------------
(***************************************************************************)
(* The recursive descent parser (compiler/parser/parser.c) over the tokens *)
(* the lexer returned (compiler/parser/token_stream.c): one operator per   *)
(* function, from the tokens and the place of the next one to what it made *)
(* of them and the place after.  It looks one token ahead.                 *)
(*                                                                         *)
(* The nodes of the tree (ast_nodes.c) are tuples headed by their type:    *)
(*   expressions <<"var", x>> <<"num", n>> <<"neg", e>> <<op, e, e>>       *)
(*               <<"call", p, es>>                                         *)
(*   conditions  <<"odd", e>> <<op, e, e>>                                 *)
(*   statements  <<"none">> <<"assign", x, e>> <<"call", p, es>>           *)
(*               <<"begin", ss>> <<"if", c, s, s>> <<"while", c, s>>       *)
(*               <<"read", x>> <<"write", e>>                              *)
(***************************************************************************)
EXTENDS Words, Sequences

\* What a function returns: "no" after an error message, and "undefined" where it
\* used memory that nothing had been written to.
Yes(tree, at) == [ok |-> "yes", tree |-> tree, at |-> at]
No(at) == [ok |-> "no", tree |-> << >>, at |-> at]
Undefined(at) == [ok |-> "undefined", tree |-> << >>, at |-> at]

\* The functions give up at the first failure.
Then(r, Rest(_)) == IF r.ok = "yes" THEN Rest(r) ELSE r

\* TokenStream_peekToken, TokenStream_consumeToken: the end of the text is a token too,
\* and nobody consumes it.
Is(ts, i, types) == i \in DOMAIN ts /\ ts[i].type \in types
Peek(ts, i) == IF i \in DOMAIN ts THEN ts[i].type ELSE "nulsym"
Consume(ts, i, type) == IF Peek(ts, i) = type THEN Yes(ts[i].lexeme, i + 1) ELSE No(i)
Closed(r, ts, type) == Then(r, LAMBDA x : Then(Consume(ts, x.at, type), LAMBDA y : Yes(x.tree, y.at)))

Ident(ts, i) == Consume(ts, i, "identsym")

\* strtoul, and a conversion to Word.
Digits == [d \in {"0", "1", "2", "3", "4", "5", "6", "7", "8", "9"} |->
              CHOOSE n \in 0 .. 9 : <<"0", "1", "2", "3", "4", "5", "6", "7", "8", "9">>[n + 1] = d]
Decimal(lexeme) == LET value[n \in 0 .. Len(lexeme)] ==
                           IF n = 0 THEN 0 ELSE 10 * value[n - 1] + Digits[lexeme[n]]
                   IN  value[Len(lexeme)]
Number(ts, i) == Then(Consume(ts, i, "numbersym"), LAMBDA r : Yes(Wrap(Decimal(r.tree)), r.at))

\* The node without children that stands for NULL, and AST_Stmt_append, which leaves
\* empty statements out and makes the first other one a compound statement.
None == <<"none">>
StmtAppend(begin, stmt) == IF stmt = None THEN begin
                           ELSE IF begin = None THEN <<"begin", <<stmt>> >>
                           ELSE <<"begin", Append(begin[2], stmt)>>

-----------------------------------------------------------------------------
(* Expressions and conditions.                                             *)

TermOps == {"*", "/", "%"}
ExprOps == {"+", "-"}
RelOps == {"=", "<>", "<", "<=", ">", ">="}

RECURSIVE ParseExpr(_, _), ParseRawExpr(_, _, _), ParseTerm(_, _, _), ParseFactor(_, _),
          ParseExprList(_, _, _)

\* The first parameter, and those that follow a comma.
ParseExprList(ts, i, exprs) ==
    Then(ParseExpr(ts, i), LAMBDA e :
        IF Peek(ts, e.at) = "," THEN ParseExprList(ts, e.at + 1, Append(exprs, e.tree))
        ELSE Yes(Append(exprs, e.tree), e.at))

ParseParamList(ts, i) ==
    Then(Consume(ts, i, "("), LAMBDA open :
        Closed(IF Peek(ts, open.at) = ")" THEN Yes(<< >>, open.at)
               ELSE ParseExprList(ts, open.at, << >>), ts, ")"))

ParseCall(ts, i) ==
    Then(Consume(ts, i, "call"), LAMBDA c :
    Then(Ident(ts, c.at), LAMBDA id :
    Then(ParseParamList(ts, id.at), LAMBDA args : Yes(<<"call", id.tree, args.tree>>, args.at))))

\* A fault to be caught: every branch releases the node before it is given one.
ParseFactor_Fault(ts, i) ==
    CASE Peek(ts, i) = "identsym" -> Then(Ident(ts, i), LAMBDA x : Yes(<<"var", x.tree>>, x.at))
      [] Peek(ts, i) = "numbersym" -> Then(Number(ts, i), LAMBDA n : Yes(<<"num", n.tree>>, n.at))
      [] Peek(ts, i) = "(" -> LET r == Closed(ParseExpr(ts, i + 1), ts, ")")
                              IN  IF r.ok = "yes" THEN r ELSE Undefined(r.at)
      [] Peek(ts, i) = "call" -> LET r == ParseCall(ts, i)
                                 IN  IF r.ok = "yes" THEN r ELSE Undefined(r.at)
      [] OTHER -> No(i)

\* A factor that is a call releases, when that fails, a node it has not been given.
ParseFactor(ts, i) ==
    CASE Peek(ts, i) = "identsym" -> Then(Ident(ts, i), LAMBDA x : Yes(<<"var", x.tree>>, x.at))
      [] Peek(ts, i) = "numbersym" -> Then(Number(ts, i), LAMBDA n : Yes(<<"num", n.tree>>, n.at))
      [] Peek(ts, i) = "(" -> Closed(ParseExpr(ts, i + 1), ts, ")")
      [] Peek(ts, i) = "call" -> LET r == ParseCall(ts, i)
                                 IN  IF r.ok = "yes" THEN r ELSE Undefined(r.at)
      [] OTHER -> No(i)

\* A fault to be caught: the sign goes to the whole term.
ParseTerm_Fault(ts, i, negate) ==
    Then(ParseFactor(ts, i), LAMBDA factor :
        LET Signed(e) == IF negate THEN <<"neg", e>> ELSE e
            op == Peek(ts, factor.at)
        IN  IF op \in TermOps
            THEN Then(ParseTerm(ts, factor.at + 1, FALSE),
                      LAMBDA right : Yes(Signed(<<op, factor.tree, right.tree>>), right.at))
            ELSE Yes(Signed(factor.tree), factor.at))

\* Terms and expressions associate to the right, and a sign goes to the first factor.
ParseTerm(ts, i, negate) ==
    Then(ParseFactor(ts, i), LAMBDA factor :
        LET left == IF negate THEN <<"neg", factor.tree>> ELSE factor.tree
            op == Peek(ts, factor.at)
        IN  IF op \in TermOps
            THEN Then(ParseTerm(ts, factor.at + 1, FALSE),
                      LAMBDA right : Yes(<<op, left, right.tree>>, right.at))
            ELSE Yes(left, factor.at))

ParseRawExpr(ts, i, negate) ==
    Then(ParseTerm(ts, i, negate), LAMBDA left :
        LET op == Peek(ts, left.at)
        IN  IF op \in ExprOps
            THEN Then(ParseRawExpr(ts, left.at + 1, FALSE),
                      LAMBDA right : Yes(<<op, left.tree, right.tree>>, right.at))
            ELSE left)

ParseExpr(ts, i) == IF Peek(ts, i) \in ExprOps THEN ParseRawExpr(ts, i + 1, Peek(ts, i) = "-")
                    ELSE ParseRawExpr(ts, i, FALSE)

ParseCond(ts, i) ==
    IF Peek(ts, i) = "odd" THEN Then(ParseExpr(ts, i + 1), LAMBDA e : Yes(<<"odd", e.tree>>, e.at))
    ELSE Then(ParseExpr(ts, i), LAMBDA left :
             IF Peek(ts, left.at) \notin RelOps THEN No(left.at)
             ELSE Then(ParseExpr(ts, left.at + 1), LAMBDA right :
                      Yes(<<Peek(ts, left.at), left.tree, right.tree>>, right.at)))

-----------------------------------------------------------------------------
(* Statements.                                                             *)

RECURSIVE ParseStmt(_, _), ParseStmts(_, _, _)

ParseStmtAssign(ts, i) ==
    Then(Closed(Ident(ts, i), ts, ":="), LAMBDA id :
    Then(ParseExpr(ts, id.at), LAMBDA e : Yes(<<"assign", id.tree, e.tree>>, e.at)))

\* A statement may call without a parameter list.
ParseStmtCall(ts, i) ==
    Then(Ident(ts, i + 1), LAMBDA id :
        IF Peek(ts, id.at) # "(" THEN Yes(<<"call", id.tree, << >> >>, id.at)
        ELSE Then(ParseParamList(ts, id.at), LAMBDA args : Yes(<<"call", id.tree, args.tree>>, args.at)))

\* The statements between "begin" and "end", as far as semicolons separate them.
ParseStmts(ts, i, begin) ==
    Then(ParseStmt(ts, i), LAMBDA s :
        IF Peek(ts, s.at) = ";" THEN ParseStmts(ts, s.at + 1, StmtAppend(begin, s.tree))
        ELSE Yes(StmtAppend(begin, s.tree), s.at))
ParseStmtBegin(ts, i) == Closed(ParseStmts(ts, i + 1, None), ts, "end")

\* A fault to be caught: an "else" is left to an "if" further out.
ParseStmtIf_Fault(ts, i) ==
    Then(Closed(ParseCond(ts, i + 1), ts, "then"), LAMBDA cond :
    Then(ParseStmt(ts, cond.at), LAMBDA yes :
        IF Peek(ts, yes.at) # "else" \/ yes.tree[1] = "if" THEN Yes(<<"if", cond.tree, yes.tree, None>>, yes.at)
        ELSE Then(ParseStmt(ts, yes.at + 1), LAMBDA no :
                 Yes(<<"if", cond.tree, yes.tree, no.tree>>, no.at))))

\* An "else" belongs to the "if" that was parsed last.
ParseStmtIf(ts, i) ==
    Then(Closed(ParseCond(ts, i + 1), ts, "then"), LAMBDA cond :
    Then(ParseStmt(ts, cond.at), LAMBDA yes :
        IF Peek(ts, yes.at) # "else" THEN Yes(<<"if", cond.tree, yes.tree, None>>, yes.at)
        ELSE Then(ParseStmt(ts, yes.at + 1), LAMBDA no :
                 Yes(<<"if", cond.tree, yes.tree, no.tree>>, no.at))))

ParseStmtWhile(ts, i) ==
    Then(Closed(ParseCond(ts, i + 1), ts, "do"), LAMBDA cond :
    Then(ParseStmt(ts, cond.at), LAMBDA body : Yes(<<"while", cond.tree, body.tree>>, body.at)))

ParseStmtRead(ts, i) == Then(Ident(ts, i + 1), LAMBDA id : Yes(<<"read", id.tree>>, id.at))
ParseStmtWrite(ts, i) == Then(ParseExpr(ts, i + 1), LAMBDA e : Yes(<<"write", e.tree>>, e.at))

ParseStmt(ts, i) ==
    CASE Peek(ts, i) = "identsym" -> ParseStmtAssign(ts, i)
      [] Peek(ts, i) = "call" -> ParseStmtCall(ts, i)
      [] Peek(ts, i) = "begin" -> ParseStmtBegin(ts, i)
      [] Peek(ts, i) = "if" -> ParseStmtIf(ts, i)
      [] Peek(ts, i) = "while" -> ParseStmtWhile(ts, i)
      [] Peek(ts, i) = "read" -> ParseStmtRead(ts, i)
      [] Peek(ts, i) = "write" -> ParseStmtWrite(ts, i)
      [] OTHER -> Yes(None, i)

-----------------------------------------------------------------------------
(* Declarations.                                                           *)

RECURSIVE ParseIdents(_, _, _), ParseConsts(_, _, _), ParseBlock(_, _), ParseProcDecls(_, _, _)

ParseIdents(ts, i, idents) ==
    Then(Ident(ts, i), LAMBDA id :
        IF Peek(ts, id.at) = "," THEN ParseIdents(ts, id.at + 1, Append(idents, id.tree))
        ELSE Yes(Append(idents, id.tree), id.at))

ParseConsts(ts, i, consts) ==
    Then(Closed(Ident(ts, i), ts, "="), LAMBDA id :
    Then(Number(ts, id.at), LAMBDA n :
        LET all == Append(consts, <<id.tree, n.tree>>)
        IN  IF Peek(ts, n.at) = "," THEN ParseConsts(ts, n.at + 1, all) ELSE Yes(all, n.at)))

ParseConstDecls(ts, i) == IF Peek(ts, i) # "const" THEN Yes(<< >>, i)
                          ELSE Closed(ParseConsts(ts, i + 1, << >>), ts, ";")
ParseVarDecls(ts, i) == IF Peek(ts, i) # "var" THEN Yes(<< >>, i)
                        ELSE Closed(ParseIdents(ts, i + 1, << >>), ts, ";")
ParseParamDecls(ts, i) ==
    Then(Consume(ts, i, "("), LAMBDA open :
        Closed(IF Peek(ts, open.at) = ")" THEN Yes(<< >>, open.at)
               ELSE ParseIdents(ts, open.at, << >>), ts, ")"))

ParseProc(ts, i) ==
    Then(Ident(ts, i + 1), LAMBDA id :
    Then(Closed(ParseParamDecls(ts, id.at), ts, ";"), LAMBDA params :
    Then(Closed(ParseBlock(ts, params.at), ts, ";"), LAMBDA body :
        Yes([name |-> id.tree, params |-> params.tree, body |-> body.tree], body.at))))

ParseProcDecls(ts, i, procs) ==
    IF Peek(ts, i) # "procedure" THEN Yes(procs, i)
    ELSE Then(ParseProc(ts, i), LAMBDA p : ParseProcDecls(ts, p.at, Append(procs, p.tree)))

ParseBlock(ts, i) ==
    Then(ParseConstDecls(ts, i), LAMBDA consts :
    Then(ParseVarDecls(ts, consts.at), LAMBDA vars :
    Then(ParseProcDecls(ts, vars.at, << >>), LAMBDA procs :
    Then(ParseStmt(ts, procs.at), LAMBDA stmt :
        Yes([consts |-> consts.tree, vars |-> vars.tree, procs |-> procs.tree, stmt |-> stmt.tree],
            stmt.at)))))

\* Parser_parseTopBlock: nothing is asked of what follows the period.
ParseProgram(ts) == Closed(ParseBlock(ts, 1), ts, ".")

=============================================================================
