------------------------------ MODULE Grammar ------------------------------
(***************************************************************************)
(* The grammar of PL/0 as compiler/parser/parser.y gives it to Bison: for  *)
(* each rule, the trees it derives from the tokens i .. j - 1.  There is   *)
(* no look-ahead and no order of trial here: what the parsers have to do.  *)
(* Trees are those of Parser.                                              *)
(***************************************************************************)
EXTENDS Parser

\* Whether a call within an expression may leave out the parameter list: it may in
\* parser.y, and not in the grammar that parser.c has in its comments.
CONSTANT BareCalls

When(c, S) == IF c THEN S ELSE {}
Places(ts, i, j, types) == {k \in i .. j - 1 : Is(ts, k, types)}

Idents(ts, i, j) == When(j = i + 1 /\ Is(ts, i, {"identsym"}), {ts[i].lexeme})
Numbers(ts, i, j) == When(j = i + 1 /\ Is(ts, i, {"numbersym"}), {Wrap(Decimal(ts[i].lexeme))})

-----------------------------------------------------------------------------
RECURSIVE Expr(_, _, _), RawExpr(_, _, _, _), Term(_, _, _, _), Factor(_, _, _), Params(_, _, _)

\* params_list, a list that is not empty.
Params(ts, i, j) ==
    {<<e>> : e \in Expr(ts, i, j)}
    \cup UNION {{Append(es, e) : es \in Params(ts, i, k), e \in Expr(ts, k + 1, j)} :
                k \in Places(ts, i + 1, j, {","})}
ParamList(ts, i, j) ==
    When(j > i + 1 /\ Is(ts, i, {"("}) /\ Is(ts, j - 1, {")"}),
         When(j = i + 2, {<< >>}) \cup When(j > i + 2, Params(ts, i + 1, j - 1)))
Calls(ts, i, j) ==
    When(Is(ts, i, {"call"}),
         {<<"call", p, es>> : p \in Idents(ts, i + 1, i + 2), es \in ParamList(ts, i + 2, j)})
BareCall(ts, i, j) ==
    When(Is(ts, i, {"call"}), {<<"call", p, << >> >> : p \in Idents(ts, i + 1, j)})

Factor(ts, i, j) ==
    {<<"var", x>> : x \in Idents(ts, i, j)}
    \cup {<<"num", n>> : n \in Numbers(ts, i, j)}
    \cup When(Is(ts, i, {"("}) /\ Is(ts, j - 1, {")"}) /\ j > i + 2, Expr(ts, i + 1, j - 1))
    \cup Calls(ts, i, j)
    \cup When(BareCalls, BareCall(ts, i, j))

\* term and negated_term, raw_expr and negated_expr.
Signed(e, negated) == IF negated THEN <<"neg", e>> ELSE e
Term(ts, i, j, negated) ==
    {Signed(f, negated) : f \in Factor(ts, i, j)}
    \cup UNION {{<<ts[k].type, Signed(f, negated), t>> :
                    f \in Factor(ts, i, k), t \in Term(ts, k + 1, j, FALSE)} :
                k \in Places(ts, i + 1, j, TermOps)}
RawExpr(ts, i, j, negated) ==
    Term(ts, i, j, negated)
    \cup UNION {{<<ts[k].type, t, e>> :
                    t \in Term(ts, i, k, negated), e \in RawExpr(ts, k + 1, j, FALSE)} :
                k \in Places(ts, i + 1, j, ExprOps)}
Expr(ts, i, j) ==
    CASE i >= j -> {}
      [] Is(ts, i, {"+", "-"}) -> RawExpr(ts, i + 1, j, ts[i].type = "-")
      [] OTHER -> RawExpr(ts, i, j, FALSE)

Cond(ts, i, j) ==
    When(Is(ts, i, {"odd"}), {<<"odd", e>> : e \in Expr(ts, i + 1, j)})
    \cup UNION {{<<ts[k].type, a, b>> : a \in Expr(ts, i, k), b \in Expr(ts, k + 1, j)} :
                k \in Places(ts, i + 1, j, RelOps)}

-----------------------------------------------------------------------------
(* Statements, each with whether an "else" may still follow it: the        *)
(* precedence of ELSE over THEN gives an "else" to the nearest "if".       *)

RECURSIVE Stmt(_, _, _), Stmts(_, _, _)

Stmts(ts, i, j) ==
    {StmtAppend(None, s[1]) : s \in Stmt(ts, i, j)}
    \cup UNION {{StmtAppend(ss, s[1]) : ss \in Stmts(ts, i, k), s \in Stmt(ts, k + 1, j)} :
                k \in Places(ts, i, j, {";"})}

IfThen(ts, i, j) ==
    UNION {{<< <<"if", c, s[1], None>>, TRUE>> : c \in Cond(ts, i + 1, k), s \in Stmt(ts, k + 1, j)} :
           k \in Places(ts, i + 1, j, {"then"})}
IfElse(ts, i, j) ==
    UNION {UNION {{<< <<"if", c, s[1], t[1]>>, t[2]>> :
                      c \in Cond(ts, i + 1, k),
                      s \in {u \in Stmt(ts, k + 1, l) : ~u[2]},
                      t \in Stmt(ts, l + 1, j)} :
                  l \in Places(ts, k + 1, j, {"else"})} :
           k \in Places(ts, i + 1, j, {"then"})}
While(ts, i, j) ==
    UNION {{<< <<"while", c, s[1]>>, s[2]>> : c \in Cond(ts, i + 1, k), s \in Stmt(ts, k + 1, j)} :
           k \in Places(ts, i + 1, j, {"do"})}
Simple(ts, i, j) ==
    CASE Is(ts, i, {"identsym"}) /\ Is(ts, i + 1, {":="}) ->
            {<<"assign", ts[i].lexeme, e>> : e \in Expr(ts, i + 2, j)}
      [] Is(ts, i, {"call"}) -> Calls(ts, i, j) \cup BareCall(ts, i, j)
      [] Is(ts, i, {"begin"}) /\ Is(ts, j - 1, {"end"}) -> Stmts(ts, i + 1, j - 1)
      [] Is(ts, i, {"read"}) -> {<<"read", x>> : x \in Idents(ts, i + 1, j)}
      [] Is(ts, i, {"write"}) -> {<<"write", e>> : e \in Expr(ts, i + 1, j)}
      [] OTHER -> {}

Stmt(ts, i, j) ==
    CASE i > j -> {}
      [] i = j -> {<<None, FALSE>>}
      [] Is(ts, i, {"if"}) -> IfThen(ts, i, j) \cup IfElse(ts, i, j)
      [] Is(ts, i, {"while"}) -> While(ts, i, j)
      [] OTHER -> {<<s, FALSE>> : s \in Simple(ts, i, j)}

-----------------------------------------------------------------------------
RECURSIVE IdentList(_, _, _), ConstList(_, _, _), ProcDecls(_, _, _), Block(_, _, _)

IdentList(ts, i, j) ==
    {<<x>> : x \in Idents(ts, i, j)}
    \cup UNION {{Append(xs, x) : xs \in IdentList(ts, i, k), x \in Idents(ts, k + 1, j)} :
                k \in Places(ts, i, j, {","})}
ConstList(ts, i, j) ==
    LET Const(k) == {<<x, n>> : x \in When(Is(ts, k + 1, {"="}), Idents(ts, k, k + 1)),
                                n \in Numbers(ts, k + 2, j)}
    IN  {<<c>> : c \in Const(i)}
        \cup UNION {{Append(cs, c) : cs \in ConstList(ts, i, k), c \in Const(k + 1)} :
                    k \in Places(ts, i, j, {","})}

ConstDecls(ts, i, j) ==
    When(i = j, {<< >>})
    \cup When(Is(ts, i, {"const"}) /\ Is(ts, j - 1, {";"}), ConstList(ts, i + 1, j - 1))
VarDecls(ts, i, j) ==
    When(i = j, {<< >>})
    \cup When(Is(ts, i, {"var"}) /\ Is(ts, j - 1, {";"}), IdentList(ts, i + 1, j - 1))
ParamDecls(ts, i, j) == When(i = j, {<< >>}) \cup IdentList(ts, i, j)

\* One declaration ends where another begins, and the last where the statement does.
ProcDecls(ts, i, j) ==
    When(i = j, {<< >>})
    \cup UNION {UNION {{Append(ps, [name |-> x, params |-> xs, body |-> b]) :
                           ps \in ProcDecls(ts, i, k),
                           x \in Idents(ts, k + 1, k + 2),
                           xs \in When(Is(ts, k + 2, {"("}) /\ Is(ts, l + 1, {";"}),
                                       ParamDecls(ts, k + 3, l)),
                           b \in Block(ts, l + 2, j - 1)} :
                       l \in Places(ts, k + 3, j - 2, {")"})} :
                k \in When(Is(ts, j - 1, {";"}), Places(ts, i, j, {"procedure"}))}

Block(ts, i, j) ==
    LET Cuts == {i} \cup {k \in i + 1 .. j : Is(ts, k - 1, {";"})}
        Of(a, b, c) == {[consts |-> cs, vars |-> vs, procs |-> ps, stmt |-> s[1]] :
                           cs \in ConstDecls(ts, i, a), vs \in VarDecls(ts, a, b),
                           ps \in ProcDecls(ts, b, c), s \in Stmt(ts, c, j)}
        Cs == {a \in Cuts : ConstDecls(ts, i, a) # {}}
    IN  UNION {UNION {UNION {Of(a, b, c) : c \in {k \in Cuts : k >= b}} :
                      b \in {k \in Cuts : k >= a /\ VarDecls(ts, a, k) # {}}} : a \in Cs}

\* The trees of the program that the tokens before n are.
Derives(ts, n) == When(Is(ts, n - 1, {"."}), Block(ts, 1, n - 1))

=============================================================================
