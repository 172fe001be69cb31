------------------------------- MODULE Names -------------------------------
(***************************************************************************)
(* The names of a program and what they may be used for: what is wrong     *)
(* with a source, told from its tree alone.                                *)
(***************************************************************************)
EXTENDS Integers, Sequences, SequencesExt

\* The declarations of a scope in their order, each with its kind.
As(kind, names) == [i \in DOMAIN names |-> <<names[i], kind>>]
Firsts(s) == [i \in DOMAIN s |-> s[i][1]]
ProcNames(block) == [i \in DOMAIN block.procs |-> block.procs[i].name]
Lists(params, block) == <<params, Firsts(block.consts), block.vars, ProcNames(block)>>
Declared(params, block, level) ==
    (IF level = 0 THEN << >> ELSE << <<"return", "var">> >>)
    \o As("var", params) \o As("const", Firsts(block.consts)) \o As("var", block.vars)
    \o As("proc", ProcNames(block))

\* What a name is where it is used: scopes is outermost first.
KindOf(scopes, x) ==
    LET with == SelectSeq(scopes, LAMBDA s : x \in ToSet(Firsts(s)))
        meant == SelectSeq(Last(with), LAMBDA d : d[1] = x)
    IN  IF with = << >> THEN "none" ELSE meant[1][2]

RECURSIVE UsesOf(_), UsesIn(_), FaultIn(_, _, _, _), AllScopes(_, _, _)

\* The names of an expression, outside parameters, and of a statement, each with the
\* kinds it may be of there.  Nothing is said of the callee but that it is declared.
Callable == {"var", "const", "proc"}
UsesOf(e) == CASE e[1] = "var" -> {<<e[2], {"var", "const"}>>}
               [] e[1] = "num" -> {}
               [] e[1] \in {"neg", "odd"} -> UsesOf(e[2])
               [] e[1] = "call" -> {<<e[2], Callable>>}
               [] OTHER -> UsesOf(e[2]) \cup UsesOf(e[3])
UsesIn(s) == CASE s[1] = "none" -> {}
               [] s[1] = "assign" -> {<<s[2], {"var"}>>} \cup UsesOf(s[3])
               [] s[1] = "call" -> {<<s[2], Callable>>}
               [] s[1] = "begin" -> UNION {UsesIn(s[2][i]) : i \in DOMAIN s[2]}
               [] s[1] = "if" -> UsesOf(s[2]) \cup UsesIn(s[3]) \cup UsesIn(s[4])
               [] s[1] = "while" -> UsesOf(s[2]) \cup UsesIn(s[3])
               [] s[1] = "read" -> {<<s[2], {"var"}>>}
               [] s[1] = "write" -> UsesOf(s[2])

\* Whether the compiler has to refuse a block: a list of declarations ends with a name
\* that is declared already, or a name is not what it is used as.
Redeclares(names, before) == names # << >> /\ Last(names) \in ToSet(before) \cup ToSet(Front(names))
FaultIn(scopes, params, block, level) ==
    LET lists == Lists(params, block)
        ret == IF level = 0 THEN << >> ELSE <<"return">>
        all == Append(scopes, Declared(params, block, level))
    IN  \/ \E k \in DOMAIN lists : Redeclares(lists[k], ret \o FlattenSeq(SubSeq(lists, 1, k - 1)))
        \/ \E u \in UsesIn(block.stmt) : KindOf(all, u[1]) \notin u[2]
        \/ \E i \in DOMAIN block.procs :
              FaultIn(all, block.procs[i].params, block.procs[i].body, level + 1)

\* The scopes of a block and its procedures, as the names they declare.
AllScopes(params, block, level) ==
    {Declared(params, block, level)}
    \cup UNION {AllScopes(block.procs[i].params, block.procs[i].body, level + 1) : i \in DOMAIN block.procs}
DeclaredOnce(block) ==
    \A scope \in AllScopes(<< >>, block, 0) : \A i, j \in DOMAIN scope : scope[i][1] = scope[j][1] => i = j
ProcsDeclaredOnce(block) ==
    \A scope \in AllScopes(<< >>, block, 0) :
        \A i, j \in DOMAIN scope : (i # j /\ scope[i][1] = scope[j][1]) => scope[j][2] # "proc"
Faulty(block) == FaultIn(<< >>, << >>, block, 0)

=============================================================================
