------------------------------ MODULE SymTree ------------------------------
(***************************************************************************)
(* The symbol tree of a program (compiler/codegen/symtree.c and symbol.c): *)
(* a scope for the main program and one for each procedure, in a scope its *)
(* constants, variables and procedures by name.  A scope is found by its   *)
(* path, the numbers of the procedures around it, outermost first; << >>   *)
(* is the main program's.  Blocks are those of Parser.                     *)
(***************************************************************************)
EXTENDS Integers, Sequences, SequencesExt, Functions

Level(path) == Len(path)
Parent(path) == Front(path)

\* Symbols; the value is an offset in the frame or a number, and a procedure has the
\* path of its own scope, which stands for its block, and its number of parameters.
Const(level, n) == [kind |-> "const", level |-> level, value |-> n, path |-> << >>]
Var(level, offset) == [kind |-> "var", level |-> level, value |-> offset, path |-> << >>]
Proc(level, params, path) == [kind |-> "proc", level |-> level, value |-> params, path |-> path]
NoSymbol == [kind |-> "none", level |-> 0, value |-> 0, path |-> << >>]

\* A scope: its symbols, the frame's size, and whether the last declaration succeeded.
\* SymTree_addSymbol leaves a name with the first symbol declared for it.
EmptyScope(level) == [syms |-> << >>, size |-> IF level = 0 THEN 0 ELSE 4, ok |-> TRUE]
AddSymbol(scope, name, sym) ==
    IF name \in DOMAIN scope.syms THEN [scope EXCEPT !.ok = FALSE]
    ELSE [scope EXCEPT !.ok = TRUE, !.syms = (name :> sym) @@ @]

\* SymTree_addParams, SymTree_addVars and SymTree_addConsts: a list goes on after a
\* failure, and the last declaration decides.  The frame grows in either case.
AddVars(scope, level, names) ==
    FoldLeft(LAMBDA s, x : [AddSymbol(s, x, Var(level, s.size)) EXCEPT !.size = @ + 1],
             [scope EXCEPT !.ok = TRUE], names)
AddConsts(scope, level, consts) ==
    FoldLeft(LAMBDA s, c : AddSymbol(s, c[1], Const(level, c[2])), [scope EXCEPT !.ok = TRUE], consts)

\* What a declaration makes of the tree: the scopes by their paths, unless it failed.
Scopes(ok, tree) == [ok |-> ok, tree |-> tree]

RECURSIVE InitWithAST(_, _, _, _), AddProcs(_, _, _, _)

\* SymTree_addProcs, from the i-th procedure on: the scope of a procedure comes first,
\* and its failure ends the declarations.
AddProcs(scope, path, procs, i) ==
    IF i > Len(procs) THEN Scopes(scope.ok, path :> scope)
    ELSE LET p == procs[i]
             child == InitWithAST(Append(path, i), p.params, p.body, Level(path) + 1)
             added == AddSymbol(scope, p.name, Proc(Level(path), Len(p.params), Append(path, i)))
             rest == AddProcs(added, path, procs, i + 1)
         IN  IF ~child.ok THEN child ELSE Scopes(rest.ok, rest.tree @@ child.tree)

\* A fault to be caught: the success of the variables stands for that of the constants.
InitWithAST_Fault(path, params, block, level) ==
    LET empty == EmptyScope(level)
        ret == IF level = 0 THEN empty ELSE AddSymbol(empty, "return", Var(level, 0))
        formals == AddVars(ret, level, params)
        locals == AddVars(AddConsts(formals, level, block.consts), level, block.vars)
    IN  IF formals.ok /\ locals.ok
        THEN AddProcs([locals EXCEPT !.ok = TRUE], path, block.procs, 1)
        ELSE Scopes(FALSE, << >>)

\* SymTree_initWithAST.
InitWithAST(path, params, block, level) ==
    LET empty == EmptyScope(level)
        ret == IF level = 0 THEN empty ELSE AddSymbol(empty, "return", Var(level, 0))
        formals == AddVars(ret, level, params)
        consts == AddConsts(formals, level, block.consts)
        locals == AddVars(consts, level, block.vars)
    IN  IF formals.ok /\ consts.ok /\ locals.ok
        THEN AddProcs([locals EXCEPT !.ok = TRUE], path, block.procs, 1)
        ELSE Scopes(FALSE, << >>)

\* The tree of a program, and SymTree_findSymbol: the innermost scope that has the name.
SymTreeOf(block) == InitWithAST(<< >>, << >>, block, 0)
Find(tree, path, name) ==
    LET has == {n \in 0 .. Len(path) : name \in DOMAIN tree[SubSeq(path, 1, n)].syms}
    IN  IF has = {} THEN NoSymbol
        ELSE tree[SubSeq(path, 1, CHOOSE n \in has : \A m \in has : m <= n)].syms[name]

=============================================================================
