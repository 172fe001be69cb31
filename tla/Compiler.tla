------------------------------ MODULE Compiler ------------------------------
(***************************************************************************)
(* What run_compiler makes of a syntax tree (GenPM0_initWithAST and        *)
(* GenPM0_emit): a verdict, and the code that mcode.txt will hold.         *)
(***************************************************************************)
EXTENDS GenPM0

Verdict(ok) == [ok |-> ok, tree |-> << >>, code |-> << >>, layout |-> NoLayout, insns |-> << >>]

\* GenPM0_emit.
Emit(tree, code, lay) ==
    LET procs == Emitted(lay)
    IN  [Verdict("yes") EXCEPT !.tree = tree, !.code = code, !.layout = lay,
                               !.insns = FlattenSeq([k \in DOMAIN procs |-> EmitProc(lay, code, procs[k])])]

\* GenPM0_initWithAST, from the symbol tree on.
Generated(tree, p) ==
    IF Done(p) THEN Verdict(p.ok)
    ELSE LET code == Optimize(p, tree, << >>).code IN Emit(tree, code, Layout(code))
CompileWith(syms, block) ==
    IF syms.ok THEN Generated(syms.tree, Generate([ok |-> "yes", code |-> << >>, optimized |-> {}],
                                                  syms.tree, << >>, block))
    ELSE Verdict("no")
Compile(block) == CompileWith(SymTreeOf(block), block)

-----------------------------------------------------------------------------
(* Properties of what was compiled.                                        *)

\* Optimization leaves every graph whole, whatever blocks it took out and in whatever
\* order: what a block goes to and what follows it is in the code, each block knows
\* exactly the blocks that go to it, the links run both ways, and no block was touched
\* after it was released.
Sound(g) ==
    LET chain == Chain(g)
        live == ToSet(chain)
        From(b) == {<<c, "target">> : c \in {d \in live : g[d].target = b}}
                   \cup {<<c, "false">> : c \in {d \in live : g[d].ztarget = b}}
    IN  /\ \A b \in DOMAIN g : ~g[b].misused /\ (b \in live <=> ~g[b].freed)
        /\ \A k \in DOMAIN chain : g[chain[k]].prev = IF k = 1 THEN Null ELSE chain[k - 1]
        /\ \A b \in live : /\ {g[b].target, g[b].ztarget} \subseteq live \cup {Null}
                           /\ ToSet(g[b].refs) = {c[1] : c \in From(b)}
                           /\ Len(g[b].refs) = Cardinality(From(b))
GraphsAreSound(r) == \A p \in DOMAIN r.code : Sound(r.code[p])

\* The code has no gaps: a procedure, and a block of it, is where its address says, and
\* what is called or jumped to is there.
PlacedInOrder(r) ==
    LET procs == Emitted(r.layout)
        Size(n) == FoldLeft(LAMBDA s, p : s + CodeLength(r.code[p]), 0, SubSeq(procs, 1, n))
    IN  r.ok = "yes" =>
        /\ ToSet(procs) = DOMAIN r.layout.addr
        /\ \A k \in DOMAIN procs :
              /\ r.layout.addr[procs[k]] = Size(k - 1)
              /\ Len(EmitProc(r.layout, r.code, procs[k])) = CodeLength(r.code[procs[k]])
              /\ {s.path : s \in ToSet(Calls(r.code[procs[k]]))} \subseteq ToSet(procs)

=============================================================================
