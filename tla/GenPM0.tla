------------------------------- MODULE GenPM0 -------------------------------
(***************************************************************************)
(* The code generator for PM/0: from the tree of a program to the graphs   *)
(* of its procedures (codegen/pm0/genpm0.c), their optimization and their  *)
(* places in the code (codegen/pm0/block.c).                               *)
(***************************************************************************)
EXTENDS BasicBlocks

\* The code being generated for one procedure: its graph, whether generation went on, and
\* the symbols marked with no instruction yet.  A failure returns through every function,
\* so what follows one is not looked at.
Done(r) == r.ok # "yes"
AddTo(r, insn) ==
    IF Done(r) THEN r
    ELSE [r EXCEPT !.g = AddInsn(@, Len(@), [insn EXCEPT !.syms = r.marks \o @]), !.marks = << >>]
Graph(r, Change(_)) == [r EXCEPT !.g = Change(@)]
Then(r, Rest(_)) == IF Done(r) THEN r ELSE Rest(r)
Refuse(r) == [r EXCEPT !.ok = "no"]
RefuseMarked(r, sym) == [Refuse(r) EXCEPT !.marks = Append(@, sym)]

Alu == [x \in {"+", "-", "*", "/", "%", "=", "<>", "<", "<=", ">", ">="} |->
           CASE x = "+" -> "ADD" [] x = "-" -> "SUB" [] x = "*" -> "MUL" [] x = "/" -> "DIV"
             [] x = "%" -> "MOD" [] x = "=" -> "EQL" [] x = "<>" -> "NEQ" [] x = "<" -> "LSS"
             [] x = "<=" -> "LEQ" [] x = ">" -> "GTR" [] x = ">=" -> "GEQ"]

-----------------------------------------------------------------------------
(* Expressions: the scope is a path in the tree.                           *)

\* What is of the wrong kind is refused when it has been marked.
GenLoadIdent(r, tree, path, x) ==
    LET sym == Find(tree, path, x)
    IN  CASE Done(r) -> r
          [] sym.kind = "const" -> AddTo(r, SymInsn("LIT", sym))
          [] sym.kind = "var" -> AddTo(r, SymInsn("LOD", sym))
          [] sym.kind = "proc" -> RefuseMarked(r, sym)
          [] OTHER -> Refuse(r)

GenStoreVar(r, tree, path, x) ==
    LET sym == Find(tree, path, x)
    IN  CASE Done(r) -> r
          [] sym.kind = "var" -> AddTo(r, SymInsn("STO", sym))
          [] sym.kind \in {"const", "proc"} -> RefuseMarked(r, sym)
          [] OTHER -> Refuse(r)

RECURSIVE GenExpr(_, _, _, _), GenExprs(_, _, _, _), GenParamList(_, _, _, _), GenCall(_, _, _, _, _)

GenExprs(r, tree, path, es) ==
    IF es = << >> THEN r ELSE GenExprs(GenExpr(r, tree, path, Head(es)), tree, path, Tail(es))

\* The parameters are put where the callee's frame will have them.
GenParamList(r, tree, path, es) ==
    IF es = << >> THEN r
    ELSE AddTo(GenExprs(AddTo(r, IncBy(4)), tree, path, es), IncBy(-(4 + Len(es))))

\* The symbol may be anything, and the parameters' failure is not looked at: the mark of a
\* procedure that was refused among them is the call's as well.
GenCall(r, tree, path, x, es) ==
    LET sym == Find(tree, path, x)
    IN  CASE Done(r) -> r
          [] sym.kind = "none" -> Refuse(r)
          [] OTHER -> AddTo([GenParamList(r, tree, path, es) EXCEPT !.ok = "yes"], SymInsn("CAL", sym))

GenExpr(r, tree, path, e) ==
    CASE e[1] = "var" -> GenLoadIdent(r, tree, path, e[2])
      [] e[1] = "num" -> AddTo(r, Insn("LIT", 0, e[2]))
      [] e[1] = "neg" /\ e[2][1] = "num" -> AddTo(r, Insn("LIT", 0, Wrap(-e[2][2])))
      [] e[1] = "neg" /\ e[2][1] # "num" -> AddTo(GenExpr(r, tree, path, e[2]), Op("NEG"))
      [] e[1] = "call" -> AddTo(GenCall(r, tree, path, e[2], e[3]), IncBy(1))
      [] OTHER -> AddTo(GenExpr(GenExpr(r, tree, path, e[2]), tree, path, e[3]), Op(Alu[e[1]]))

GenCond(r, tree, path, c) ==
    IF c[1] = "odd" THEN AddTo(GenExpr(r, tree, path, c[2]), Op("ODD"))
    ELSE AddTo(GenExpr(GenExpr(r, tree, path, c[2]), tree, path, c[3]), Op(Alu[c[1]]))

-----------------------------------------------------------------------------
(* Statements: code goes to the last block created, Len(r.g).              *)

RECURSIVE GenStmt(_, _, _, _), GenStmts(_, _, _, _)

GenStmts(r, tree, path, ss) ==
    IF ss = << >> THEN r ELSE GenStmts(GenStmt(r, tree, path, Head(ss)), tree, path, Tail(ss))

\* The next block, as the target of a block or where its condition is false.
NextIsTarget(r, b) == Graph(r, LAMBDA g : SetTarget(CreateNext(g), b, Len(g) + 1))
NextIsFalseTarget(r, b) == Graph(r, LAMBDA g : SetFalseTarget(CreateNext(g), b, Len(g) + 1))
Joins(r, b, target) == Graph(r, LAMBDA g : SetTarget(g, b, target))

GenElse(yes, no, tree, path, elseStmt) ==
    IF elseStmt = <<"none">> THEN Joins(no, Len(yes.g), Len(no.g))
    ELSE Then(GenStmt(no, tree, path, elseStmt),
              LAMBDA r : Then(NextIsTarget(r, Len(yes.g)), LAMBDA endif : Joins(endif, Len(r.g), Len(endif.g))))

GenIf(r, tree, path, cond, thenStmt, elseStmt) ==
    Then(GenCond(r, tree, path, cond),
         LAMBDA c : Then(GenStmt(NextIsTarget(c, Len(c.g)), tree, path, thenStmt),
                         LAMBDA yes : GenElse(yes, NextIsFalseTarget(yes, Len(c.g)), tree, path, elseStmt)))

\* The body ends with a jump back to the condition.
GenWhile(r, tree, path, cond, stmt) ==
    Then(GenCond(NextIsTarget(r, Len(r.g)), tree, path, cond),
         LAMBDA c : Then(GenStmt(NextIsTarget(c, Len(c.g)), tree, path, stmt),
                         LAMBDA body : NextIsFalseTarget(Joins(body, Len(body.g), Len(c.g)), Len(c.g))))

GenStmt(r, tree, path, s) ==
    CASE Done(r) \/ s[1] = "none" -> r
      [] ~Done(r) /\ s[1] = "assign" -> GenStoreVar(GenExpr(r, tree, path, s[3]), tree, path, s[2])
      [] ~Done(r) /\ s[1] = "call" -> GenCall(r, tree, path, s[2], s[3])
      [] ~Done(r) /\ s[1] = "begin" -> GenStmts(r, tree, path, s[2])
      [] ~Done(r) /\ s[1] = "if" -> GenIf(r, tree, path, s[2], s[3], s[4])
      [] ~Done(r) /\ s[1] = "while" -> GenWhile(r, tree, path, s[2], s[3])
      [] ~Done(r) /\ s[1] = "read" -> GenStoreVar(AddTo(r, Op("READ")), tree, path, s[2])
      [] ~Done(r) /\ s[1] = "write" -> AddTo(GenExpr(r, tree, path, s[2]), Op("WRITE"))

GenBlock(tree, path, stmt) ==
    LET size == tree[path].size
        new == [ok |-> "yes", g |-> NewGraph, marks |-> << >>]
    IN  GenStmt(IF size = 0 THEN new ELSE AddTo(new, IncBy(size)), tree, path, stmt)

-----------------------------------------------------------------------------
(* Block_generate and Block_optimize, on the graphs of all the procedures  *)
(* by their paths.                                                         *)

RECURSIVE Generate(_, _, _, _), GenerateProcs(_, _, _, _)

\* The procedures of a block are found by their names.  One whose name is another
\* symbol's has no block: the code reads one all the same.
GenerateProcs(p, tree, path, procs) ==
    IF procs = << >> \/ Done(p) THEN p
    ELSE LET sym == Find(tree, path, Head(procs).name)
         IN  IF sym.kind # "proc" THEN [p EXCEPT !.ok = "undefined"]
             ELSE GenerateProcs(Generate(p, tree, sym.path, Head(procs).body), tree, path, Tail(procs))
Generate(p, tree, path, block) ==
    Then(GenerateProcs(p, tree, path, block.procs),
         LAMBDA inner : LET own == GenBlock(tree, path, block.stmt)
                        IN  [inner EXCEPT !.ok = own.ok, !.code = (path :> own.g) @@ @])

RECURSIVE Optimize(_, _, _), OptimizeBlocks(_, _, _, _), OptimizeCalls(_, _, _, _, _)

\* The references of a block to symbols, in the order they were made in.
SymRefs(blk) == FlattenSeq([i \in DOMAIN blk.insns |->
                    [m \in DOMAIN blk.insns[i].syms |-> [sym |-> blk.insns[i].syms[m], index |-> i]]])

\* BasicBlock_optimize, its beginning: the procedures called come first, and a call of
\* one that is empty goes, with nothing else of what it takes to call it.  All references
\* of the instruction go with it, and the place in them steps back by one.
OptimizeCalls(p, tree, path, b, i) ==
    LET refs == SymRefs(p.code[path][b])
        sym == refs[i].sym
        q == Optimize(p, tree, sym.path)
        gone == IsEmptyProc(q.code[sym.path])
    IN  CASE i > Len(refs) -> p
          [] i <= Len(refs) /\ sym.kind # "proc" -> OptimizeCalls(p, tree, path, b, i + 1)
          [] OTHER -> IF gone THEN OptimizeCalls([q EXCEPT !.code[path] = RemoveInsn(@, b, refs[i].index)],
                                                 tree, path, b, i)
                      ELSE OptimizeCalls(q, tree, path, b, i + 1)

\* From the last block to the first.
OptimizeBlocks(p, tree, path, b) ==
    IF b = Null THEN p
    ELSE LET prev == p.code[path][b].prev
             q == OptimizeCalls(p, tree, path, b, 1)
             g == TailCallOptimize(Bypass(q.code[path], b), b, Level(path), tree[path].size)
         IN  OptimizeBlocks([q EXCEPT !.code[path] = g], tree, path, prev)

\* Once for each procedure, however many calls lead to it.
Optimize(p, tree, path) ==
    IF path \in p.optimized THEN p
    ELSE OptimizeBlocks([p EXCEPT !.optimized = @ \cup {path}], tree, path, Last(Chain(p.code[path])))

-----------------------------------------------------------------------------
(* Block_setAddress and its companions: the places of the procedures that  *)
(* are called, by their paths.  A procedure has its place when the first   *)
(* call of it is resolved: behind the last block of the chain that the     *)
(* block with the call begins (last and next).                             *)

CodeLength(g) == FoldLeft(LAMBDA n, b : n + InstructionCount(g, b), 0, Chain(g))
Calls(g) == FlattenSeq([k \in DOMAIN Chain(g) |->
                           LET insns == g[Chain(g)[k]].insns
                           IN  FlattenSeq([i \in DOMAIN insns |-> ProcsOf(insns[i].syms)])])

NoLayout == [addr |-> << >>, last |-> << >>, next |-> << >>]

RECURSIVE SetAddress(_, _, _, _), Resolve(_, _, _, _), GetLast(_, _)

GetLast(lay, path) == IF path \in DOMAIN lay.last THEN GetLast(lay, lay.last[path]) ELSE path

\* A fault to be caught: a block is appended to the one with the call.
AppendBlock_Fault(lay, code, self, new) ==
    LET laid == SetAddress(lay, code, new, lay.addr[self] + CodeLength(code[self]))
    IN  [laid EXCEPT !.next = (self :> new) @@ @, !.last = (self :> new) @@ @]

\* Block_append and Block_setNext: the new block is linked when all it calls is placed.
AppendBlock(lay, code, self, new) ==
    LET end == GetLast(lay, self)
        laid == SetAddress(lay, code, new, lay.addr[end] + CodeLength(code[end]))
    IN  [laid EXCEPT !.next = (end :> new) @@ @,
                     !.last = (self :> new) @@ (end :> new) @@ @]

Resolve(lay, code, self, calls) ==
    IF calls = << >> THEN lay
    ELSE LET callee == Head(calls).path
         IN  Resolve(IF callee \in DOMAIN lay.addr THEN lay ELSE AppendBlock(lay, code, self, callee),
                     code, self, Tail(calls))

SetAddress(lay, code, path, addr) ==
    Resolve([lay EXCEPT !.addr = (path :> addr) @@ @], code, path, Calls(code[path]))

Layout(code) == SetAddress(NoLayout, code, << >>, 0)

\* The procedures in the order they are emitted in.
Emitted(lay) == LET from[p \in DOMAIN lay.addr] ==
                        <<p>> \o (IF p \in DOMAIN lay.next THEN from[lay.next[p]] ELSE << >>)
                IN  from[<< >>]

\* A block's address, in a procedure that has one.
BlockAddress(lay, code, path, b) ==
    LET g == code[path]
        before[c \in 0 .. Len(g)] ==
            IF c = Null \/ g[c].prev = Null THEN lay.addr[path]
            ELSE before[g[c].prev] + InstructionCount(g, g[c].prev)
    IN  before[b]

\* BasicBlock_resolve: of several references to one instruction each has its effect.
ResolveSym(lay, path, insn, sym) ==
    LET up == Level(path) - sym.level
    IN  CASE sym.kind = "const" -> [insn EXCEPT !.imm = sym.value]
          [] sym.kind = "var" -> [insn EXCEPT !.lvl = up, !.imm = sym.value]
          [] sym.kind = "proc" -> [insn EXCEPT !.lvl = IF insn.op = "CAL" THEN up ELSE @,
                                               !.imm = lay.addr[sym.path]]
ResolveInsn(lay, path, insn) == FoldLeft(LAMBDA i, s : ResolveSym(lay, path, i, s), insn, insn.syms)

\* Block_emit: what mcode.txt has of a procedure.
EmitProc(lay, code, path) ==
    LET g == code[path]
        ret == IF Level(path) = 0 THEN "HALT" ELSE "RET"
        Placed(insn) == IF insn.op \in {"JMP", "JPC"}
                        THEN [insn EXCEPT !.imm = BlockAddress(lay, code, path, @)] ELSE insn
        Of(b) == LET body == Body(g, b, ret)
                     tail == Jumps(g, b, ret).insns
                 IN  [i \in DOMAIN body |-> ResolveInsn(lay, path, body[i])]
                     \o [i \in DOMAIN tail |-> Placed(tail[i])]
    IN  FlattenSeq([k \in DOMAIN Chain(g) |-> Of(Chain(g)[k])])

=============================================================================
