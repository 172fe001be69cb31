---------------------------- MODULE BasicBlocks ----------------------------
(***************************************************************************)
(* The control flow graph of one procedure (codegen/pm0/basicblock.c): a   *)
(* sequence of basic blocks in the order they were created, the last being *)
(* the one that code is generated into.  A block is its place in it, and   *)
(* Null no block.  The links next and prev give the order of the code, and *)
(* refs the blocks whose target or ztarget a block is, once for each.      *)
(***************************************************************************)
EXTENDS SymTree, Words

Null == 0

\* An instruction carries the symbols that are resolved into it when they have addresses
\* (symrefs), in the order they were marked in: one, or more where an operand of a call
\* was refused and left its mark.
Insn(op, lvl, imm) == [op |-> op, lvl |-> lvl, imm |-> imm, syms |-> << >>]
Op(op) == Insn(op, 0, 0)
IncBy(n) == Insn("INC", 0, n)
SymInsn(op, sym) == [Op(op) EXCEPT !.syms = <<sym>>]
Plain(insn) == [insn EXCEPT !.syms = << >>]
ProcsOf(syms) == SelectSeq(syms, LAMBDA s : s.kind = "proc")

\* A block that was released is freed; misused says that it was touched after that.
NewBlock(prev) == [insns |-> << >>, target |-> Null, ztarget |-> Null, next |-> Null, prev |-> prev,
                   refs |-> << >>, cond |-> FALSE, tco |-> FALSE, freed |-> FALSE, misused |-> FALSE]
NewGraph == <<NewBlock(Null)>>

CreateNext(g) == Append([g EXCEPT ![Len(g)].next = Len(g) + 1], NewBlock(Len(g)))
AddInsn(g, b, insn) == [g EXCEPT ![b].insns = Append(@, insn)]
RemoveInsn(g, b, i) == [g EXCEPT ![b].insns = RemoveAt(@, i)]

\* Of a block that is not the first, and of a procedure.
IsEmpty(g, b) == g[b].insns = << >> /\ g[b].prev # Null
IsEmptyProc(g) == /\ g[1].next = Null
                  /\ g[1].insns = << >> \/ (Len(g[1].insns) = 1 /\ g[1].insns[1].op = "INC")

-----------------------------------------------------------------------------
(* The edges of the graph.                                                 *)

AddXref(g, b, from) ==
    IF b = Null THEN g
    ELSE [g EXCEPT ![b].refs = Append(@, from), ![b].misused = @ \/ g[b].freed]

\* Unlink takes a block out of the order of the code.
Unlink(g, b) ==
    LET before == [g EXCEPT ![g[b].prev].next = g[b].next]
    IN  IF g[b].next = Null THEN before ELSE [before EXCEPT ![g[b].next].prev = g[b].prev]

\* A fault to be caught: a block that is released keeps its references to others.
RemoveXref_Fault(g, b, from) ==
    IF b = Null THEN g
    ELSE LET h == [g EXCEPT ![b].refs = RemoveFirst(@, from), ![b].misused = @ \/ g[b].freed]
         IN  IF h[b].prev = Null \/ h[b].refs # << >> THEN h
             ELSE [Unlink(h, b) EXCEPT ![b].next = Null, ![b].freed = TRUE]

\* The last reference takes the block with it, and the references it has to others.
RECURSIVE RemoveXref(_, _, _)
RemoveXref(g, b, from) ==
    IF b = Null THEN g
    ELSE LET h == [g EXCEPT ![b].refs = RemoveFirst(@, from), ![b].misused = @ \/ g[b].freed]
             dropped == RemoveXref(RemoveXref(Unlink(h, b), h[b].target, b), h[b].ztarget, b)
         IN  IF h[b].prev = Null \/ h[b].refs # << >> THEN h
             ELSE [dropped EXCEPT ![b].next = Null, ![b].freed = TRUE]

SetTarget(g, b, target) ==
    AddXref([RemoveXref(g, g[b].target, b) EXCEPT ![b].target = target], target, b)
SetFalseTarget(g, b, target) ==
    AddXref([RemoveXref(g, g[b].ztarget, b) EXCEPT ![b].ztarget = target, ![b].cond = TRUE], target, b)

\* BasicBlock_optimize, its middle: jumps to empty blocks go where those go.  The next
\* target is read before the block it comes from is let go.
RECURSIVE BypassTarget(_, _), BypassFalseTarget(_, _)
BypassTarget(g, b) ==
    LET t == g[b].target
    IN  IF t # Null /\ IsEmpty(g, t) THEN BypassTarget(SetTarget(g, b, g[t].target), b) ELSE g
BypassFalseTarget(g, b) ==
    LET t == g[b].ztarget
    IN  IF g[b].cond /\ t # Null /\ IsEmpty(g, t)
        THEN BypassFalseTarget(SetFalseTarget(g, b, g[t].target), b) ELSE g
Bypass(g, b) == BypassFalseTarget(BypassTarget(g, b), b)

-----------------------------------------------------------------------------
(* BasicBlock_tailCallOptimize.  A call is found by the instructions that  *)
(* end the block; symbols are not resolved yet, so any store is STO 0 0.   *)

CallIndex(insns) ==
    LET n == Len(insns)
    IN  CASE n > 0 /\ insns[n].op = "CAL" -> n
          [] n >= 3 /\ insns[n].op = "STO" /\ Plain(insns[n - 1]) = IncBy(1) /\ insns[n - 2].op = "CAL" -> n - 2
          [] OTHER -> 0

\* A fault to be caught: the parameters are taken from where they are without a call.
TailCall_Fault(callee, callLevel, frameSize, stackOffset) ==
    LET n == callee.value
    IN  <<IncBy(1 - (frameSize + stackOffset)), Insn("LOD", callLevel, 1)>>
        \o (IF n = 0 THEN <<IncBy(-2)>>
            ELSE <<IncBy(2)>> \o [i \in 1 .. n |-> Insn("LOD", 0, frameSize + i - 1)] \o <<IncBy(-(4 + n))>>)
        \o <<SymInsn("JMP", callee)>>

\* A fault to be caught: the callee gets the caller's own static link, whatever its level.
TailCall_Unlinked(callee, callLevel, frameSize, stackOffset) ==
    LET n == callee.value
    IN  <<IncBy(1 - (frameSize + stackOffset)), Insn("LOD", 0, 1)>>
        \o (IF n = 0 THEN <<IncBy(-2)>>
            ELSE <<IncBy(2)>> \o [i \in 1 .. n |-> Insn("LOD", 0, frameSize + 4 + i - 1)] \o <<IncBy(-(4 + n))>>)
        \o <<SymInsn("JMP", callee)>>

\* The frame is left as the caller of this procedure made it, but for the static link
\* and the parameters, and the callee takes it over.
TailCall(callee, callLevel, frameSize, stackOffset) ==
    LET n == callee.value
    IN  <<IncBy(1 - (frameSize + stackOffset)), Insn("LOD", callLevel, 1)>>
        \o (IF n = 0 THEN <<IncBy(-2)>>
            ELSE <<IncBy(2)>> \o [i \in 1 .. n |-> Insn("LOD", 0, frameSize + 4 + i - 1)] \o <<IncBy(-(4 + n))>>)
        \o <<SymInsn("JMP", callee)>>

\* Whether the block has a target is not asked.  Of the procedures marked for the call the
\* last is taken for the callee.  Where the call is the block's first
\* instruction, the one before it is sought in front of the array, and not found there.
TailCallOptimize(g, b, level, frameSize) ==
    LET insns == g[b].insns
        call == CallIndex(insns)
        procs == ProcsOf(insns[call].syms)
        callee == Last(procs)
        args == SubSeq(insns, 1, call - 1)
        trim == call > 1 /\ Plain(args[call - 1]) = IncBy(-(4 + callee.value))
    IN  IF g[b].tco \/ call = 0 \/ procs = << >> \/ level < Level(callee.path) THEN g
        ELSE [g EXCEPT ![b].tco = TRUE,
                       ![b].insns = (IF trim THEN Front(args) ELSE args)
                                    \o TailCall(callee, level - Level(callee.path), frameSize,
                                                IF trim THEN 4 + callee.value ELSE 0)]

-----------------------------------------------------------------------------
(* BasicBlock_genTail: the jumps at the end of a block, here to blocks, and *)
(* whether the condition before them is inverted.  They are made for the   *)
(* block's length, dropped, and made again when it is emitted.             *)

To(op, b) == Insn(op, 0, b)
Jumps(g, b, ret) ==
    LET blk == g[b]
        t == blk.target
        z == blk.ztarget
        odd == blk.insns[Len(blk.insns)].op = "ODD"
        As(insns) == [insns |-> insns, invert |-> FALSE]
        Unless(insns) == IF odd THEN As(<<Insn("LIT", 0, 0), Op("EQL")>> \o insns)
                         ELSE [insns |-> insns, invert |-> TRUE]
    IN  CASE blk.tco -> As(<< >>)
          [] ~blk.tco /\ blk.cond /\ t # z ->
                CASE t = Null -> As(<<To("JPC", z), Op(ret)>>)
                  [] t # Null /\ z = Null -> Unless(<<To("JPC", t), Op(ret)>>)
                  [] t # Null /\ z # Null /\ t = blk.next -> As(<<To("JPC", z)>>)
                  [] t # Null /\ z # Null /\ t # blk.next /\ z = blk.next -> Unless(<<To("JPC", t)>>)
                  [] OTHER -> As(<<To("JPC", z), To("JMP", t)>>)
          [] OTHER -> CASE t = Null -> As(<<Op(ret)>>)
                        [] t # Null /\ t # blk.next -> As(<<To("JMP", t)>>)
                        [] OTHER -> As(<< >>)

\* MAKE_INV, and the block as it is emitted: its own instructions and its jumps.
Inverted == [EQL |-> "NEQ", NEQ |-> "EQL", LSS |-> "GEQ", GEQ |-> "LSS", LEQ |-> "GTR", GTR |-> "LEQ"]
Body(g, b, ret) == LET n == Len(g[b].insns)
                   IN  IF Jumps(g, b, ret).invert
                       THEN [g[b].insns EXCEPT ![n] = Op(Inverted[g[b].insns[n].op])]
                       ELSE g[b].insns
InstructionCount(g, b) == Len(g[b].insns) + Len(Jumps(g, b, "HALT").insns)

\* The blocks in the order of the code.
Chain(g) == LET from[b \in 0 .. Len(g)] == IF b = Null THEN << >> ELSE <<b>> \o from[g[b].next]
            IN  from[1]

=============================================================================
