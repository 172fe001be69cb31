------------------------------ MODULE Machine ------------------------------
(***************************************************************************)
(* The CPU of the PM/0 virtual machine (Machine_execute, Machine_execALU   *)
(* and Machine_runOne in vm/machine.c): a stack of words that also holds   *)
(* the activation records of the procedures, found again through their     *)
(* static links (where the variables of an enclosing procedure live) and   *)
(* their dynamic links (whom to return to).  The machine runs to its end;  *)
(* Debugger has the interruptions, and InputPort what READ goes through.   *)
(***************************************************************************)
EXTENDS Words, Sequences, SequencesExt, FiniteSetsExt

CONSTANTS
    Programs,       \* what may be loaded: see Program
    StackHeight,    \* MAX_STACK_HEIGHT
    MaxFrames,      \* MAX_LEXI_LEVELS
    Typed           \* the words a user may type at a READ

ASSUME MachineAssumption == /\ WordMax \in Nat \ {0}
                            /\ StackHeight \in 0 .. WordMax
                            /\ MaxFrames \in 0 .. WordMax
                            /\ Typed \subseteq Word

\* An operation of OPR or SIO is an operation of its own here; "illegal" is any
\* word that is refused, BREAK among them (no breakpoint has its number here).
Operation == Unary \cup Binary \cup {"LIT", "LOD", "STO", "CAL", "RET", "INC", "JMP", "JPC",
                                     "WRITE", "READ", "HALT", "illegal"}
Insn == [op : Operation, lvl : Nat, imm : Word]

\* A program: the instructions by their address, and the procedure that declares
\* each procedure, both by their entry address (Main for those of level 0).  The
\* machine does not know the second; the history variable below does.
Main == -1
IsProgram(p) ==
    \E n \in 0 .. WordMax : /\ p.code \in [0 .. n - 1 -> Insn]
                            /\ DOMAIN p.encloser \subseteq 0 .. n - 1
                            /\ \A e \in DOMAIN p.encloser :
                                  p.encloser[e] \in DOMAIN p.encloser \cup {Main}

ASSUME ProgramAssumption == \A p \in Programs : IsProgram(p)

VARIABLES
    program,        \* codemem (with its procedures)
    stack, sp, bp, pc,
    frames,         \* the bases of the active frames, for printing the stack trace
    framecount,     \* how many there are
    status,
    active          \* history: the procedures called and not yet returned from

cpuVars == <<stack, sp, bp, pc>>
traceVars == <<frames, framecount, active>>
vars == <<program, cpuVars, traceVars, status>>

Code == program.code
insn == Code[pc]

\* check_sp, check_pc.
InStack(i) == i \in 0 .. StackHeight - 1
InCode(a) == a \in DOMAIN Code

\* A machine that has just loaded its program.
Loaded == /\ stack = [i \in 0 .. StackHeight - 1 |-> 0]
          /\ sp = 0 /\ bp = 1 /\ pc = 0
          /\ frames = [i \in 0 .. MaxFrames - 1 |-> 0]
          /\ framecount = 0
          /\ active = << >>

Init == program \in Programs /\ Loaded /\ status = "running"

-----------------------------------------------------------------------------
(* Steps and their failures.                                               *)

Execute(op) == status = "running" /\ InCode(pc) /\ insn.op = op

\* The next instruction follows, with this stack.
Continue(newStack, newSp) == /\ stack' = newStack
                             /\ sp' = newSp
                             /\ pc' = pc + 1
                             /\ UNCHANGED <<program, bp, traceVars, status>>

\* A failed instruction is left behind with what it had changed by then.
Fail(newStack, newSp, newPc) == /\ status' = "error"
                                /\ stack' = newStack
                                /\ sp' = Wrap(newSp)
                                /\ pc' = newPc
                                /\ UNCHANGED <<program, bp, traceVars>>

FetchOutside == status = "running" /\ ~InCode(pc) /\ Fail(stack, sp, pc)
Illegal == Execute("illegal") /\ Fail(stack, sp, pc)

Push(w) == \/ InStack(sp + 1) /\ Continue([stack EXCEPT ![sp + 1] = w], sp + 1)
           \/ ~InStack(sp + 1) /\ Fail(stack, sp + 1, pc)

\* get_base: l static links up from bp, in stack s; Lost when the way leaves it.
Lost == WordMin - 1
Base(s, l) ==
    LET base[k \in 0 .. l] ==
            IF k = 0 THEN bp
            ELSE IF InStack(base[k - 1] + 1) THEN s[base[k - 1] + 1] ELSE Lost
    IN  base[l]

Slot == LET base == Base(stack, insn.lvl)
        IN  IF base = Lost THEN Lost ELSE Wrap(base + insn.imm)

-----------------------------------------------------------------------------
(* Machine_execute.                                                        *)

Lit == Execute("LIT") /\ Push(insn.imm)

\* In LOD and STO the two sides of the assignment are evaluated in either order, and
\* one of them moves sp.
Lod == /\ Execute("LOD")
       /\ \/ InStack(Slot) /\ Push(stack[Slot])
          \/ ~InStack(Slot) /\ \E s \in {sp, sp + 1} : Fail(stack, s, pc)

Sto == /\ Execute("STO")
       /\ \/ /\ InStack(Slot) /\ InStack(sp)
             /\ Continue([stack EXCEPT ![Slot] = stack[sp]], sp - 1)
          \/ InStack(Slot) /\ ~InStack(sp) /\ Fail(stack, sp - 1, pc)
          \/ ~InStack(Slot) /\ \E s \in {sp, sp - 1} : Fail(stack, s, pc)

Inc == Execute("INC") /\ Continue(stack, Wrap(sp + insn.imm))

\* What the history says of a procedure entered: its frame, the place in active of
\* the procedure that declares it (the latest one, 0 for the main program), and
\* what a return from it has to restore.
Parent(callers, p) == Max({0} \cup {i \in DOMAIN callers : callers[i].proc = program.encloser[p]})
Entered(callers, p) ==
    [proc |-> p,
     parent |-> IF p \in DOMAIN program.encloser THEN Parent(callers, p) ELSE 0,
     frame |-> sp + 1,
     caller |-> [sp |-> sp, bp |-> bp, pc |-> pc + 1]]

\* A jump to the entry of a procedure is a tail call: the frame changes hands.
TailEntered(p) == IF active = << >> \/ p \notin DOMAIN program.encloser
                  THEN active
                  ELSE [active EXCEPT ![Len(active)].proc = p,
                                      ![Len(active)].parent = Parent(Front(active), p)]

\* A fault to be caught: the program counter goes back to the jump, as after a failure.
Jmp_Fault == /\ Execute("JMP")
             /\ pc' = pc
             /\ active' = TailEntered(insn.imm)
             /\ UNCHANGED <<program, stack, sp, bp, frames, framecount, status>>

Jmp == /\ Execute("JMP")
       /\ pc' = insn.imm
       /\ active' = TailEntered(insn.imm)
       /\ UNCHANGED <<program, stack, sp, bp, frames, framecount, status>>

Jpc == /\ Execute("JPC")
       /\ \/ /\ InStack(sp)
             /\ pc' = IF stack[sp] = 0 THEN insn.imm ELSE pc + 1
             /\ sp' = sp - 1
             /\ UNCHANGED <<program, stack, bp, traceVars, status>>
          \/ ~InStack(sp) /\ Fail(stack, sp, pc)

\* A fault to be caught: the caller's frame for the static link of the callee.
Linked_Fault == <<0, bp, bp, pc + 1>>

\* The four words of the frame are written one after the other, the static link
\* being looked up after the first is.
Linked == LET zeroed == [i \in DOMAIN stack |-> IF i = sp + 1 THEN 0 ELSE stack[i]]
          IN  <<0, Base(zeroed, insn.lvl), bp, pc + 1>>
Written == {i \in 1 .. 4 : \A j \in 1 .. i : InStack(sp + j) /\ Linked[j] \in Word}
WithLinks == [i \in DOMAIN stack |-> IF i - sp \in Written THEN Linked[i - sp] ELSE stack[i]]
FrameFits == framecount \in 0 .. MaxFrames - 1

Cal == /\ Execute("CAL")
       /\ \/ /\ Written = 1 .. 4 /\ FrameFits
             /\ stack' = WithLinks
             /\ bp' = sp + 1
             /\ pc' = insn.imm
             /\ frames' = [frames EXCEPT ![framecount] = sp + 1]
             /\ framecount' = framecount + 1
             /\ active' = Append(active, Entered(active, insn.imm))
             /\ UNCHANGED <<program, sp, status>>
          \* No room in frames: an assertion fails in a debug build, and a release build
          \* writes outside the array.
          \/ /\ Written = 1 .. 4 /\ ~FrameFits
             /\ status' = "undefined"
             /\ UNCHANGED <<program, cpuVars, traceVars>>
          \/ Written # 1 .. 4 /\ Fail(WithLinks, sp, pc)

\* A fault to be caught: the return value stays on the stack.
Ret_Fault == /\ Execute("RET")
             /\ InStack(bp + 3) /\ InStack(bp + 2)
             /\ sp' = bp
             /\ pc' = stack[bp + 3]
             /\ bp' = stack[bp + 2]
             /\ framecount' = Wrap(framecount - 1)
             /\ active' = IF active = << >> THEN << >> ELSE Front(active)
             /\ UNCHANGED <<program, stack, frames, status>>

\* A fault to be caught: the frame is not taken from the list.
Ret_Kept == /\ Execute("RET")
            /\ InStack(bp + 3) /\ InStack(bp + 2)
            /\ sp' = bp - 1
            /\ pc' = stack[bp + 3]
            /\ bp' = stack[bp + 2]
            /\ active' = IF active = << >> THEN << >> ELSE Front(active)
            /\ UNCHANGED <<program, stack, frames, framecount, status>>

\* The program counter is popped before the dynamic link is read.
Ret == /\ Execute("RET")
       /\ \/ /\ InStack(bp + 3) /\ InStack(bp + 2)
             /\ sp' = bp - 1
             /\ pc' = stack[bp + 3]
             /\ bp' = stack[bp + 2]
             /\ framecount' = Wrap(framecount - 1)
             /\ active' = IF active = << >> THEN << >> ELSE Front(active)
             /\ UNCHANGED <<program, stack, frames, status>>
          \/ ~InStack(bp + 3) /\ Fail(stack, bp - 1, pc)
          \/ InStack(bp + 3) /\ ~InStack(bp + 2) /\ Fail(stack, bp - 1, Wrap(stack[bp + 3] - 1))

UnaryOp == /\ \E op \in Unary : Execute(op)
           /\ \/ /\ InStack(sp)
                 /\ Continue([stack EXCEPT ![sp] = Compute(insn.op, stack[sp], 0)], sp)
              \/ ~InStack(sp) /\ Fail(stack, sp, pc)

\* The right operand is popped first.
Operands == InStack(sp - 1) /\ InStack(sp) /\ Defined(insn.op, stack[sp - 1], stack[sp])
BinaryOp ==
    /\ \E op \in Binary : Execute(op)
    /\ \/ /\ Operands
          /\ Continue([stack EXCEPT ![sp - 1] = Compute(insn.op, stack[sp - 1], stack[sp])], sp - 1)
       \/ ~Operands /\ Fail(stack, sp - 1, pc)

Write == /\ Execute("WRITE")
         /\ \/ InStack(sp) /\ Continue(stack, sp - 1)
            \/ ~InStack(sp) /\ Fail(stack, sp, pc)

Read == Execute("READ") /\ \E w \in Typed : Push(w)

\* A fault to be caught: the program counter is not cleared with the other registers.
Halt_Fault == /\ Execute("HALT")
              /\ sp' = 0 /\ bp' = 0 /\ pc' = pc + 1
              /\ framecount' = 0
              /\ status' = "halted"
              /\ active' = << >>
              /\ UNCHANGED <<program, stack, frames>>

\* All the registers are cleared.
Halt == /\ Execute("HALT")
        /\ sp' = 0 /\ bp' = 0 /\ pc' = 0
        /\ framecount' = 0
        /\ status' = "halted"
        /\ active' = << >>
        /\ UNCHANGED <<program, stack, frames>>

Terminated == status # "running" /\ UNCHANGED vars

Next == \/ FetchOutside \/ Illegal \/ Lit \/ Lod \/ Sto \/ Inc \/ Jmp \/ Jpc \/ Cal \/ Ret
        \/ UnaryOp \/ BinaryOp \/ Write \/ Read \/ Halt \/ Terminated

Spec == Init /\ [][Next]_vars

-----------------------------------------------------------------------------
(* Properties of every program, one written by hand included.              *)

TypeOK == /\ IsProgram(program)
          /\ stack \in [0 .. StackHeight - 1 -> Word]
          /\ sp \in Word /\ bp \in Word /\ pc \in Word
          /\ frames \in [0 .. MaxFrames - 1 -> Word]
          /\ framecount \in Word
          /\ status \in {"running", "halted", "error", "undefined"}

-----------------------------------------------------------------------------
(* Properties of the programs the compiler makes.                          *)

\* The stack trace draws the frames that are there: frames lists them from the
\* outermost, each the caller of the next by its dynamic link, the last being bp.
FrameOf(i) == IF i = 0 THEN 1 ELSE active[i].frame
FramesAreTheCallers ==
    status = "running" =>
        /\ framecount = Len(active)
        /\ bp = FrameOf(framecount)
        /\ \A i \in 1 .. framecount : /\ frames[i - 1] = FrameOf(i)
                                      /\ stack[FrameOf(i) + 2] = FrameOf(i - 1)
                                      /\ i > 1 => FrameOf(i - 1) < FrameOf(i)

\* A name means the procedure or variable of the scope that declares it: as many
\* static links up as an instruction says is the frame of that many declarations
\* up, in its latest activation, through recursion and tail calls alike.
ReachesItsScope ==
    (status = "running" /\ InCode(pc) /\ insn.op \in {"LOD", "STO", "CAL"}) =>
        LET up[k \in 0 .. insn.lvl] == IF k = 0 THEN Len(active)
                                       ELSE IF up[k - 1] = 0 THEN 0 ELSE active[up[k - 1]].parent
        IN  \A k \in 0 .. insn.lvl : Base(stack, k) = FrameOf(up[k])

\* A return gives the caller back its frame, its stack and its place, however many
\* calls and tail calls came between (a frame that changed hands by tail calls
\* returns to the caller of the first).
ReturnsToTheCaller ==
    [][Execute("RET") => /\ active # << >>
                         /\ [sp |-> sp', bp |-> bp', pc |-> pc'] = Last(active).caller]_vars

\* A program stops by HALT, at a division, or for want of stack, never by an index
\* below the stack, an address outside the code or a frame outside frames ("not
\* possible to store more than this", config.h:21).
StopsForWantOfStack ==
    /\ status # "undefined"
    /\ status = "error" => \/ sp + 4 >= StackHeight
                           \/ InCode(pc) /\ insn.op \in {"DIV", "MOD"}

-----------------------------------------------------------------------------
(* Machine implements ControlFlow, as Debugger does.                       *)

Kind(op) == CASE op = "JMP" -> "jmp"
              [] op = "CAL" -> "cal"
              [] op = "JPC" -> "jpc"
              [] op = "RET" -> "ret"
              [] op = "READ" -> "read"
              [] op = "HALT" -> "halt"
              [] op = "illegal" -> "illegal"
              [] OTHER -> "seq"

CF == INSTANCE ControlFlow
        WITH program <- [a \in DOMAIN Code |-> [op |-> Kind(Code[a].op), imm |-> Code[a].imm]],
             ReturnAddrs <- Word

\* The program counter moves as Debugger assumes of the execution of an instruction,
\* stopping at the one that fails.
RunsTheProgram == CF!Spec

=============================================================================
