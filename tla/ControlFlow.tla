---------------------------- MODULE ControlFlow ----------------------------
(***************************************************************************)
(* What the virtual machine promises about control: the program counter    *)
(* moves by the instructions of the program that was loaded, one at a      *)
(* time.  There is no stack here (Machine has it, and implements this) and *)
(* no breakpoint, pause or interrupt (a debugged run has to look like this *)
(* one as well: Debugger!RunsTheProgram).                                  *)
(***************************************************************************)
EXTENDS Integers

CONSTANT ReturnAddrs    \* the values RET may find in a frame's return slot

VARIABLES
    program,    \* the instructions by their address, told apart as in Breakpoints
    pc

\* The instruction moves the program counter from one value to another.  HALT
\* clears the registers, the counter among them; an instruction that fails, or
\* that execute refuses, moves nothing.
Moves(insn, from, to) ==
    \/ insn.op \in {"seq", "read"} /\ to = from + 1
    \/ insn.op \in {"jmp", "cal"}  /\ to = insn.imm
    \/ insn.op = "jpc"             /\ to \in {insn.imm, from + 1}
    \/ insn.op = "ret"             /\ to \in ReturnAddrs
    \/ insn.op = "halt"            /\ to = 0

\* A program may have BREAK words of its own.  One does nothing, unless a debugger has put a
\* breakpoint of its number somewhere: then the instruction there runs in its place.
StandsFor(a) == IF program[a].op = "break" THEN {program[b] : b \in DOMAIN program}
                ELSE {program[a]}

Init == pc = 0
Step == /\ pc \in DOMAIN program
        /\ \E insn \in StandsFor(pc) : Moves(insn, pc, pc')
        /\ UNCHANGED program
Spec == Init /\ [][Step]_<<program, pc>>

=============================================================================
