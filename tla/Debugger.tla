------------------------------ MODULE Debugger ------------------------------
(***************************************************************************)
(* The run loop of the PM/0 virtual machine (Machine_continue,             *)
(* Machine_step, Machine_runOne in vm/machine.c), the debugger's command   *)
(* loop around it (vm/debugengine.c) and the SIGINT handler that may run   *)
(* between any two of their steps.                                         *)
(*                                                                         *)
(* The program is single-threaded: `phase' is the place its one thread has *)
(* reached, cut where the handler's flag, the signal disposition or the    *)
(* input is read or written.  What instructions do to the data stack is    *)
(* not here: an instruction that may fail on it may fail, a conditional    *)
(* jump goes either way, RET finds one of ReturnAddrs.                     *)
(***************************************************************************)
EXTENDS Breakpoints

CONSTANTS
    ReturnAddrs     \* the values RET may find in a frame's return slot

ASSUME ReturnAssumption == ReturnAddrs \subseteq Int

VARIABLES
    debug,          \* DEBUG_ACTIVE: running under the debugger (pl0 -d)
    resuming,       \* DEBUG_RESUMING
    stepping,       \* DEBUG_STEPPING
    status,         \* CPUStatus
    pc, ir,         \* the registers that control uses
    interrupted,    \* the flag the handler sets
    handler,        \* the disposition of SIGINT: "default" or "catch"
    old_handler,    \* what enable_interrupt_handler saved
    phase,          \* where the thread is
    said,           \* what doContinue printed: "hit", "paused" or "none"
    ran             \* history: instructions completed since the last
                    \* continue or step, saturating at 2

cpuVars == <<status, pc, ir, resuming>>
sigVars == <<interrupted, handler, old_handler>>
vars == <<bpVars, cpuVars, sigVars, debug, stepping, phase, said, ran>>

Statuses == {"not_started", "running", "paused", "halted", "error"}
ReadPhases == {"parse", "chunk", "syscall", "blocked", "got"}
MidInsn == ReadPhases \cup {"execute"}
Phases == MidInsn \cup {"start", "prompt", "run", "enable", "fetch", "check",
                        "exit", "restore", "return", "report", "done"}

\* The instruction register before the first fetch and after HALT: all zeroes,
\* which is an opcode execute refuses.
ZeroInsn == [op |-> "illegal", imm |-> 0]

Init == /\ BpInit
        /\ debug \in BOOLEAN
        /\ resuming = FALSE
        /\ stepping = FALSE
        /\ status = "not_started"
        /\ pc = 0
        /\ ir = ZeroInsn
        /\ interrupted = FALSE
        /\ handler = "default"
        /\ old_handler = "default"
        /\ phase = "start"
        /\ said = "none"
        /\ ran = 0

Goto(p) == phase' = p

-----------------------------------------------------------------------------
(* Starting, and the debugger's commands.                                  *)

\* run_vm: Machine_start, then either the debugger's prompt or Machine_run.
Start == /\ phase = "start"
         /\ status' = "paused"
         /\ Goto(IF debug THEN "prompt" ELSE "run")
         /\ UNCHANGED <<bpVars, sigVars, debug, resuming, stepping, pc, ir, said, ran>>

\* A fault to be caught: the resuming flag is not set.
EnterContinue_Fault == /\ status = "paused"
                       /\ ran' = 0
                       /\ said' = "none"
                       /\ Goto(IF debug THEN "enable" ELSE "fetch")
                       /\ UNCHANGED <<bpVars, sigVars, debug, status, pc, ir, resuming>>

\* The head of Machine_continue, up to the loop.
EnterContinue == /\ status = "paused"
                 /\ resuming' = TRUE
                 /\ ran' = 0
                 /\ said' = "none"
                 /\ Goto(IF debug THEN "enable" ELSE "fetch")
                 /\ UNCHANGED <<bpVars, sigVars, debug, status, pc, ir>>

MachineRun == phase = "run" /\ EnterContinue /\ UNCHANGED stepping
DoContinue == phase = "prompt" /\ EnterContinue /\ UNCHANGED stepping
DoStep == phase = "prompt" /\ EnterContinue /\ stepping' = TRUE

\* The bp commands.  The command loop then looks at the status, which is still
\* paused, and prompts again.  An empty line repeats the last command: one the
\* user could have typed.
DoBreakpoint == /\ phase = "prompt"
                /\ BpNext
                /\ said' = "none"
                /\ UNCHANGED <<cpuVars, sigVars, debug, stepping, phase, ran>>

\* A fault to be caught: quitting leaves the breakpoints planted.
Quit_Fault == /\ phase = "prompt"
              /\ Goto("done")
              /\ UNCHANGED <<bpVars, cpuVars, sigVars, debug, stepping, said, ran>>

\* quit, or the end of standard input: the loop is left and the breakpoints removed.
Quit == /\ phase = "prompt"
        /\ clearBreakpoints
        /\ Goto("done")
        /\ UNCHANGED <<cpuVars, sigVars, debug, stepping, said, ran>>

-----------------------------------------------------------------------------
(* Fetching.                                                               *)

EnableHandler == /\ phase = "enable"
                 /\ interrupted' = FALSE
                 /\ old_handler' = handler
                 /\ handler' = "catch"
                 /\ Goto("fetch")
                 /\ UNCHANGED <<bpVars, cpuVars, debug, stepping, said, ran>>

\* Machine_fetch: while resuming, a breakpoint's own instruction is fetched and
\* the flag survives; the first fetch that is not of a breakpoint clears it.
Resumes == resuming /\ IsBreak(code[pc]) /\ breakpointExists(code[pc].imm)
\* A fault to be caught: the instruction of the breakpoint added last, not of this one.
Fetched_Fault == IF Resumes THEN bps[Len(bps)].orig ELSE code[pc]

Fetched == IF Resumes THEN Bp(code[pc].imm).orig ELSE code[pc]

FetchOutside == /\ phase = "fetch"
                /\ pc \notin Addr
                /\ status' = "error"
                /\ Goto("exit")
                /\ UNCHANGED <<bpVars, sigVars, debug, resuming, stepping, pc, ir, said, ran>>

\* A fault to be caught: pc is incremented before the breakpoint is noticed.
FetchBreak_Fault == /\ phase = "fetch"
                    /\ pc \in Addr
                    /\ IsBreak(Fetched)
                    /\ resuming' = FALSE
                    /\ LET known == breakpointExists(Fetched.imm)
                       IN  /\ status' = IF known THEN "paused" ELSE "error"
                           /\ ir' = IF known THEN Bp(Fetched.imm).orig ELSE Fetched
                    /\ pc' = pc + 1
                    /\ Goto("exit")
                    /\ UNCHANGED <<bpVars, sigVars, debug, stepping, said, ran>>

FetchBreak == /\ phase = "fetch"
              /\ pc \in Addr
              /\ IsBreak(Fetched)
              /\ resuming' = FALSE
              /\ LET known == breakpointExists(Fetched.imm)
                 IN  /\ status' = IF known THEN "paused" ELSE "error"
                     /\ ir' = IF known THEN Bp(Fetched.imm).orig ELSE Fetched
              /\ Goto("exit")
              /\ UNCHANGED <<bpVars, sigVars, debug, stepping, pc, said, ran>>

\* A fault to be caught: the machine also runs while single stepping.
FetchInsn_Fault == /\ phase = "fetch"
                   /\ pc \in Addr
                   /\ ~IsBreak(Fetched)
                   /\ ir' = Fetched
                   /\ resuming' = Resumes
                   /\ status' = "running"
                   /\ pc' = pc + 1
                   /\ Goto("execute")
                   /\ UNCHANGED <<bpVars, sigVars, debug, stepping, said, ran>>

FetchInsn == /\ phase = "fetch"
             /\ pc \in Addr
             /\ ~IsBreak(Fetched)
             /\ ir' = Fetched
             /\ resuming' = Resumes
             /\ status' = IF stepping THEN status ELSE "running"
             /\ pc' = pc + 1
             /\ Goto("execute")
             /\ UNCHANGED <<bpVars, sigVars, debug, stepping, said, ran>>

-----------------------------------------------------------------------------
(* Executing.  runOne has already incremented pc.                          *)

Completed == /\ Goto("check")
             /\ ran' = IF ran < 2 THEN ran + 1 ELSE 2
             /\ UNCHANGED <<bpVars, sigVars, debug, stepping, resuming, said>>

ExecSequential == /\ phase = "execute" /\ ir.op = "seq"
                  /\ Completed
                  /\ UNCHANGED <<status, pc, ir>>

ExecJump == /\ phase = "execute"
            /\ \/ ir.op \in {"jmp", "cal"} /\ pc' = ir.imm
               \/ ir.op = "jpc" /\ pc' \in {pc, ir.imm}
               \/ ir.op = "ret" /\ pc' \in ReturnAddrs
            /\ Completed
            /\ UNCHANGED <<status, ir>>

\* HALT clears all the registers.
ExecHalt == /\ phase = "execute" /\ ir.op = "halt"
            /\ pc' = 0
            /\ ir' = ZeroInsn
            /\ status' = "halted"
            /\ Completed

\* A stack index out of range, a division by zero, an unknown instruction.  RET may
\* have popped pc by then, and it is the popped pc that is decremented.
PoppedBack == {a - 1 : a \in ReturnAddrs}
ExecFails == /\ phase = "execute"
             /\ ir.op \in {"seq", "jpc", "cal", "ret", "illegal"}
             /\ status' = "error"
             /\ \/ pc' = pc - 1
                \/ ir.op = "ret" /\ pc' \in PoppedBack
             /\ Goto("exit")
             /\ UNCHANGED <<bpVars, sigVars, debug, resuming, stepping, ir, said, ran>>

-----------------------------------------------------------------------------
(* READ: readWord and readIntString take what they need from the buffered  *)
(* input, or ask readChunk for more.  What the bytes are is in InputPort.  *)

Reading(from, to) == /\ phase = from
                     /\ Goto(to)
                     /\ UNCHANGED <<bpVars, cpuVars, sigVars, debug, stepping, said, ran>>

ExecRead == ir.op = "read" /\ Reading("execute", "parse")
NeedsInput == Reading("parse", "chunk")
\* Between the test of the flag and the system call the signal is not seen.
CallsRead == ~interrupted /\ Reading("chunk", "syscall")
Blocks == Reading("syscall", "blocked")
\* The user types something, or the input has ended and read returns nothing.
ReadReturns == Reading("blocked", "got")
Resumed == ~interrupted /\ Reading("got", "parse")

ReadCompletes == /\ phase = "parse"
                 /\ Completed
                 /\ UNCHANGED <<status, pc, ir>>

\* The number does not fit on the stack.
ReadFails == /\ phase = "parse"
             /\ status' = "error"
             /\ pc' = pc - 1
             /\ Goto("exit")
             /\ UNCHANGED <<bpVars, sigVars, debug, resuming, stepping, ir, said, ran>>

\* A fault to be caught: the status is left as it was.
ReadAborts_Fault == /\ phase \in {"chunk", "got"}
                    /\ interrupted
                    /\ pc' = pc - 1
                    /\ Goto("exit")
                    /\ UNCHANGED <<bpVars, sigVars, debug, resuming, stepping, status, ir, said, ran>>

\* The instruction is undone: it runs again when the program is continued.
ReadAborts == /\ phase \in {"chunk", "got"}
              /\ interrupted
              /\ status' = "paused"
              /\ pc' = pc - 1
              /\ Goto("exit")
              /\ UNCHANGED <<bpVars, sigVars, debug, resuming, stepping, ir, said, ran>>

-----------------------------------------------------------------------------
(* The end of an iteration, and of Machine_continue and Machine_step.      *)

\* A fault to be caught: the flag is not looked at between instructions.
Check_Fault == /\ phase = "check"
               /\ Goto(IF status = "running" THEN "fetch" ELSE "exit")
               /\ UNCHANGED <<bpVars, cpuVars, sigVars, debug, stepping, said, ran>>

Check == /\ phase = "check"
         /\ status' = IF interrupted THEN "paused" ELSE status
         /\ Goto(IF status' = "running" THEN "fetch" ELSE "exit")
         /\ UNCHANGED <<bpVars, sigVars, debug, resuming, stepping, pc, ir, said, ran>>

\* A fault to be caught: the test of the flag is inverted.
Exit_Fault == /\ phase = "exit"
              /\ Goto(IF debug /\ interrupted THEN "restore" ELSE "return")
              /\ UNCHANGED <<bpVars, cpuVars, sigVars, debug, stepping, said, ran>>

\* disable_interrupt_handler tests the flag, then restores the disposition.
Exit == /\ phase = "exit"
        /\ Goto(IF debug /\ ~interrupted THEN "restore" ELSE "return")
        /\ UNCHANGED <<bpVars, cpuVars, sigVars, debug, stepping, said, ran>>

RestoreHandler == /\ phase = "restore"
                  /\ handler' = old_handler
                  /\ Goto("return")
                  /\ UNCHANGED <<bpVars, cpuVars, debug, stepping, interrupted,
                                 old_handler, said, ran>>

\* Machine_run returns to run_vm, which ends.
ReturnRun == /\ phase = "return" /\ ~debug
             /\ Goto("done")
             /\ UNCHANGED <<bpVars, cpuVars, sigVars, debug, stepping, said, ran>>

\* doContinue tells the user why the program paused; it looks at the operand
\* of the word at pc, not at its opcode (OP_BREAK is 0).  Outside the program
\* codemem holds whatever it holds.
Messages == IF status # "paused" THEN {"none"}
            ELSE IF pc \notin Addr THEN {"hit", "paused"}
            ELSE IF code[pc].imm = 0 THEN {"hit"} ELSE {"paused"}

ReturnContinue == /\ phase = "return" /\ debug /\ ~stepping
                  /\ said' \in Messages
                  /\ Goto("report")
                  /\ UNCHANGED <<bpVars, cpuVars, sigVars, debug, stepping, ran>>

\* Machine_step always fetches the next instruction, for the display.
ReturnStep == /\ phase = "return" /\ debug /\ stepping
              /\ stepping' = FALSE
              /\ \/ /\ pc \in Addr
                    /\ ir' = Fetched
                    /\ resuming' = Resumes
                    /\ UNCHANGED status
                 \/ /\ pc \notin Addr
                    /\ status' = "error"
                    /\ UNCHANGED <<ir, resuming>>
              /\ Goto("report")
              /\ UNCHANGED <<bpVars, sigVars, debug, pc, said, ran>>

\* The command loop looks at the status; "running" and "not_started" would be
\* its assertion failure.
PromptAgain == /\ phase = "report" /\ status = "paused"
               /\ Goto("prompt")
               /\ UNCHANGED <<bpVars, cpuVars, sigVars, debug, stepping, said, ran>>

Finish == /\ phase = "report" /\ status \in {"halted", "error"}
          /\ clearBreakpoints
          /\ Goto("done")
          /\ UNCHANGED <<cpuVars, sigVars, debug, stepping, said, ran>>

-----------------------------------------------------------------------------
(* SIGINT.  The handler is installed with SA_RESETHAND and without         *)
(* SA_RESTART: it runs once, and it interrupts a read that is waiting.     *)
(* Under the default disposition the signal kills the process, wherever it *)
(* is: a behaviour that goes no further, which Spec allows at any point.   *)

Alive == phase # "done"

Signal == /\ Alive
          /\ handler = "catch"
          /\ interrupted' = TRUE
          /\ handler' = "default"
          /\ Goto(IF phase = "blocked" THEN "got" ELSE phase)
          /\ UNCHANGED <<bpVars, cpuVars, debug, stepping, old_handler, said, ran>>

-----------------------------------------------------------------------------
Command == DoContinue \/ DoStep \/ DoBreakpoint \/ Quit

Fetch == FetchOutside \/ FetchBreak \/ FetchInsn

Execute == \/ ExecSequential \/ ExecJump \/ ExecHalt \/ ExecFails
           \/ ExecRead \/ NeedsInput \/ CallsRead \/ Blocks \/ Resumed
           \/ ReadCompletes \/ ReadFails \/ ReadAborts

Return == \/ Check \/ Exit \/ RestoreHandler
          \/ ReturnRun \/ ReturnContinue \/ ReturnStep
          \/ PromptAgain \/ Finish

\* What the thread does by itself, waiting neither for a command nor for input.
Thread == Start \/ MachineRun \/ EnableHandler \/ Fetch \/ Execute \/ Return

Terminated == ~Alive /\ UNCHANGED vars

Next == Thread \/ Command \/ ReadReturns \/ Signal \/ Terminated

Spec == Init /\ [][Next]_vars

\* The operating system runs the thread (and no second signal kills it); it owes
\* it no command, no input and no signal.
FairSpec == Spec /\ WF_vars(Thread)

-----------------------------------------------------------------------------
(* Properties.                                                             *)

TypeOK == /\ BpTypeOK
          /\ debug \in BOOLEAN
          /\ resuming \in BOOLEAN
          /\ stepping \in BOOLEAN
          /\ status \in Statuses
          /\ pc \in Int
          /\ ir \in Insn \cup BreakInsn
          /\ interrupted \in BOOLEAN
          /\ handler \in {"default", "catch"}
          /\ old_handler \in {"default", "catch"}
          /\ phase \in Phases
          /\ said \in {"none", "hit", "paused"}
          /\ ran \in 0 .. 2

\* What the program has at an address.  A BREAK of its own is no instruction, but one of
\* the number of a breakpoint stands for the program's instruction where that breakpoint
\* is (machine.c:366-368).
Meant(a) == IF IsBreak(Program[a]) /\ breakpointExists(Program[a].imm)
            THEN Program[Bp(Program[a].imm).addr]
            ELSE Program[a]

\* Whatever is planted in the code, the instruction being executed is the one
\* the program has at that address: a breakpoint never runs in its place, and
\* resuming fetches the instruction it saved (machine.c:366, 599).  No BREAK is ever
\* executed, not even one the program was loaded with (the assertion of machine.c:386).
ExecutesTheProgram == phase \in MidInsn => /\ pc - 1 \in Addr
                                           /\ ir = Meant(pc - 1)
                                           /\ ~IsBreak(ir)

\* When the session ends, however it ends, no breakpoint is left in the code
\* (debugengine.c:226).
EndRestoresProgram == phase = "done" => code = Program /\ bps = << >>

\* A step runs at most one instruction (debugengine.c:378), also when that
\* instruction is a breakpoint's, jumps to itself, or is followed by a breakpoint.
StepRunsOne == stepping => ran <= 1

\* At the prompt Ctrl+C has the effect it had before the program was continued,
\* in whatever order the signal, the flag's test and sigaction came.
PromptRestoresSignal ==
    phase \in {"prompt", "return", "report"} => handler = "default"

\* The command loop only ever sees the statuses it has a case for; at the prompt
\* the machine can be continued (machine.c:680 never refuses).
ReportsKnownStatus ==
    /\ phase = "report" => status \in {"paused", "halted", "error"}
    /\ phase = "prompt" => status = "paused"

\* Continuing or stepping from a breakpoint gets past it: the first fetch never
\* stops at it, whether or not the breakpoint was there at the last stop
\* ("If the first instruction we fetch is a breakpoint, skip the breakpoint",
\* machine.c:684).  It can only fail, and then because pc is outside the code or at a
\* BREAK that was loaded with the program and has the number of no breakpoint.
ResumesPastBreakpoint ==
    [][(phase = "fetch" /\ phase' = "exit" /\ ran = 0) =>
            /\ status' = "error"
            /\ pc \in Addr => IsBreak(Program[pc]) /\ ~breakpointExists(Program[pc].imm)]_vars

\* A debugged run, with all its breakpoints, pauses and interrupts, is a run of
\* the program that was loaded.  An instruction that is being executed has not
\* happened yet: pc has been incremented, and an abort decrements it.  (A RET that
\* fails may still have moved, to a popped address less one.)  A BREAK of the program's
\* own stops it, or an instruction of the program's runs in its place, as Meant says.
CF == INSTANCE ControlFlow WITH program <- Program,
                                pc <- IF phase \in MidInsn THEN pc - 1 ELSE pc,
                                ReturnAddrs <- ReturnAddrs \cup PoppedBack
RunsTheProgram == CF!Spec

\* A caught Ctrl+C brings the prompt back (or ends the session), from a loop
\* that never ends, from a READ that waits, and at the end of the input.  The
\* one place it may not is the gap between readChunk's test of the flag and the
\* system call: there the thread blocks until some input comes.  (At "enable" the
\* flag is still the last run's.)
InterruptReturns ==
    (interrupted /\ phase \in Phases \ {"enable", "syscall", "blocked"})
        ~> phase \in {"prompt", "done"}

-----------------------------------------------------------------------------
(* What the comments and the help text say, and the code does not do.      *)

\* "Whether we should skip the next instruction if it's a breakpoint"
\* (machine.h:47), "Run until a breakpoint is encountered or the program halts"
\* (debugengine.c:377): once an instruction has run, a breakpoint stops the program.
StopsAtBreakpoint ==
    [][(phase = "fetch" /\ phase' = "execute" /\ ran > 0) => ~IsBreak(code[pc])]_vars

=============================================================================
