--------------------------- MODULE Debugger_proofs ---------------------------
(***************************************************************************)
(* Proofs about the run loop and the debugger, for every program, every    *)
(* number of breakpoints and every moment of a Ctrl+C.  Inv is inductive:  *)
(* the table's invariant BpInv, the instruction being executed, and what   *)
(* each phase knows of the status, the flags and the signal's disposition. *)
(***************************************************************************)
EXTENDS Debugger, Breakpoints_proofs

\* The types of the variables that are not the table's.
CtlTypeOK == /\ debug \in BOOLEAN /\ resuming \in BOOLEAN /\ stepping \in BOOLEAN
             /\ status \in Statuses /\ pc \in Int /\ ir \in Insn \cup BreakInsn
             /\ interrupted \in BOOLEAN
             /\ handler \in {"default", "catch"} /\ old_handler \in {"default", "catch"}
             /\ phase \in Phases /\ said \in {"none", "hit", "paused"} /\ ran \in 0 .. 2

\* The status each phase may see.
StatusInv ==
    /\ phase \in {"prompt", "run", "enable"} => status = "paused"
    /\ phase \in MidInsn \cup {"fetch"} => status \in {"paused", "running"}
    /\ phase = "check" => status \in {"paused", "running", "halted"}
    /\ phase \in {"exit", "restore", "return", "report"} => status \in {"paused", "halted", "error"}

\* While stepping the status is never "running", and nothing has run before the
\* instruction that is being fetched or executed.
StepInv ==
    /\ phase \in {"start", "run", "prompt", "report", "done"} => ~stepping
    /\ stepping => debug /\ status # "running" /\ ran <= 1
    /\ stepping /\ phase \in MidInsn \cup {"enable", "fetch"} => ran = 0

\* The first fetch of a run is made with the resuming flag set.
ResumeInv ==
    /\ phase = "enable" => resuming /\ ran = 0
    /\ phase = "fetch" /\ ran = 0 => resuming
    /\ phase = "check" => ran > 0

\* Outside Machine_continue SIGINT has its default disposition; the handler that
\* caught a signal is gone; without the debugger there never was one.
HandlerInv ==
    /\ old_handler = "default"
    /\ handler = "catch" => ~interrupted /\ debug
    /\ phase \in {"start", "run", "prompt", "enable", "return", "report", "done"}
          => handler = "default"

\* The debugger's phases; without it nothing is ever planted in the code.
DebugInv ==
    /\ phase \in {"prompt", "enable", "restore", "report"} => debug
    /\ ~debug => code = Program /\ bps = << >>

\* Where READ is in progress, READ is what is being executed.
ReadInv == phase \in ReadPhases => ir.op = "read"

CtlInv == CtlTypeOK /\ StatusInv /\ StepInv /\ ResumeInv /\ HandlerInv /\ ReadInv

Inv == BpInv /\ CtlInv /\ DebugInv /\ ExecutesTheProgram /\ EndRestoresProgram

-----------------------------------------------------------------------------
\* What a breakpoint of the table saved is the program's instruction where it is.
LEMMA SavedIsProgram ==
    ASSUME BpInv, NEW id \in Int, breakpointExists(id)
    PROVE  /\ Bp(id).addr \in Addr
           /\ Bp(id).orig \in Insn
           /\ Bp(id).orig = Program[Bp(id).addr]
<1>1. id + 1 \in 1 .. Len(bps)
  BY TableEntries DEF breakpointExists
<1> QED BY <1>1, TableEntries DEF Bp, BpInv, OrigsAreProgram

\* A BREAK in the code that is not the program's own names a breakpoint of the table, and the
\* instruction that it saved is the program's.
LEMMA PlantedKnown ==
    ASSUME BpInv, NEW a \in Addr, code[a] # Program[a]
    PROVE  /\ IsBreak(code[a]) /\ ~IsBreak(Program[a])
           /\ breakpointExists(code[a].imm) /\ Bp(code[a].imm).orig = Program[a]
<1>1. PICK i \in 1 .. Len(bps) : code[a] = Break(i - 1) /\ bps[i].addr = a
  BY DEF BpInv, BreaksResolve
<1>2. code[a].imm = i - 1 /\ IsBreak(code[a])
  BY <1>1, BreakIsBreak
<1>3. i \in Int /\ code[a].imm + 1 = i
  BY <1>2, TableEntries
<1>4. bps[i].orig = Program[a] /\ ~IsBreak(Program[a])
  BY <1>1, TableEntries, InsnIsNoBreak DEF BpInv, OrigsAreProgram
<1> QED BY <1>2, <1>3, <1>4, TableEntries DEF breakpointExists, Bp

\* What Machine_fetch fetches is the instruction the program means, a breakpoint it is
\* not resuming from, or a BREAK of the program's own that has the number of none.
LEMMA FetchedIsProgram ==
    ASSUME BpInv, pc \in Addr
    PROVE  /\ ~IsBreak(Fetched) => Fetched = Meant(pc)
           /\ IsBreak(Fetched) /\ resuming => /\ Fetched = Program[pc]
                                              /\ ~breakpointExists(Program[pc].imm)
           /\ Fetched \in Insn \cup BreakInsn
<1>1. code[pc] \in Insn \cup BreakInsn
  BY DEF BpInv, BpTypeOK
<1>2. CASE code[pc] # Program[pc]
  <2>1. /\ ~IsBreak(Program[pc])
        /\ IsBreak(code[pc]) /\ breakpointExists(code[pc].imm)
        /\ Bp(code[pc].imm).orig = Program[pc]
    BY <1>2, PlantedKnown
  <2>2. Program[pc] \in Insn
    BY <2>1, ProgramInsn
  <2> QED BY <1>1, <2>1, <2>2 DEF Fetched, Resumes, Meant
<1>3. CASE code[pc] = Program[pc] /\ Resumes
  <2>1. IsBreak(Program[pc]) /\ breakpointExists(Program[pc].imm)
    BY <1>3 DEF Resumes
  <2>2. Program[pc].imm \in Int
    BY <1>1, <1>3, <2>1 DEF Insn, BreakInsn
  <2>3. Bp(Program[pc].imm).orig \in Insn /\ Bp(Program[pc].imm).orig = Meant(pc)
    BY <2>1, <2>2, SavedIsProgram DEF Meant
  <2> QED BY <1>3, <2>3, InsnIsNoBreak DEF Fetched
<1>4. CASE code[pc] = Program[pc] /\ ~Resumes
  BY <1>1, <1>4 DEF Fetched, Resumes, Meant
<1> QED BY <1>2, <1>3, <1>4

LEMMA FetchedType ==
    ASSUME BpInv, pc \in Addr, IsBreak(Fetched), breakpointExists(Fetched.imm)
    PROVE  Bp(Fetched.imm).orig \in Insn
<1>1. Fetched.imm \in Int
  BY FetchedIsProgram DEF Insn, BreakInsn
<1> QED BY <1>1, SavedIsProgram

LEMMA ZeroType == ZeroInsn \in Insn
  BY DEF ZeroInsn, Insn, Ops

LEMMA BpUnchanged == BpInv /\ UNCHANGED bpVars => BpInv'
  BY DEF BpInv, BpTypeOK, OrigsAreProgram, BreaksResolve, bpVars

-----------------------------------------------------------------------------
LEMMA InitInv == Init => Inv
<1> SUFFICES ASSUME Init PROVE Inv
  OBVIOUS
<1>1. BpInv
  BY BpInitInv DEF Init
<1>2. CtlTypeOK
  <2>1. /\ debug \in BOOLEAN /\ resuming \in BOOLEAN /\ stepping \in BOOLEAN
        /\ interrupted \in BOOLEAN
    BY DEF Init
  <2>2. /\ status \in Statuses /\ phase \in Phases /\ pc \in Int /\ ran \in 0 .. 2
        /\ handler \in {"default", "catch"} /\ old_handler \in {"default", "catch"}
        /\ said \in {"none", "hit", "paused"}
    BY DEF Init, Statuses, Phases, MidInsn, ReadPhases
  <2>3. ir \in Insn \cup BreakInsn
    BY ZeroType DEF Init
  <2> QED BY <2>1, <2>2, <2>3 DEF CtlTypeOK
<1>3. StatusInv /\ StepInv /\ ResumeInv /\ HandlerInv /\ ReadInv
  BY DEF Init, StatusInv, StepInv, ResumeInv, HandlerInv, ReadInv, MidInsn, ReadPhases
<1>4. DebugInv /\ ExecutesTheProgram /\ EndRestoresProgram
  BY DEF Init, BpInit, DebugInv, ExecutesTheProgram, EndRestoresProgram, MidInsn, ReadPhases
<1> QED BY <1>1, <1>2, <1>3, <1>4 DEF Inv, CtlInv

\* Starting, continuing and stepping keep the invariant.
LEMMA EnterInv == ASSUME Inv, Start \/ MachineRun \/ DoContinue \/ DoStep \/ EnableHandler PROVE Inv'
<1> USE DEF Inv, CtlInv, CtlTypeOK, StatusInv, StepInv, ResumeInv, HandlerInv, ReadInv, DebugInv,
        ExecutesTheProgram, EndRestoresProgram, Statuses, Phases, MidInsn, ReadPhases,
        Goto, sigVars, cpuVars, bpVars, EnterContinue, Meant, breakpointExists, Bp, IsBreak
<1>1. CASE Start
  BY <1>1, BpUnchanged DEF Start
<1>2. CASE MachineRun
  BY <1>2, BpUnchanged DEF MachineRun
<1>3. CASE DoContinue
  BY <1>3, BpUnchanged DEF DoContinue
<1>4. CASE DoStep
  BY <1>4, BpUnchanged DEF DoStep
<1>5. CASE EnableHandler
  BY <1>5, BpUnchanged DEF EnableHandler
<1> QED BY <1>1, <1>2, <1>3, <1>4, <1>5

\* Fetching keeps the invariant: what goes on to be executed is the program's.
LEMMA FetchInv == ASSUME Inv, Fetch PROVE Inv'
<1> USE DEF Inv, CtlInv, CtlTypeOK, StatusInv, StepInv, ResumeInv, HandlerInv, ReadInv, DebugInv,
        ExecutesTheProgram, EndRestoresProgram, Statuses, Phases, MidInsn, ReadPhases,
        Goto, sigVars, cpuVars, bpVars, Meant, breakpointExists, Bp, IsBreak
<1>1. CASE FetchOutside
  BY <1>1, BpUnchanged DEF FetchOutside
<1>2. CASE FetchBreak
  <2>1. BpInv'
    BY <1>2, BpUnchanged DEF FetchBreak
  <2>2. ir' \in Insn \cup BreakInsn
    <3>1. BpInv /\ pc \in Addr /\ IsBreak(Fetched)
      BY <1>2 DEF FetchBreak
    <3>2. ir' = IF breakpointExists(Fetched.imm) THEN Bp(Fetched.imm).orig ELSE Fetched
      BY <1>2, Zenon DEF FetchBreak
    <3> HIDE DEF Inv, breakpointExists, Bp, IsBreak
    <3> QED BY <3>1, <3>2, FetchedIsProgram, FetchedType
  <2>3. CtlInv'
    BY <1>2, <2>2 DEF FetchBreak
  <2>4. DebugInv' /\ ExecutesTheProgram' /\ EndRestoresProgram'
    BY <1>2 DEF FetchBreak
  <2> QED BY <2>1, <2>3, <2>4
<1>3. CASE FetchInsn
  <2>1. Fetched = Meant(pc) /\ Fetched \in Insn \cup BreakInsn
    BY <1>3, FetchedIsProgram DEF FetchInsn
  <2>2. /\ ir' = Meant(pc) /\ ir' \in Insn \cup BreakInsn /\ ~IsBreak(ir')
        /\ pc' - 1 = pc /\ pc \in Addr /\ pc' \in Int
    BY <1>3, <2>1 DEF FetchInsn
  <2>3. resuming' \in BOOLEAN
    BY <1>3 DEF FetchInsn, Resumes
  <2>4. BpInv'
    BY <1>3, BpUnchanged DEF FetchInsn
  <2>5. CtlInv'
    BY <1>3, <2>2, <2>3 DEF FetchInsn
  <2>6. DebugInv' /\ ExecutesTheProgram' /\ EndRestoresProgram'
    BY <1>3, <2>2 DEF FetchInsn
  <2> QED BY <2>4, <2>5, <2>6
<1> QED BY <1>1, <1>2, <1>3 DEF Fetch

\* Executing an instruction, and the steps of READ, keep the invariant.
LEMMA ExecuteInv == ASSUME Inv, Execute PROVE Inv'
<1> USE DEF Inv, CtlInv, CtlTypeOK, StatusInv, StepInv, ResumeInv, HandlerInv, ReadInv, DebugInv,
        ExecutesTheProgram, EndRestoresProgram, Statuses, Phases, MidInsn, ReadPhases,
        Goto, sigVars, cpuVars, bpVars, Meant, breakpointExists, Bp, IsBreak
<1>1. CASE ExecSequential
  BY <1>1, BpUnchanged DEF ExecSequential, Completed
<1>2. CASE ExecJump
  <2>1. ir.imm \in Int
    BY DEF Insn, BreakInsn
  <2>2. pc' \in Int
    BY <1>2, <2>1, ReturnAssumption DEF ExecJump
  <2>3. BpInv'
    BY <1>2, BpUnchanged DEF ExecJump, Completed
  <2>4. CtlInv'
    BY <1>2, <2>2 DEF ExecJump, Completed
  <2>5. DebugInv' /\ ExecutesTheProgram' /\ EndRestoresProgram'
    BY <1>2 DEF ExecJump, Completed
  <2> QED BY <2>3, <2>4, <2>5
<1>3. CASE ExecHalt
  BY <1>3, BpUnchanged, ZeroType DEF ExecHalt, Completed
<1>4. CASE ExecFails
  <2>1. PoppedBack \subseteq Int
    BY ReturnAssumption DEF PoppedBack
  <2>2. pc' \in Int
    <3>1. pc' = pc - 1 \/ pc' \in PoppedBack
      BY <1>4, Zenon DEF ExecFails
    <3>2. pc - 1 \in Int
      OBVIOUS
    <3> QED BY <2>1, <3>1, <3>2, Zenon
  <2> QED BY <1>4, <2>2, BpUnchanged DEF ExecFails
<1>5. CASE ExecRead
  BY <1>5, BpUnchanged DEF ExecRead, Reading
<1>6. CASE NeedsInput
  BY <1>6, BpUnchanged DEF NeedsInput, Reading
<1>7. CASE CallsRead
  BY <1>7, BpUnchanged DEF CallsRead, Reading
<1>8. CASE Blocks
  BY <1>8, BpUnchanged DEF Blocks, Reading
<1>9. CASE Resumed
  BY <1>9, BpUnchanged DEF Resumed, Reading
<1>10. CASE ReadCompletes
  BY <1>10, BpUnchanged DEF ReadCompletes, Completed
<1>11. CASE ReadAborts
  BY <1>11, BpUnchanged DEF ReadAborts
<1>12. CASE ReadFails
  BY <1>12, BpUnchanged DEF ReadFails
<1> QED BY <1>1, <1>2, <1>3, <1>4, <1>5, <1>6, <1>7, <1>8, <1>9, <1>10, <1>11, <1>12 DEF Execute

\* The end of an iteration and of a run keeps the invariant.
LEMMA ReturnInv == ASSUME Inv, Return PROVE Inv'
<1> USE DEF Inv, CtlInv, CtlTypeOK, StatusInv, StepInv, ResumeInv, HandlerInv, ReadInv, DebugInv,
        ExecutesTheProgram, EndRestoresProgram, Statuses, Phases, MidInsn, ReadPhases,
        Goto, sigVars, cpuVars, bpVars, Meant, breakpointExists, Bp, IsBreak
<1>1. CASE Check
  <2>1. CASE interrupted
    BY <1>1, <2>1, BpUnchanged DEF Check
  <2>2. CASE ~interrupted
    BY <1>1, <2>2, BpUnchanged DEF Check
  <2> QED BY <2>1, <2>2
<1>2. CASE Exit
  BY <1>2, BpUnchanged DEF Exit
<1>3. CASE RestoreHandler
  BY <1>3, BpUnchanged DEF RestoreHandler
<1>4. CASE ReturnRun
  <2>1. BpInv'
    BY <1>4, BpUnchanged DEF ReturnRun
  <2>2. CtlInv'
    BY <1>4 DEF ReturnRun
  <2>3. DebugInv' /\ ExecutesTheProgram' /\ EndRestoresProgram'
    BY <1>4 DEF ReturnRun
  <2> QED BY <2>1, <2>2, <2>3
<1>5. CASE ReturnContinue
  BY <1>5, BpUnchanged DEF ReturnContinue, Messages
<1>6. CASE ReturnStep
  <2>1. BpInv'
    BY <1>6, BpUnchanged DEF ReturnStep
  <2>2. resuming' \in BOOLEAN /\ ir' \in Insn \cup BreakInsn
    BY <1>6, FetchedIsProgram DEF ReturnStep, Resumes
  <2>3. CtlInv'
    BY <1>6, <2>2 DEF ReturnStep
  <2>4. DebugInv' /\ ExecutesTheProgram' /\ EndRestoresProgram'
    BY <1>6 DEF ReturnStep
  <2> QED BY <2>1, <2>3, <2>4
<1>7. CASE PromptAgain
  BY <1>7, BpUnchanged DEF PromptAgain
<1>8. CASE Finish
  BY <1>8, BpUnchanged, ClearInv DEF Finish
<1> QED BY <1>1, <1>2, <1>3, <1>4, <1>5, <1>6, <1>7, <1>8 DEF Return

\* The breakpoint commands, leaving, the user's input and Ctrl+C keep the invariant.
LEMMA OtherInv == ASSUME Inv, DoBreakpoint \/ Quit \/ ReadReturns \/ Signal PROVE Inv'
<1> USE DEF Inv, CtlInv, CtlTypeOK, StatusInv, StepInv, ResumeInv, HandlerInv, ReadInv, DebugInv,
        ExecutesTheProgram, EndRestoresProgram, Statuses, Phases, MidInsn, ReadPhases,
        Goto, sigVars, cpuVars, bpVars, Meant, breakpointExists, Bp, IsBreak
<1>1. CASE DoBreakpoint
  BY <1>1, BpUnchanged, BpNextInv DEF DoBreakpoint
<1>2. CASE Quit
  BY <1>2, BpUnchanged, ClearInv DEF Quit
<1>3. CASE ReadReturns
  BY <1>3, BpUnchanged DEF ReadReturns, Reading
<1>4. CASE Signal
  BY <1>4, BpUnchanged DEF Signal, Alive
<1> QED BY <1>1, <1>2, <1>3, <1>4

\* Inv is inductive.
LEMMA NextInv == Inv /\ [Next]_vars => Inv'
<1> SUFFICES ASSUME Inv, [Next]_vars PROVE Inv'
  OBVIOUS
<1>1. CASE Thread
  BY <1>1, EnterInv, FetchInv, ExecuteInv, ReturnInv DEF Thread
<1>2. CASE Command
  BY <1>2, EnterInv, OtherInv DEF Command
<1>3. CASE ReadReturns \/ Signal
  BY <1>3, OtherInv
<1>4. CASE UNCHANGED vars
  <2>1. BpInv'
    BY <1>4, BpUnchanged DEF vars, Inv
  <2>2. CtlInv'
    BY <1>4 DEF vars, cpuVars, sigVars, bpVars, Inv, CtlInv, CtlTypeOK, StatusInv,
                StepInv, ResumeInv, HandlerInv, ReadInv
  <2>3. DebugInv' /\ ExecutesTheProgram' /\ EndRestoresProgram'
    BY <1>4 DEF vars, cpuVars, sigVars, bpVars, Inv, DebugInv, ExecutesTheProgram,
                EndRestoresProgram, Meant, breakpointExists, Bp, IsBreak
  <2> QED BY <2>1, <2>2, <2>3 DEF Inv
<1> QED BY <1>1, <1>2, <1>3, <1>4 DEF Next, Terminated

LEMMA Invariance == Spec => []Inv
  BY InitInv, NextInv, PTL DEF Spec

-----------------------------------------------------------------------------
\* Every variable keeps its type.
THEOREM TypeOKCorrect == Spec => []TypeOK
<1>1. Inv => TypeOK
  BY DEF Inv, BpInv, CtlInv, CtlTypeOK, TypeOK
<1> QED BY Invariance, <1>1, PTL

\* In a session, with the program running between the commands, the table keeps what it
\* keeps alone: what is planted and what was saved agree, and clearing restores the program.
THEOREM TableCorrect == Spec => [](OrigsAreProgram /\ BreaksResolve /\ Restorable)
<1>1. Inv => OrigsAreProgram /\ BreaksResolve /\ Restorable
  BY ClearRestores DEF Inv, BpInv
<1> QED BY Invariance, <1>1, PTL

\* Under any breakpoints, pauses and interrupts the instruction that is executed is the
\* one the program means, which is its own where it has no BREAK of its own, and no BREAK.
THEOREM ExecutesTheProgramCorrect == Spec => []ExecutesTheProgram
<1>1. Inv => ExecutesTheProgram
  BY DEF Inv
<1> QED BY Invariance, <1>1, PTL

\* When the session ends the code is the program that was loaded.
THEOREM EndRestoresProgramCorrect == Spec => []EndRestoresProgram
<1>1. Inv => EndRestoresProgram
  BY DEF Inv
<1> QED BY Invariance, <1>1, PTL

\* A step runs at most one instruction.
THEOREM StepRunsOneCorrect == Spec => []StepRunsOne
<1>1. Inv => StepRunsOne
  BY DEF Inv, CtlInv, StepInv, StepRunsOne
<1> QED BY Invariance, <1>1, PTL

\* At the prompt SIGINT has the disposition it had.
THEOREM PromptRestoresSignalCorrect == Spec => []PromptRestoresSignal
<1>1. Inv => PromptRestoresSignal
  BY DEF Inv, CtlInv, HandlerInv, PromptRestoresSignal
<1> QED BY Invariance, <1>1, PTL

\* The command loop sees only the statuses it has a case for.
THEOREM ReportsKnownStatusCorrect == Spec => []ReportsKnownStatus
<1>1. Inv => ReportsKnownStatus
  BY DEF Inv, CtlInv, StatusInv, ReportsKnownStatus
<1> QED BY Invariance, <1>1, PTL

-----------------------------------------------------------------------------
\* A continue or a step from a breakpoint gets past it: the first fetch stops only with an
\* error, outside the program or at a BREAK of its own that has the number of no breakpoint.
THEOREM ResumesPastBreakpointCorrect == Spec => ResumesPastBreakpoint
<1> DEFINE Unknown == IsBreak(Program[pc]) /\ ~breakpointExists(Program[pc].imm)
           P == (phase = "fetch" /\ phase' = "exit" /\ ran = 0) =>
                    status' = "error" /\ (pc \in Addr => Unknown)
<1>1. Inv /\ [Next]_vars => [P]_vars
  <2> SUFFICES ASSUME Inv, Next, phase = "fetch", phase' = "exit", ran = 0
               PROVE  status' = "error" /\ (pc \in Addr => Unknown)
    BY DEF Terminated
  <2>1. resuming
    BY DEF Inv, CtlInv, ResumeInv
  <2>2. CASE FetchBreak
    <3>1. pc \in Addr /\ IsBreak(Fetched)
      BY <2>2 DEF FetchBreak
    <3>2. Fetched = Program[pc] /\ Unknown
      BY <2>1, <3>1, FetchedIsProgram DEF Inv
    <3> QED BY <2>2, <3>2 DEF FetchBreak
  <2>3. CASE FetchOutside
    BY <2>3 DEF FetchOutside
  <2>9. ~FetchInsn
    BY DEF FetchInsn, Goto
  <2>4. ~Execute
    BY DEF Execute, ExecSequential, ExecJump, ExecHalt, ExecFails, ExecRead, NeedsInput,
           CallsRead, Blocks, Resumed, ReadCompletes, ReadFails, ReadAborts, Reading
  <2>5. ~Return
    BY DEF Return, Check, Exit, RestoreHandler, ReturnRun, ReturnContinue, ReturnStep,
           PromptAgain, Finish
  <2>6. ~(Start \/ MachineRun \/ EnableHandler)
    BY DEF Start, MachineRun, EnableHandler
  <2>7. ~Command
    BY DEF Command, DoContinue, DoStep, DoBreakpoint, Quit
  <2>8. ~(ReadReturns \/ Signal \/ Terminated)
    BY DEF ReadReturns, Reading, Signal, Goto, Terminated, Alive
  <2> QED BY <2>2, <2>3, <2>4, <2>5, <2>6, <2>7, <2>8, <2>9 DEF Next, Thread, Fetch
<1> QED BY Invariance, <1>1, PTL DEF Spec, ResumesPastBreakpoint

-----------------------------------------------------------------------------
(* The refinement of ControlFlow.                                          *)

\* The abstract program counter: that of the instruction not yet completed.
AbstractPc == IF phase \in MidInsn THEN pc - 1 ELSE pc

\* Leaving an instruction is a step of ControlFlow if it moved pc as its kind does.
LEMMA CompletesStep ==
    ASSUME Inv, phase \in MidInsn, phase' \notin MidInsn, CF!Moves(ir, pc - 1, pc')
    PROVE  CF!Step
<1> DEFINE a == pc - 1
<1>1. a \in Addr /\ ir = Meant(a) /\ ~IsBreak(ir)
  BY DEF Inv, ExecutesTheProgram
<1>2. DOMAIN Program = Addr
  BY CodeAssumption
<1>3. ir \in CF!StandsFor(a)
  <2>1. CASE IsBreak(Program[a])
    <3>1. breakpointExists(Program[a].imm) /\ ir = Program[Bp(Program[a].imm).addr]
      BY <1>1, <2>1 DEF Meant
    <3>2. Program[a].imm \in Int
      BY <1>1, ProgramInsn DEF Insn, BreakInsn
    <3>3. Bp(Program[a].imm).addr \in Addr
      BY <3>1, <3>2, SavedIsProgram DEF Inv
    <3> QED BY <1>2, <2>1, <3>1, <3>3 DEF CF!StandsFor, IsBreak
  <2>2. CASE ~IsBreak(Program[a])
    BY <1>1, <2>2 DEF Meant, CF!StandsFor, IsBreak
  <2> QED BY <2>1, <2>2
<1>4. a = IF phase \in MidInsn THEN pc - 1 ELSE pc
  OBVIOUS
<1> HIDE DEF a
<1> QED BY <1>1, <1>2, <1>3, <1>4 DEF CF!Step

\* Executing is a step of ControlFlow when the instruction completes, and no step
\* when it fails, waits or is undone.
LEMMA ExecuteRefines == ASSUME Inv, Execute PROVE CF!Step \/ UNCHANGED AbstractPc
<1> USE DEF Goto, MidInsn, ReadPhases
<1>0. pc \in Int /\ pc - 1 + 1 = pc
  BY DEF Inv, CtlInv, CtlTypeOK
<1>1. CASE ExecSequential \/ ExecJump \/ ExecHalt
  <2>1. CF!Moves(ir, pc - 1, pc')
    BY <1>0, <1>1 DEF ExecSequential, ExecJump, ExecHalt, CF!Moves
  <2>2. phase \in MidInsn /\ phase' \notin MidInsn
    BY <1>1 DEF ExecSequential, ExecJump, ExecHalt, Completed
  <2> QED BY <2>1, <2>2, CompletesStep
<1>2. CASE ReadCompletes
  <2>1. ir.op = "read"
    BY <1>2 DEF ReadCompletes, Inv, CtlInv, ReadInv
  <2>2. CF!Moves(ir, pc - 1, pc')
    BY <1>0, <1>2, <2>1 DEF ReadCompletes, CF!Moves
  <2> QED BY <1>2, <2>2, CompletesStep DEF ReadCompletes, Completed
<1>3. CASE ExecFails
  <2>1. CASE pc' = pc - 1
    BY <1>0, <1>3, <2>1 DEF ExecFails, AbstractPc
  <2>2. CASE ir.op = "ret" /\ pc' \in PoppedBack
    <3>1. CF!Moves(ir, pc - 1, pc')
      BY <2>2 DEF CF!Moves
    <3> QED BY <1>3, <3>1, CompletesStep DEF ExecFails
  <2> QED BY <1>3, <2>1, <2>2 DEF ExecFails
<1>4. CASE ExecRead \/ NeedsInput \/ CallsRead \/ Blocks \/ Resumed
  BY <1>4 DEF ExecRead, NeedsInput, CallsRead, Blocks, Resumed, Reading, cpuVars, AbstractPc
<1>5. CASE ReadAborts
  BY <1>0, <1>5 DEF ReadAborts, AbstractPc
<1>6. CASE ReadFails
  BY <1>0, <1>6 DEF ReadFails, AbstractPc
<1> QED BY <1>1, <1>2, <1>3, <1>4, <1>5, <1>6 DEF Execute

\* A debugged run is a run of the program: Debugger implements ControlFlow.
THEOREM RunsTheProgramCorrect == Spec => RunsTheProgram
<1> USE DEF Goto, MidInsn, ReadPhases
<1>1. Init => CF!Init
  BY DEF Init, CF!Init
<1>2. Inv /\ [Next]_vars => [CF!Step]_<<Program, AbstractPc>>
  <2> SUFFICES ASSUME Inv, [Next]_vars PROVE CF!Step \/ UNCHANGED AbstractPc
    OBVIOUS
  <2>0. pc \in Int
    BY DEF Inv, CtlInv, CtlTypeOK
  <2>1. CASE Execute
    BY <2>1, ExecuteRefines
  <2>2. CASE Fetch
    BY <2>0, <2>2 DEF Fetch, FetchOutside, FetchBreak, FetchInsn, AbstractPc
  <2>3. CASE Return
    BY <2>3 DEF Return, Check, Exit, RestoreHandler, ReturnRun, ReturnContinue, ReturnStep,
           PromptAgain, Finish, cpuVars, AbstractPc
  <2>4. CASE Start \/ MachineRun \/ EnableHandler
    BY <2>4 DEF Start, MachineRun, EnableHandler, EnterContinue, cpuVars, AbstractPc
  <2>5. CASE Command
    BY <2>5 DEF Command, DoContinue, DoStep, DoBreakpoint, Quit, EnterContinue, cpuVars,
                AbstractPc
  <2>6. CASE ReadReturns \/ Signal
    BY <2>6 DEF ReadReturns, Reading, Signal, cpuVars, AbstractPc
  <2>7. CASE UNCHANGED vars
    BY <2>7 DEF vars, cpuVars, AbstractPc
  <2> QED BY <2>1, <2>2, <2>3, <2>4, <2>5, <2>6, <2>7 DEF Next, Thread, Terminated
<1> QED BY Invariance, <1>1, <1>2, PTL DEF Spec, RunsTheProgram, CF!Spec, AbstractPc

=============================================================================
