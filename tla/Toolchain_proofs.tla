-------------------------- MODULE Toolchain_proofs --------------------------
(***************************************************************************)
(* For any sources, refused or failing in any way, and any options: what   *)
(* runs was compiled, and what an invocation leaves.                       *)
(***************************************************************************)
EXTENDS Toolchain, FiniteSetTheorems, SequenceTheorems, TLAPS

\* What each stage may assume of the options and of mcode.txt; the parts that a killed
\* invocation left are of sources that were accepted too.
Compiles == "r" \notin options
CodeInv == mcode.of \in Accepted \cup {None}
Ready == Compiles => mcode = Whole(input)
StageInv ==
    /\ stage \in {"idle", "refuse", "lex", "fail", "compile", "emit", "symbols", "succeed",
                  "openVM", "load", "run", "closeVM"}
    /\ stage \in {"lex", "compile", "emit", "symbols", "fail", "succeed"} => Compiles
    /\ stage = "compile" => input \notin BadToken
    /\ stage = "fail" => input \in BadToken \/ (mcode = Empty /\ input \notin Accepted)
    /\ stage = "emit" => input \in Accepted
    /\ stage \in {"symbols", "succeed"} => mcode = Whole(input)
    /\ stage \in {"openVM", "load", "run", "closeVM"} => Ready
    /\ stage \in {"symbols", "succeed", "openVM", "load", "run", "closeVM"} => (Compiles => input \in Accepted)
    /\ stage = "refuse" => "r" \in options
    /\ stage \in {"load", "run", "closeVM"} => mcode # Absent
ProgramInv == stage \in {"run", "closeVM"} => program = Fitting(mcode)

Inv == TypeOK /\ CodeInv /\ StageInv /\ ProgramInv

-----------------------------------------------------------------------------
\* What is loaded is of the source whose code mcode.txt has, and is code.
LEMMA FittingIsContent ==
    ASSUME NEW c \in Content
    PROVE  Fitting(c) \in Content /\ Fitting(c).of = c.of
  BY LongAssumption DEF Fitting, Content, Empty, First, Whole

\* The kinds of content differ, and Empty is no source's.
LEMMA Kinds ==
    /\ Absent \notin Content
    /\ Empty \in Content
    /\ \A s \in Sources : /\ First(s) \in Content /\ Whole(s) \in Content
                          /\ First(s).of = s /\ Whole(s).of = s
    /\ Empty.of = None /\ Absent.of = None
  BY DEF Absent, Content, Empty, First, Whole

LEMMA InitInv == Init => Inv
  BY Kinds DEF Init, Inv, TypeOK, CodeInv, StageInv, ProgramInv

\* Between invocations, and what ends one early.
LEMMA OutsideInv ==
    ASSUME Inv, Edit \/ Invoke \/ Refuse \/ Kill
    PROVE  Inv'
  <1>1. CASE Edit
    BY <1>1 DEF Inv, Edit, ioVars, TypeOK, CodeInv, StageInv, ProgramInv, Accepted
  <1>2. CASE Invoke
    BY <1>2, Kinds, OptionsAssumption
       DEF Inv, Invoke, TypeOK, CodeInv, StageInv, ProgramInv, Accepted, Ready, Compiles
  <1>3. CASE Refuse
    BY <1>3 DEF Inv, Refuse, Return, TypeOK, CodeInv, StageInv, ProgramInv, Accepted
  <1>4. CASE Kill
    <2>1. mcode' \in {mcode, Empty} \/ (input \in Accepted /\ mcode' = First(input))
      BY <1>4 DEF Inv, Kill, Parts, StageInv
    <2>2. TypeOK' /\ CodeInv'
      BY <1>4, <2>1, Kinds DEF Inv, Kill, TypeOK, CodeInv, Accepted
    <2> QED  BY <1>4, <2>2 DEF Inv, Kill, StageInv, ProgramInv
  <1> QED  BY <1>1, <1>2, <1>3, <1>4

\* The lexer and the compiler.
LEMMA CompilingInv ==
    ASSUME Inv, Lex \/ Fail \/ Compile \/ Emit \/ WriteSymbolTable \/ Succeed
    PROVE  Inv'
  <1>1. CASE Lex
    BY <1>1 DEF Inv, Lex, TypeOK, CodeInv, StageInv, ProgramInv, Accepted, Compiles
  <1>2. CASE Fail
    BY <1>2 DEF Inv, Fail, Return, TypeOK, CodeInv, StageInv, ProgramInv, Accepted
  <1>3. CASE Compile
    BY <1>3, Kinds DEF Inv, Compile, Crash, Stage, ioVars, TypeOK, CodeInv, StageInv, ProgramInv, Accepted, Compiles
  <1>4. CASE Emit
    BY <1>4, Kinds DEF Inv, Emit, Stage, TypeOK, CodeInv, StageInv, ProgramInv, Accepted, Compiles
  <1>5. CASE WriteSymbolTable
    BY <1>5 DEF Inv, WriteSymbolTable, Stage, TypeOK, CodeInv, StageInv, ProgramInv, Accepted, Compiles, Ready
  <1>6. CASE Succeed
    BY <1>6 DEF Inv, Succeed, Return, TypeOK, CodeInv, StageInv, ProgramInv, Accepted
  <1> QED  BY <1>1, <1>2, <1>3, <1>4, <1>5, <1>6

\* The machine.
LEMMA RunningInv ==
    ASSUME Inv, OpenVM \/ Load \/ Run \/ CloseVM
    PROVE  Inv'
  <1>1. CASE OpenVM
    BY <1>1 DEF Inv, OpenVM, Crash, Stage, ioVars, TypeOK, CodeInv, StageInv, ProgramInv, Accepted, Compiles, Ready
  <1>2. CASE Load
    <2>1. program' = Fitting(mcode) /\ program' \in Content
      BY <1>2, FittingIsContent DEF Inv, Load, Stage, StageInv, TypeOK
    <2> QED
      BY <1>2, <2>1 DEF Inv, Load, Stage, TypeOK, CodeInv, StageInv, ProgramInv, Accepted, Compiles, Ready, Fitting
  <1>3. CASE Run
    <2>1. halted' \in BOOLEAN
      BY <1>3 DEF Inv, Run, Crash, Halts, TypeOK
    <2> QED
      BY <1>3, <2>1 DEF Inv, Run, Crash, Stage, TypeOK, CodeInv, StageInv, ProgramInv, Accepted, Compiles, Ready, Fitting
  <1>4. CASE CloseVM
    BY <1>4 DEF Inv, CloseVM, Crash, Return, TypeOK, CodeInv, StageInv, ProgramInv, Accepted
  <1> QED  BY <1>1, <1>2, <1>3, <1>4

\* The inductive invariant holds always.
THEOREM Invariance == Spec => []Inv
  <1>1. Inv /\ [Next]_vars => Inv'
    <2> SUFFICES ASSUME Inv, [Next]_vars PROVE Inv'
      OBVIOUS
    <2>1. CASE UNCHANGED vars
      BY <2>1 DEF Inv, vars, ioVars, TypeOK, CodeInv, StageInv, ProgramInv, Accepted, Compiles, Ready, Fitting
    <2>2. CASE Next
      BY <2>2, OutsideInv, CompilingInv, RunningInv DEF Next
    <2> QED  BY <2>1, <2>2
  <1> QED  BY InitInv, <1>1, PTL DEF Spec

\* Every variable keeps its type.
THEOREM TypeCorrect == Spec => []TypeOK
  BY Invariance, PTL DEF Inv

\* The machine runs no code of a source that was refused, and after a compilation that
\* of the source in input.txt.
THEOREM RunsWhatWasCompiledCorrect == Spec => []RunsWhatWasCompiled
  <1>1. Inv => RunsWhatWasCompiled
    BY FittingIsContent DEF Inv, TypeOK, CodeInv, StageInv, ProgramInv, Ready, Compiles, RunsWhatWasCompiled
  <1> QED  BY <1>1, Invariance, PTL

\* An invocation leaves in mcode.txt the program of its source, or nothing.
THEOREM LeavesItsProgramCorrect == Spec => LeavesItsProgram
  <1> DEFINE Leaves == (stage # "idle" /\ stage' = "idle" /\ exit' # "killed" /\ "r" \notin options
                        /\ input \notin BadToken)
                          => mcode' = IF input \in Accepted THEN Whole(input) ELSE Empty
  <1>1. Inv /\ [Next]_vars => [Leaves]_vars
    <2> SUFFICES ASSUME Inv, Next, stage # "idle", stage' = "idle", exit' # "killed",
                        "r" \notin options, input \notin BadToken
                 PROVE  mcode' = IF input \in Accepted THEN Whole(input) ELSE Empty
      OBVIOUS
    <2>1. CASE Edit \/ Invoke \/ Refuse \/ Kill
      BY <2>1 DEF Edit, Invoke, Refuse, Kill, Inv, StageInv
    <2>2. CASE Fail \/ Succeed
      BY <2>2 DEF Fail, Succeed, Inv, StageInv, Compiles
    <2>3. CASE Compile
      BY <2>3 DEF Compile, Stage, Accepted
    <2>4. CASE Lex \/ Emit \/ WriteSymbolTable \/ Load
      BY <2>4 DEF Lex, Emit, WriteSymbolTable, Load, Stage
    <2>5. CASE OpenVM \/ Run \/ CloseVM
      BY <2>5, Kinds DEF OpenVM, Run, CloseVM, Stage, Inv, StageInv, Ready, Compiles, TypeOK
    <2> QED  BY <2>1, <2>2, <2>3, <2>4, <2>5 DEF Next
  <1> QED  BY <1>1, Invariance, PTL DEF Spec, LeavesItsProgram

-----------------------------------------------------------------------------
(* What an invocation shows.                                               *)

\* The listings that are due once an invocation has come to where it is; the result of
\* the program comes with its trace.
Listings == {"tokenlist", "mcode", "symboltable", "acode", "stacktrace"}
Files == Listings \cup {"result"}
Due(F) == {f \in F : Letter(f) \in options}
ByTheCompiler == Due(CASE stage \in {"compile", "fail", "emit"} -> {"tokenlist"}
                       [] stage = "symbols" -> {"tokenlist", "mcode"}
                       [] stage \in {"succeed", "openVM", "load", "run", "closeVM"}
                            -> {"tokenlist", "mcode", "symboltable"}
                       [] OTHER -> {})
ByTheMachine == CASE stage = "run" -> Due({"acode"})
                  [] stage = "closeVM" -> Due({"acode", "stacktrace"}) \cup {"result"}
                  [] OTHER -> {}
Shown == (IF Compiles THEN ByTheCompiler ELSE {}) \cup ByTheMachine

\* A sequence that has each member of A once and nothing else.
Lists(s, A) == /\ s \in Seq(Files) /\ ToSet(s) = A
               /\ IsFiniteSet(A) /\ Len(s) = Cardinality(A)

\* Each stage finds on standard output, or kept back by printf, what is due; whether the
\* compiler alone was asked for decides which stage is the last.
ShownInv ==
    /\ stage # "idle" => exit = "none" /\ Lists(screen \o buffer, Shown)
    /\ stage # "closeVM" => buffer = << >>
    /\ buffer \in Seq(Files) /\ screen \in Seq(Files)
    /\ stage \in {"openVM", "load", "run", "closeVM"} => "c" \notin options
    /\ stage = "succeed" => "c" \in options

-----------------------------------------------------------------------------
LEMMA ListsNothing == Lists(<< >>, {})
  BY FS_EmptySet DEF Lists, ToSet

\* One more listing.
LEMMA ListsOneMore ==
    ASSUME NEW s, NEW A \in SUBSET Files, Lists(s, A), NEW f \in Files \ A
    PROVE  Lists(Append(s, f), A \cup {f})
  <1>1. Append(s, f) \in Seq(Files) /\ Len(Append(s, f)) = Len(s) + 1
    BY AppendProperties DEF Lists
  <1>2. \A i \in 1 .. Len(s) + 1 : Append(s, f)[i] = IF i = Len(s) + 1 THEN f ELSE s[i]
    BY DEF Lists
  <1>3. DOMAIN Append(s, f) = 1 .. Len(s) + 1 /\ DOMAIN s = 1 .. Len(s) /\ Len(s) \in Nat
    BY <1>1, LenProperties DEF Lists
  <1>4. ToSet(Append(s, f)) = ToSet(s) \cup {f}
    BY <1>2, <1>3 DEF ToSet
  <1>5. IsFiniteSet(A \cup {f}) /\ Cardinality(A \cup {f}) = Cardinality(A) + 1
    BY FS_AddElement DEF Lists
  <1> QED  BY <1>1, <1>4, <1>5 DEF Lists

\* A file that is flushed is shown if its option asks for that.
LEMMA FlushedLists ==
    ASSUME NEW A \in SUBSET Files, Lists(screen, A), NEW f \in Listings \ A, Flushed(f)
    PROVE  Lists(screen', A \cup Due({f}))
  BY ListsOneMore DEF Flushed, Due, Files

\* What is due is files, and nothing but the listings of the stages there have been.
LEMMA ShownAreFiles == Shown \in SUBSET Files
  BY DEF Shown, ByTheCompiler, ByTheMachine, Due, Files, Listings

\* Without a result kept back, the screen is all there is.
LEMMA NothingKept == ASSUME NEW s \in Seq(Files) PROVE s \o << >> = s /\ Len(<< >>) = 0 /\ << >> \in Seq(Files)
  BY ConcatEmptySeq, EmptySeq

LEMMA InitShown == Init => ShownInv
  BY EmptySeq DEF Init, ShownInv

\* Between invocations, and what ends one early.
LEMMA OutsideShown ==
    ASSUME Inv, ShownInv, Edit \/ Invoke \/ Refuse \/ Kill
    PROVE  ShownInv'
  <1>1. CASE Edit
    BY <1>1 DEF Edit, ioVars, ShownInv
  <1>2. CASE Invoke
    <2>1. Shown' = {}
      BY <1>2 DEF Invoke, Shown, ByTheCompiler, ByTheMachine, Due, Compiles
    <2> QED  BY <1>2, <2>1, ListsNothing, NothingKept DEF Invoke, ShownInv
  <1>3. CASE Refuse
    BY <1>3, NothingKept DEF Refuse, Return, ShownInv
  <1>4. CASE Kill
    BY <1>4, NothingKept DEF Kill, ShownInv
  <1> QED  BY <1>1, <1>2, <1>3, <1>4

\* A crash shows nothing more.
LEMMA CrashShown == ASSUME ShownInv, Crash PROVE ShownInv'
  BY NothingKept DEF Crash, ShownInv

\* The lexer and the compiler.
LEMMA CompilingShown ==
    ASSUME Inv, ShownInv, Lex \/ Fail \/ Compile \/ Emit \/ WriteSymbolTable \/ Succeed
    PROVE  ShownInv'
  <1>0. screen \in Seq(Files) /\ (stage \notin {"idle", "closeVM"} => Lists(screen, Shown))
    BY NothingKept DEF ShownInv
  <1>1. CASE Lex
    <2>1. Shown = {} /\ Shown' = Due({"tokenlist"})
      BY <1>1 DEF Lex, Inv, StageInv, Shown, ByTheCompiler, ByTheMachine, Due, Compiles
    <2>2. Lists(screen', Shown')
      BY <1>0, <1>1, <2>1, FlushedLists DEF Lex, Listings
    <2> QED  BY <1>1, <2>2, NothingKept DEF Lex, ShownInv, Lists
  <1>2. CASE Fail \/ Succeed
    BY <1>2, NothingKept DEF Fail, Succeed, Return, ShownInv
  <1>3. CASE Compile
    <2>1. CASE Crash
      BY <2>1, CrashShown
    <2>2. CASE Stage("compile", IF input \in BadSyntax \cup BadNames THEN "fail" ELSE "emit") /\ UNCHANGED ioVars
      <3>1. Shown' = Shown
        BY <2>2 DEF Stage, Shown, ByTheCompiler, ByTheMachine, Due, Compiles
      <3> QED  BY <2>2, <3>1 DEF Stage, ioVars, ShownInv
    <2> QED  BY <1>3, <2>1, <2>2 DEF Compile
  <1>4. CASE Emit
    <2>1. Shown = Due({"tokenlist"}) /\ Shown' = Due({"tokenlist", "mcode"})
      BY <1>4 DEF Emit, Stage, Inv, StageInv, Shown, ByTheCompiler, ByTheMachine, Due, Compiles
    <2>2. Shown' = Shown \cup Due({"mcode"}) /\ "mcode" \in Listings \ Shown
      BY <2>1 DEF Due, Listings, Emit, Stage
    <2>3. Lists(screen', Shown')
      BY <1>0, <1>4, <2>2, FlushedLists, ShownAreFiles DEF Emit, Stage
    <2> QED  BY <1>4, <2>3, NothingKept DEF Emit, Stage, ShownInv, Lists
  <1>5. CASE WriteSymbolTable
    <2>1. Shown = Due({"tokenlist", "mcode"}) /\ Shown' = Due({"tokenlist", "mcode", "symboltable"})
      BY <1>5 DEF WriteSymbolTable, Stage, Inv, StageInv, Shown, ByTheCompiler, ByTheMachine, Due, Compiles
    <2>2. Shown' = Shown \cup Due({"symboltable"}) /\ "symboltable" \in Listings \ Shown
      BY <2>1 DEF Due, Listings
    <2>3. Lists(screen', Shown')
      BY <1>0, <1>5, <2>2, FlushedLists, ShownAreFiles DEF WriteSymbolTable, Stage
    <2> QED  BY <1>5, <2>3, NothingKept DEF WriteSymbolTable, Stage, ShownInv, Lists
  <1> QED  BY <1>1, <1>2, <1>3, <1>4, <1>5

\* The machine: the result comes at once or is kept back until main returns.
LEMMA RunningShown ==
    ASSUME Inv, ShownInv, OpenVM \/ Load \/ Run \/ CloseVM
    PROVE  ShownInv'
  <1>0. screen \in Seq(Files) /\ (stage \notin {"idle", "closeVM"} => Lists(screen, Shown))
    BY NothingKept DEF ShownInv
  <1>1. CASE OpenVM
    <2>1. CASE Crash
      BY <2>1, CrashShown
    <2>2. CASE Stage("openVM", "load") /\ UNCHANGED ioVars
      <3>1. Shown' = Shown
        BY <2>2 DEF Stage, Shown, ByTheCompiler, ByTheMachine, Due, Compiles
      <3> QED  BY <2>2, <3>1 DEF Stage, ioVars, ShownInv
    <2> QED  BY <1>1, <2>1, <2>2 DEF OpenVM
  <1>2. CASE Load
    <2>1. Shown' = Shown \cup Due({"acode"}) /\ "acode" \in Listings \ Shown
      BY <1>2 DEF Load, Stage, Shown, ByTheCompiler, ByTheMachine, Due, Compiles, Listings
    <2>2. Lists(screen', Shown')
      BY <1>0, <1>2, <2>1, FlushedLists, ShownAreFiles DEF Load, Stage
    <2> QED  BY <1>2, <2>2, NothingKept DEF Load, Stage, ShownInv, Lists
  <1>3. CASE Run
    <2>1. CASE Crash
      BY <2>1, CrashShown
    <2>2. CASE ~Crash
      <3> DEFINE traced == Shown \cup Due({"stacktrace"})
      <3>0. Stage("run", "closeVM") /\ buffer = << >> /\ Lists(screen, Shown)
        BY <1>0, <1>3, <2>2 DEF Run, Stage, ShownInv
      <3>1. /\ Shown' = traced \cup {"result"} /\ "result" \in Files \ traced
            /\ "stacktrace" \in Listings \ Shown /\ traced \in SUBSET Files
        BY <3>0 DEF Stage, Shown, ByTheCompiler, ByTheMachine, Due, Compiles, Files, Listings
      <3>2. CASE /\ screen' = screen \o (IF "v" \in options THEN <<"stacktrace", "result">> ELSE <<"result">>)
                 /\ buffer' = buffer
        <4> DEFINE t == IF "v" \in options THEN Append(screen, "stacktrace") ELSE screen
        <4>1. Lists(t, traced)
          <5>1. Due({"stacktrace"}) = IF "v" \in options THEN {"stacktrace"} ELSE {}
            BY DEF Due, Letter
          <5>2. Shown \cup {"stacktrace"} \in SUBSET Files /\ "stacktrace" \in Files \ Shown
            BY <3>1, ShownAreFiles DEF Files, Listings
          <5> QED  BY <3>0, <5>1, <5>2, ListsOneMore, ShownAreFiles
        <4>2. Lists(Append(t, "result"), Shown')
          <5> HIDE DEF t, traced
          <5> QED  BY <3>1, <4>1, ListsOneMore
        <4>3. screen' = Append(t, "result")
          BY <1>0, <3>1, <3>2 DEF Files, Listings
        <4> HIDE DEF t
        <4> QED  BY <1>3, <2>2, <3>0, <3>2, <4>2, <4>3, NothingKept DEF Run, Stage, ShownInv, Lists
      <3>3. CASE Flushed("stacktrace") /\ buffer' = Append(buffer, "result")
        <4>1. Lists(screen', traced)
          BY <3>0, <3>1, <3>3, FlushedLists, ShownAreFiles
        <4>2. Lists(Append(screen', "result"), Shown')
          <5> HIDE DEF traced
          <5> QED  BY <3>1, <4>1, ListsOneMore
        <4>3. buffer' = <<"result">> /\ buffer' \in Seq(Files) /\ screen' \in Seq(Files)
          BY <3>0, <3>3, <4>1 DEF Files, Lists
        <4>4. screen' \o buffer' = Append(screen', "result")
          BY <4>3, AppendIsConcat DEF Files
        <4> QED  BY <1>3, <2>2, <3>0, <4>2, <4>3, <4>4 DEF Run, Stage, ShownInv
      <3> QED  BY <1>3, <2>2, <3>2, <3>3 DEF Run
    <2> QED  BY <2>1, <2>2
  <1>4. CASE CloseVM
    <2>1. CASE Crash
      BY <2>1, CrashShown
    <2>2. CASE Return(IF halted THEN "success" ELSE "failure")
      <3>1. screen' \in Seq(Files)
        BY <2>2, ConcatProperties DEF Return, ShownInv
      <3> QED  BY <2>2, <3>1, NothingKept DEF Return, ShownInv
    <2> QED  BY <1>4, <2>1, <2>2 DEF CloseVM
  <1> QED  BY <1>1, <1>2, <1>3, <1>4

\* A return with success comes where all that was asked for is shown.
LEMMA SuccessStep ==
    ASSUME Inv, ShownInv, SuccessMeansAll, [Next]_vars
    PROVE  SuccessMeansAll'
  <1>1. CASE UNCHANGED vars
    BY <1>1 DEF vars, ioVars, SuccessMeansAll, Asked
  <1>2. CASE Edit
    BY <1>2 DEF Edit, ioVars, SuccessMeansAll, Asked
  <1>3. CASE exit' # "success"
    BY <1>3 DEF SuccessMeansAll
  <1>4. CASE Succeed
    <2>1. Shown = Asked' /\ options' = options /\ "c" \in options
      BY <1>4 DEF Succeed, Return, Inv, StageInv, ShownInv, Shown, ByTheCompiler, ByTheMachine, Due, Compiles, Asked
    <2>2. Lists(screen', Asked')
      BY <1>4, <2>1 DEF Succeed, Return, ShownInv
    <2> QED  BY <2>1, <2>2 DEF Lists, SuccessMeansAll
  <1>5. CASE CloseVM /\ exit' = "success"
    <2>0. Return("success") /\ halted /\ stage = "closeVM"
      BY <1>5 DEF CloseVM, Crash, Return
    <2>1. Shown = Asked' /\ options' = options /\ halted'
      BY <2>0 DEF Return, ShownInv, Shown, ByTheCompiler, ByTheMachine, Due, Compiles, Asked
    <2>2. Lists(screen', Asked')
      BY <2>0, <2>1 DEF Return, ShownInv
    <2> QED  BY <2>1, <2>2 DEF Lists, SuccessMeansAll
  <1>6. Next /\ exit' = "success" => Edit \/ Succeed \/ CloseVM
    BY DEF Next, Invoke, Refuse, Kill, Lex, Fail, Compile, Emit, WriteSymbolTable, OpenVM, Load, Run,
           Return, Crash, Stage, ShownInv
  <1> QED  BY <1>1, <1>2, <1>3, <1>4, <1>5, <1>6

\* Success means that all that was asked for happened: standard output has the result of
\* a program that came to HALT, and each listing asked for, each once.
THEOREM SuccessMeansAllCorrect == Spec => []SuccessMeansAll
  <1>1. Init => ShownInv /\ SuccessMeansAll
    BY InitShown DEF Init, SuccessMeansAll
  <1>2. Inv /\ ShownInv /\ [Next]_vars => ShownInv'
    <2>1. ASSUME ShownInv, UNCHANGED vars PROVE ShownInv'
      BY <2>1 DEF vars, ioVars, ShownInv, Shown, ByTheCompiler, ByTheMachine, Due, Compiles
    <2> QED  BY <2>1, OutsideShown, CompilingShown, RunningShown DEF Next
  <1> QED  BY <1>1, <1>2, SuccessStep, Invariance, PTL DEF Spec

=============================================================================
