----------------------------- MODULE Toolchain -----------------------------
(***************************************************************************)
(* The program as its user runs it, again and again (main.c, with          *)
(* run_lexer, run_compiler and run_vm): an invocation passes through       *)
(* lexer, compiler and machine.  Of the files only mcode.txt is read again *)
(* (tokenlist.txt is opened, but input.txt is scanned twice); the others   *)
(* count for the listings of them on standard output.                      *)
(***************************************************************************)
EXTENDS FiniteSets, Sequences, SequencesExt

CONSTANTS
    Sources,    \* what the user may write into input.txt
    BadToken, BadSyntax, BadNames,  \* those the lexer, the parser, the code generator refuse,
    Crashing,   \* those the code generator reads a block for that is none,
    Long,       \* those with more code than MAX_CODE_LENGTH,
    Failing,    \* and those whose program does not come to HALT
    OptionSets  \* the options an invocation may have, by their letters

Letters == {"l", "s", "a", "v", "m", "c", "r", "n"}
ASSUME OptionsAssumption == OptionSets \subseteq SUBSET Letters
\* What is in mcode.txt, or loaded: the code of a source, whole or its first part.
None == "none"
ASSUME LongAssumption == None \notin Long
Absent == [of |-> None, part |-> "absent"]
Empty == [of |-> None, part |-> "empty"]
Whole(s) == [of |-> s, part |-> "whole"]
First(s) == [of |-> s, part |-> "first"]
Content == {Empty} \cup {First(s) : s \in Sources} \cup {Whole(s) : s \in Sources}

VARIABLES
    input,      \* the source in input.txt
    mcode,      \* what is in mcode.txt
    options,    \* of this invocation
    stage,      \* where it is
    program,    \* what the machine has loaded
    halted,     \* whether Machine_run succeeded
    buffer,     \* standard output: what printf keeps back,
    screen,     \* and what has been written
    exit        \* how the last invocation ended

ioVars == <<program, halted, buffer, screen>>
vars == <<input, mcode, options, stage, ioVars, exit>>

Init == /\ input \in Sources
        /\ mcode = Absent
        /\ options = {} /\ stage = "idle" /\ exit = "none"
        /\ program = Empty /\ halted = FALSE /\ buffer = << >> /\ screen = << >>

Stage(s, next) == stage = s /\ stage' = next /\ UNCHANGED <<input, options, exit>>

\* A return from main writes what is kept back; a crash does not.
Return(status) == /\ stage' = "idle" /\ exit' = status
                  /\ screen' = screen \o buffer /\ buffer' = << >>
                  /\ UNCHANGED <<input, options, program, halted>>
Crash == /\ stage' = "idle" /\ exit' = "crashed" /\ buffer' = << >>
         /\ UNCHANGED <<input, options, program, halted, screen>>

\* A file that is flushed, teed to standard output when its option asks for that.
Letter(f) == [tokenlist |-> "l", symboltable |-> "s", mcode |-> "m", acode |-> "a", stacktrace |-> "v"][f]
Flushed(f) == screen' = IF Letter(f) \in options THEN Append(screen, f) ELSE screen

-----------------------------------------------------------------------------
(* What the user does between two invocations, and to one.                 *)

Edit == /\ stage = "idle"
        /\ input' \in Sources
        /\ UNCHANGED <<mcode, options, stage, ioVars, exit>>

Invoke == /\ stage = "idle"
          /\ options' \in OptionSets
          /\ stage' = IF {"c", "r"} \subseteq options' THEN "refuse"
                      ELSE IF "r" \in options' THEN "openVM" ELSE "lex"
          /\ program' = Empty /\ halted' = FALSE /\ buffer' = << >> /\ screen' = << >> /\ exit' = "none"
          /\ UNCHANGED <<input, mcode>>

Refuse == stage = "refuse" /\ Return("failure") /\ UNCHANGED mcode

\* It is killed, with any part of what it was writing in the file.
Parts == CASE stage = "compile" -> {mcode, Empty} [] stage = "emit" -> {Empty, First(input)} [] OTHER -> {mcode}
Kill == /\ stage # "idle"
        /\ stage' = "idle" /\ exit' = "killed" /\ buffer' = << >>
        /\ mcode' \in Parts
        /\ UNCHANGED <<input, options, program, halted, screen>>

-----------------------------------------------------------------------------
(* The stages.                                                             *)

\* run_lexer: the token list ends where a token is refused.
Lex == /\ stage = "lex"
       /\ Flushed("tokenlist")
       /\ stage' = IF input \in BadToken THEN "fail" ELSE "compile"
       /\ UNCHANGED <<input, mcode, options, exit, program, halted, buffer>>

Fail == stage = "fail" /\ Return("failure") /\ UNCHANGED mcode

\* A fault to be caught: a source that is refused does not end the invocation.
Compile_Fault == /\ stage = "compile"
                 /\ mcode' = Empty
                 /\ \/ input \in Crashing /\ Crash
                    \/ /\ input \notin Crashing
                       /\ Stage("compile", IF input \in BadSyntax \cup BadNames
                                           THEN IF "c" \in options THEN "succeed" ELSE "openVM" ELSE "emit")
                       /\ UNCHANGED ioVars

\* A fault to be caught: mcode.txt is emptied only for a source that is accepted.
Compile_Kept == /\ stage = "compile"
                /\ mcode' = IF input \in BadSyntax \cup BadNames THEN mcode ELSE Empty
                /\ \/ input \in Crashing /\ Crash
                   \/ /\ input \notin Crashing
                      /\ Stage("compile", IF input \in BadSyntax \cup BadNames THEN "fail" ELSE "emit")
                      /\ UNCHANGED ioVars

\* The files of the compiler are emptied before it looks at the source, input.txt again.
Compile == /\ stage = "compile"
           /\ mcode' = Empty
           /\ \/ input \in Crashing /\ Crash
              \/ /\ input \notin Crashing
                 /\ Stage("compile", IF input \in BadSyntax \cup BadNames THEN "fail" ELSE "emit")
                 /\ UNCHANGED ioVars

\* Codegen_emit, and Codegen_writeSymbolTable after it.
Emit == /\ Stage("emit", "symbols")
        /\ mcode' = Whole(input)
        /\ Flushed("mcode")
        /\ UNCHANGED <<program, halted, buffer>>

WriteSymbolTable == /\ Stage("symbols", IF "c" \in options THEN "succeed" ELSE "openVM")
                    /\ Flushed("symboltable")
                    /\ UNCHANGED <<mcode, program, halted, buffer>>

Succeed == stage = "succeed" /\ Return("success") /\ UNCHANGED mcode

\* A fault to be caught: a file that is not there is read.
OpenVM_Fault == stage = "openVM" /\ Stage("openVM", "load") /\ UNCHANGED <<mcode, ioVars>>

\* No machine code ends the program by abort (REQUIRE_PERROR); nothing of the files of
\* the machine has been opened by then.
OpenVM == /\ stage = "openVM" /\ UNCHANGED mcode
          /\ \/ mcode = Absent /\ Crash
             \/ mcode # Absent /\ Stage("openVM", "load") /\ UNCHANGED ioVars

\* Machine_loadCode takes what fits, with a message, and Machine_printDisassembly
\* writes that.
Fitting(c) == IF c.of \in Long THEN First(c.of) ELSE c
Load == /\ Stage("load", "run")
        /\ program' = Fitting(mcode)
        /\ Flushed("acode")
        /\ UNCHANGED <<mcode, halted, buffer>>

\* The machine runs to its end: code that is not all there may do anything.  With -n
\* there is no trace, but with -v it is teed all the same, to a file that is not open.
Halts == IF program.part = "whole" THEN {program.of \notin Failing}
         ELSE IF program.part = "empty" THEN {FALSE} ELSE BOOLEAN
Run == /\ stage = "run" /\ UNCHANGED mcode
       /\ \/ {"n", "v"} \subseteq options /\ Crash
          \/ /\ ~({"n", "v"} \subseteq options) /\ Stage("run", "closeVM")
             /\ halted' \in Halts
             /\ \/ screen' = screen \o (IF "v" \in options THEN <<"stacktrace", "result">> ELSE <<"result">>)
                   /\ buffer' = buffer
                \/ Flushed("stacktrace") /\ buffer' = Append(buffer, "result")
             /\ UNCHANGED program

\* A fault to be caught: how the machine stopped does not matter.
CloseVM_Fault == stage = "closeVM" /\ UNCHANGED mcode
                 /\ IF "n" \in options THEN Crash ELSE Return("success")

\* The destructor of VMFiles closes the stack trace, open or not.
CloseVM == stage = "closeVM" /\ UNCHANGED mcode
           /\ IF "n" \in options THEN Crash ELSE Return(IF halted THEN "success" ELSE "failure")

Next == \/ Edit \/ Invoke \/ Refuse \/ Kill
        \/ Lex \/ Fail \/ Compile \/ Emit \/ WriteSymbolTable \/ Succeed \/ OpenVM \/ Load \/ Run \/ CloseVM

Spec == Init /\ [][Next]_vars

-----------------------------------------------------------------------------
TypeOK == /\ input \in Sources
          /\ mcode \in Content \cup {Absent} /\ program \in Content
          /\ options \subseteq Letters
          /\ halted \in BOOLEAN
          /\ exit \in {"none", "success", "failure", "crashed", "killed"}

\* The machine runs code of no source that was refused, whatever was killed or failed
\* before; and after a compilation all the code of the source in input.txt, as far as
\* there is room for it.
Accepted == Sources \ (BadToken \cup BadSyntax \cup BadNames \cup Crashing)
RunsWhatWasCompiled ==
    stage \in {"run", "closeVM"} =>
        /\ program.of \in Accepted \cup {None}
        /\ "r" \notin options => program = Fitting(Whole(input))

\* An invocation that compiles, and is not killed, leaves in mcode.txt the program of its
\* source, whole, or nothing when the source is refused, for the next one to run with
\* -r; only after a token is refused the program there may be an older one.
LeavesItsProgram ==
    [][(stage # "idle" /\ stage' = "idle" /\ exit' # "killed" /\ "r" \notin options /\ input \notin BadToken)
           => mcode' = IF input \in Accepted THEN Whole(input) ELSE Empty]_vars

\* Success means that all that was asked for happened: the program came to HALT, and
\* standard output has its result and each listing asked for once.
Asked == (IF "r" \in options THEN {} ELSE {f \in {"tokenlist", "mcode", "symboltable"} :
                                             Letter(f) \in options})
         \cup (IF "c" \in options THEN {} ELSE {"result"} \cup {f \in {"acode", "stacktrace"} :
                                                                Letter(f) \in options})
SuccessMeansAll ==
    exit = "success" => /\ "c" \in options \/ halted
                        /\ ToSet(screen) = Asked /\ Len(screen) = Cardinality(Asked)

\* "Don't write stacktrace while running (MUCH FASTER!)" (main.c:93): with -n a program
\* that compiles ends as it does without.
EndsWithoutTrace == ("n" \in options /\ input \in Accepted) => exit # "crashed"

=============================================================================
