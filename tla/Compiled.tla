------------------------------ MODULE Compiled ------------------------------
(***************************************************************************)
(* The compiler and the machine together: a source is compiled, and what   *)
(* mcode.txt has of it is loaded and runs.                                 *)
(***************************************************************************)
EXTENDS Discipline

CONSTANTS
    Sources,    \* syntax trees, each under a name
    Executed,   \* the names of those that are run; the others are only compiled (-c)
    Fuel        \* see PL0

ASSUME SourcesAssumption == Executed \subseteq DOMAIN Sources

C == INSTANCE Compiler

VARIABLES
    source,     \* which one
    typed,      \* history: the words read,
    written,    \* the words written,
    meaning     \* and what the source means when those are read

ioVars == <<source, typed, written, meaning>>
allVars == <<vars, ioVars>>

\* A source that is only compiled means nothing.
Nothing == [consts |-> << >>, vars |-> << >>, procs |-> << >>, stmt |-> <<"none">>]
Run == LET trees == Sources IN [i \in DOMAIN trees |-> IF i \in Executed THEN trees[i] ELSE Nothing]
P == INSTANCE PL0 WITH Sources <- Run, outcome <- IF source \in Executed THEN status ELSE "running"

\* What becomes of each source, and its program: the procedures that have a place are
\* entered at the addresses of their blocks.
Result == LET trees == Sources IN [i \in DOMAIN trees |-> C!Compile(trees[i])]
ProgramOf(r) ==
    LET Addr(path) == r.layout.addr[path]
        procs == DOMAIN r.layout.addr \ {<< >>}
    IN  [code |-> [a \in 0 .. Len(r.insns) - 1 |->
                      LET i == r.insns[a + 1] IN [op |-> i.op, lvl |-> i.lvl, imm |-> i.imm]],
         encloser |-> [e \in {Addr(p) : p \in procs} |->
                          LET p == CHOOSE q \in procs : Addr(q) = e
                          IN  IF Len(p) = 1 THEN Main ELSE Addr(Front(p))]]

\* Each source loads its own program, instead of one of Programs.
CompiledInit ==
    /\ source \in DOMAIN Sources
    /\ program = ProgramOf(Result[source])
    /\ Loaded
    /\ status = IF source \in Executed THEN "running" ELSE "halted"
    /\ typed = << >> /\ written = << >>
    /\ meaning = P!Meaning(Run[source], << >>)

\* READ and WRITE have a user.
Reads == /\ Read
         /\ typed' = IF status' = "running" THEN Append(typed, stack'[sp']) ELSE typed
         /\ meaning' = IF status' = "running" THEN P!Meaning(Run[source], typed') ELSE meaning
         /\ UNCHANGED <<source, written>>
Writes == /\ Write
          /\ written' = IF status' = "running" THEN Append(written, stack[sp]) ELSE written
          /\ UNCHANGED <<source, typed, meaning>>
Computes == /\ \/ FetchOutside \/ Illegal \/ Lit \/ Lod \/ Sto \/ Inc \/ Jmp \/ Jpc
               \/ Cal \/ Ret \/ UnaryOp \/ BinaryOp \/ Halt
            /\ UNCHANGED ioVars

Finished == status # "running" /\ UNCHANGED allVars

CompiledNext == Reads \/ Writes \/ Computes \/ Finished

\* The machine goes on as long as it can, and the user types what is read.
CompiledSpec == CompiledInit /\ [][CompiledNext]_allVars /\ WF_vars(Next)

-----------------------------------------------------------------------------
(* Properties of the compiler.                                             *)

Fresh == typed = << >> /\ written = << >> /\ pc = 0 /\ sp = 0

\* The compiler refuses a source where a list of declarations ends with a name that is
\* taken, or where a name is used for what it is not (parameters of calls apart), and no
\* other, as long as no procedure has a name that is taken; with one, it may read memory
\* that is no block.
N == INSTANCE Names
JudgesTheSource ==
    Fresh => LET ok == Result[source].ok
             IN  IF N!ProcsDeclaredOnce(Sources[source])
                 THEN ok = IF N!Faulty(Sources[source]) THEN "no" ELSE "yes"
                 ELSE ok = "yes" => ~N!Faulty(Sources[source])

\* "so redeclaration errors are correct" (symtree.c:63): in what is accepted, a scope
\* declares a name once.
RedeclarationsAreErrors ==
    Result[source].ok = "yes" => N!DeclaredOnce(Sources[source])

\* "Only operate on terminating basic blocks" (basicblock.c:406): control goes on behind
\* no call that was made a jump.
TailCallsTerminate ==
    \A p \in DOMAIN Result[source].code :
        \A b \in DOMAIN Result[source].code[p] :
            LET blk == Result[source].code[p][b] IN blk.tco => blk.target = C!Null

\* See Compiler.
GraphsAreSound == Fresh => C!GraphsAreSound(Result[source])
PlacedInOrder == Fresh => C!PlacedInOrder(Result[source])

-----------------------------------------------------------------------------
(* Properties of the programs it makes.                                    *)

\* The places that follow those of next, with those before.
RECURSIVE Reached(_, _, _)
Reached(p, done, next) ==
    IF next = {} \/ ~ next \subseteq Places(p) THEN done \cup next
    ELSE Reached(p, done \cup next, UNION {NextPlaces(p, s) : s \in next} \ (done \cup next))
Depths(p) == LET depth[q \in Owners(p)] == IF q = Main THEN 0 ELSE depth[p.encloser[q]] + 1 IN depth

\* The code that the generator, the tail calls and the layout make together is disciplined:
\* wherever control can go, the operands are on the stack, a variable is in the frame it is
\* sought in, a callee is declared where the static link points, and a tail call has
\* relinked the frame it hands over.
KeepsDiscipline ==
    Fresh /\ source \in Executed =>
        Discipline(program, Reached(program, {}, {FirstPlace}), Depths(program))

\* A compiled program reads and writes what its source means, word for word, and ends
\* as it does: scopes, activations, values passed and returned and the order of
\* evaluation survive the frames, the links, the jumps that were left out and the calls
\* that became jumps.
MeansTheSource == P!Spec

\* A program whose source comes to an end comes to one too.
EndsWithTheSource == meaning.ended \in {"halted", "error"} ~> status # "running"

=============================================================================
