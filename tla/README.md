# PL/0 toolchain: specifications and proofs

`src/` is a toolchain for the teaching language PL/0: a compiler (lexer, token
stream, recursive descent parser, symbol tree, a code generator for the PM/0
stack machine and another for LLVM) and a virtual machine for PM/0 with a
debugger.  This directory holds TLA+ specifications of it, what TLC checks of
them on small instances, and what TLAPS proves of them for all instances.

It goes from the characters of a source to the words its program writes: texts
are scanned and parsed, trees are compiled, the code made runs on the modelled
machine and is compared with what the source means; the debugger, its signal
handler and its input are modelled at the grain of their races; and the
invocations of the program are modelled with the files they leave to each other.

## The system

| Part | State | Operations | Talks to | What is hard | What makes it correct |
|---|---|---|---|---|---|
| Breakpoint table (`vm/machine.c` 751-848) | `bps`, the words planted in `codemem` | add, disable, enable, toggle, clear | the debugger calls it, the fetch reads it | two copies of an instruction, two breakpoints at one address | the code is always the program's or a live breakpoint's; clearing restores it |
| Run loop (`vm/machine.c` 359-377, 583-745, `vm/pm0.c`) | status, PC, IR, debug flags | start, run, continue, step | called by `run_vm` or the command loop; calls the CPU | Ctrl+C anywhere, resuming from a breakpoint, four ways to stop | a debugged run is a run of the program; a stop is reported as what it is |
| SIGINT handler (`vm/machine.c` 111-139) | `interrupted`, the disposition of the signal | set, enable, disable | runs between any two steps of the thread | the gaps between test and use | a loop can be stopped; at the prompt Ctrl+C is what it was |
| Command loop (`vm/debugengine.c`) | last command | bp, continue, step, state, help, quit | calls the machine, asserts on its status | what the machine's status may be | the assertion; no breakpoint left behind |
| CPU (`vm/machine.c` 379-617) | `stack`, SP, BP, PC, `frames` | the 24 instructions | READ goes to the input | static and dynamic links, checks at both ends of the stack, half-done failures | names mean their scope, returns go to the caller, values are words |
| READ (`vm/machine.c` 237-357) | `input_buffer`, the number so far | readWord, readIntString, readChunk | the operating system's `read`, SIGINT | chunks cut anywhere, abandoned reads | every number typed is read once, whole, in order |
| Lexer (`lexer/`) | the state of its machine, the lexeme, the line | nextToken, the hooks of identifiers, numbers and comments | gives tokens to the parser, the rest to the clean source | one character of look-ahead, shared prefixes, comments | the longest lexeme, its type and its line; nothing lost |
| Token stream, parser (`compiler/parser/`) | one token of look-ahead, the tree | peek, consume, a function for each rule | pulls from the lexer, gives a tree to the generator | errors half way, which `if` has the `else` | exactly the programs of the grammar, in its trees |
| Symbol tree (`compiler/codegen/symtree.c`) | symbols, levels, frame sizes | add, find | the parser's tree, the code generator | overwritten failures | redeclarations refused, nearest scope found |
| Code generator (`compiler/codegen/pm0/`) | a graph of basic blocks with cross-references, symbol references, addresses | generate, optimise, lay out, resolve, emit | symbol tree | retargeting while walking, tail calls, addresses given during resolution | the code means what the source means; addresses are disjoint and final |
| Pipeline (`main.c`, `vm/pm0.c`) | open files, `mcode.txt` between invocations | lexer, compiler, machine | everything | a stage that fails, a crash, an old file | what runs was compiled; success means success |
| Teed output (`tee.c`) | what is left to write | tee_write | the operating system's `write` | short writes | standard output gets what the file gets |

The toolchain is single-threaded.  Concurrency comes from the one signal
handler and from the user (or a pipe) on the other side of the input.  What
persists is `mcode.txt`, which an invocation with `-r` takes from an earlier one.

`PROJECT.json` lists the components with their status and the hazards, each at
its line with the properties that look for it.

## The modules

### The machine and its debugger

**`Words`** has the arithmetic of words: wrapping, the division of C, what is undefined.

**`Breakpoints`** is the table of breakpoints and the words planted in the code:
`addBreakpoint`, `disableBreakpoint`, `enableBreakpoint`, `toggleBreakpoint` and
`clearBreakpoints` are the functions of those names.  An instruction is a record
of the kind of its opcode and its operand.  A number that names no breakpoint, or an
address outside the code, is refused as the code refuses it, so both are among
the inputs (`BpNext`).  `read_program` takes any word for an instruction, so a program may have
BREAK words of its own (`BreakInsn`), with any number: no breakpoint is ever set on one
(`machine.c:758` takes it for a breakpoint that is there).

**`Debugger`** extends it with the run loop, the command loop and the signal.
`phase` is where the thread is: at the prompt, in `Machine_continue` before the
handler is enabled, fetching, executing, in one of the steps of READ, testing
the flag, leaving.  The cuts are where the thread reads or writes what the
handler writes or what the user decides, so that `Signal` and `ReadReturns` come
at every distinguishable moment.  The data stack is not here: an instruction
that may fail does or does not (READ too, whose number may not fit: `ReadFails`), a conditional jump goes either way, RET finds one
of `ReturnAddrs`.  A fetch takes a BREAK's number for a breakpoint's, whoever put the BREAK there:
one of the program's own stops the program with an error, or, when a breakpoint happens to have its number, pauses it
and on resuming runs the instruction at that breakpoint.  `Meant` is what an address has then.  A second Ctrl+C (the handler is reset by the first) or one at
the prompt kills the process, and a killed process takes no step, which the
specification allows anywhere.

**`ControlFlow`** is the abstract specification both machines implement: the
program counter moves by the program's own instructions, one at a time.  A BREAK of the program's
own moves nothing, or as an instruction of the program that a debugger has it stand for (`StandsFor`).

**`Machine`** is the CPU with its stack, for a run without interruptions.  One action
for each instruction, ALU operations sharing two; each has its success and its
failures, with what had already been changed when the failure was noticed: in
C the order of two of these changes is not fixed (LOD and STO move SP on one side
of an assignment and look a slot up on the other), and the model takes both
orders.  RET pops PC before it reads the dynamic link, so that a RET that
fails there leaves the popped PC, less one (`machine.c:486`, 613); `Debugger` allows it.  `active` is a history variable, written by CAL, RET and jumps to
an entry of a procedure and read by no guard: the calls in progress, the place in it of each
one's declaring procedure, and what its return has to restore.  ADD, SUB, MUL and NEG overflow a signed C integer, which
C leaves undefined and the machine code gcc produces wraps.  Status
`"undefined"` is the write beyond `frames`, after which nothing can be said.

**`Discipline`** says of code what the machine nowhere checks and its frames rest on.  A place is an address
with the number of words then in the frame, whose frame it is, which scope its static link points to and how many of
its words have been seen to lie within the stack.  A program is `Disciplined` when some set of places holds the first one
and all that can follow (`NextPlaces`), and at each the instruction finds its operands above the links,
a variable lies in the frame it is sought in (also while that procedure waits for a callee), whoever is called or jumped
to is declared where the static link points, and only procedures return (`Allowed`).
The code of a tail call (`INC`, `LOD` of the link, `INC`, the parameters, `JMP`) is among what it allows.

**`InputPort`** is READ: `Scan` is one turn of the loop of `readIntString`, `mode`
the place the thread has reached, `pending` what the user has typed and the
program not read.  `closed` says whether the input then ends, as a pipe does, or
stays open.  Characters are digits, the minus sign or anything else.

### The compiler

**`Lexer`** is `Lexer_nextToken` with the tokens of PL/0.  Texts and lexemes are sequences of
characters.  A state of the machine is the lexeme that leads to it (`Beginnings`), or `ID`, `NUMBER` or `INVALID`: prefixes of reserved
words accept as identifiers and leave for `ID` at any other letter or digit, as
`add_pl0_tokens` builds them.  One action for each turn of the loop, and
two for the two loops of a comment, so that a newline that both look at is counted by both.
A token keeps the place where it begins, which the code has no need of and the properties have.

**`Parser`** has an operator for each function of `parser.c`, from the
tokens and a place to a tree and the place after, or to a failure.  Trees are tuples
headed by their kind.  `"undefined"` is the release of a node that was
never assigned (`parser.c:701`).

**`FrontEnd`** composes the two: `run_lexer` scans the whole text and the parser is reached
when that succeeded.  **`Grammar`** is the reference for it, the
rules of the comments of `parser.c` and of `parser.y` as the set of the trees
that derive from a sequence of tokens, knowing nothing of look-ahead;
the two grammars differ in whether a call in an expression needs its list.

**`SymTree`** has the scopes of a program by their paths, with the success that each list of
declarations keeps from its last one.  **`Names`** says from the source alone what is wrong with its names.

**`BasicBlocks`** is the graph of one procedure: a block is its number, `refs` the
cross-references, `freed` what a release does to a block and `misused` that it was
touched after that.  Bypassing of empty blocks, tail calls and the jumps at the
end of a block are `Bypass`, `TailCallOptimize` and `Jumps`.  **`GenPM0`** generates
the graphs from trees, optimises them in the order of the calls found, and lays
the procedures out: `SetAddress`, `Resolve` and `AppendBlock` call each other as `Block_setAddress`,
`Block_resolve` and `Block_append` do.
A symbol is marked before its instruction is added, and `genLoadIdent` marks a procedure before it refuses it (`RefuseMarked`): among the parameters
of a call, where the refusal is ignored, the mark stays and the call gets it (`syms` of an instruction), which is then resolved by each of its marks in turn, and removed when one of them is of an empty procedure.  **`Compiler`** is the whole of it: a tree to a verdict and the code of `mcode.txt`.

**`PL0`** is the abstract specification: what a source means, with
activations and names in place of frames and links, and the behaviour its user sees (words
typed, words written, an end).

**`Compiled`** composes `Compiler` and `Machine`: a source is compiled, its code
loaded and run, with the words read and written as histories.  It implements `PL0`,
and says of the entries of the procedures what `Machine`'s history needs.

### The program

**`Toolchain`** is `main` with its options, an invocation after another, over sources
each of which is refused by one stage or fails in one way (the sets `BadToken`, `BadSyntax`,
`BadNames`, `Crashing`, `Long`, `Failing`).  Of the files it follows `mcode.txt`,
the only one read again; of standard output, which listings have reached it and
what printf keeps back.  `Kill` may come in any stage.  input.txt is assumed not to change
while an invocation runs.

**`Tee`** is the loop of `tee_write` over what `write` takes, which is the system's (external).

**`MC...`** modules hold the instances TLC runs.  `..._proofs` modules hold the theorems.

**How they compose.**  `Debugger` extends `Breakpoints`.  `Debugger` and `Machine` each
instantiate `ControlFlow` with a mapping of their state: in `Debugger` PC counts as
not moved until its instruction completes, in `Machine` an instruction is seen by its kind.
`InputPort` is the detail of the READ that `Debugger` cuts into phases and `Machine` takes in one step.
`FrontEnd` extends `Lexer` and `Parser`; `Compiler` extends `GenPM0`, that `BasicBlocks`, that `SymTree`;
`Discipline` extends `Machine`; `Compiled` extends that and instantiates `Compiler`, `Names` and, with a mapping of the machine's
status to the outcome, `PL0`.  `MCCompiled` makes its trees with `Parser`.  `Toolchain` takes of each stage how it may end.

A definition named `X_Fault`, or with another word behind the underscore, stands beside `X`, is used by no
specification, and is `X` as a slip of the pen could have written it: a
property of a run is worth its place when it fails with such an `X`.

## The runs

| Run | Instance | Shows |
|---|---|---|
| `debugger` (`MCDebugger.cfg`) | a program of seven instructions with a READ, a call, a procedure that loops on itself, a return to the code or out of it, a BREAK of its own that has the second breakpoint's number, and HALT; 2 breakpoints, any sequence of commands, signals anywhere, with and without the debugger | the properties of `Breakpoints` and `Debugger` below |
| `input_port` (`MCInputPort.cfg`) | every input of up to 4 characters over 0, 8, minus, separator in which numbers stand apart, chunks of 1 to 3, up to 2 interrupts | `NothingLost`, `ReadsWhatWasTyped`, `ReadAnswers` |
| `machine_raw` (`MCMachineRaw.cfg`) | every program of two register-moving instructions and any third, words of 5 bits, 6 words of stack | `TypeOK` with every instruction and every failure |
| `front_end` (`MCFrontEnd.cfg`) | every text of up to four pieces over the characters the lexer tells apart, the same inside comments, and five programs with each token replaced by or preceded by each of ten others | the properties of `Lexer` and `FrontEnd` |
| `compiled` (`MCCompiled.cfg`) | about a thousand sources: statements of every shape inside each other, in the main program, at its end and in a procedure; recursion, tail calls, scopes, empty procedures, programs that overflow the stack or the words; all executed with every input; and two programs with each name replaced by each of eight, and procedures among the parameters of calls, judged only | the properties of `Compiler` and `Compiled`, and those of `Machine` on code the compiler made |
| `toolchain` (`MCToolchain.cfg`) | a source of each kind, any set of the eight options that change the stages or the listings (`-p`, `-d` and the choice of parser and generator do not), any number of invocations and edits, kills | the properties of `Toolchain` |

What the properties say:

- `OrigsAreProgram`, `BreaksResolve`, `Restorable`: after any commands each breakpoint
  holds the program's own instruction, each word in the code is the program's or the BREAK of an enabled breakpoint of its address,
  and clearing gives the program back.
- `ExecutesTheProgram`, `RunsTheProgram`: breakpoints, steps, pauses and interrupts
  never change which instruction runs, but for the instruction that a BREAK of the program's own stands for when a breakpoint has its number; no BREAK is ever executed;
  a debugged run refines `ControlFlow`.
- `ResumesPastBreakpoint`, `StepRunsOne`: continuing or stepping from a breakpoint
  gets past it, failing only outside the code or at a BREAK of the program's own that has no breakpoint's number; a step is one instruction at most.
- `PromptRestoresSignal`, `ReportsKnownStatus`, `EndRestoresProgram`: what each
  phase leaves for the next, wherever the signal fell.
- `InterruptReturns`: a caught Ctrl+C brings the prompt back.  It leaves out the gap between
  `readChunk`'s test of the flag and `read`, where the code does not: a Ctrl+C there is
  acted upon when some input comes.
- `NothingLost`, `ReadsWhatWasTyped`, `ReadAnswers`: no character is lost, repeated or
  moved; the numbers read, and then those still to be read, are the numbers typed.
- `LexesTheText`, `CleanIsTheSource`, `LinesAreCounted`, `ScansToTheEnd`: the tokens are the
  longest lexemes of the text outside comments, worked out from the whole text at once; the clean
  source is the text without its comments; each token's line is what the two loops make of it; scanning ends.
- `ParsesTheGrammar`, `AgreesWithBison`, `UndefinedAfterCalls`: what is accepted has exactly
  one tree in the grammar and it is the parser's, what is refused has none; Bison's grammar
  gives the same trees to the same programs; the uninitialised node is only reached through a wrong call in an expression.  (Bison takes a call in an
  expression without its list, so texts with such a call are compared in one direction only.)
- `JudgesTheSource`: the compiler refuses exactly the sources whose names are wrong in the
  ways it looks for (`Names`): parameters of calls and all but the last name of a list are not looked at.
- `GraphsAreSound`, `PlacedInOrder`: after optimisation each block knows exactly those that go
  to it and none was touched after its release; procedures stand where their addresses say, without gaps.
- `MeansTheSource`, `EndsWithTheSource`: a compiled program reads and writes what its
  source means, word for word, ends as it does, and ends if it does.
- `FramesAreTheCallers`, `ReachesItsScope`, `ReturnsToTheCaller`: the stack trace, the
  static links and the returns agree with the history of calls, for nested
  procedures, recursion inside an argument, mutual recursion between three levels
  and tail calls between them.
- `KeepsDiscipline`: the code of each source that is executed is disciplined, which is what the theorems
  about the four properties around this one assume of a program.
- `StopsForWantOfStack`: compiled programs stop by HALT, by a division, or where the stack ends,
  never below it, outside the code, or outside `frames`.
- `RunsWhatWasCompiled`, `LeavesItsProgram`, `SuccessMeansAll`: the machine never runs code
  of a refused source, and after a compilation runs that of the source there is; what an invocation leaves is the program of its source or nothing; success means
  that the program came to HALT and that each listing asked for is on standard output, once.

**Bounds.**  Two breakpoints meet at one address or stand at consecutive ones, which is
what the table and the resuming flag tell apart; for more, and for other programs, there is the proof.  `ran` saturates at 2 because one and more than one are all that is
asked.  Four characters hold two numbers with a separator, or a signed number
with a digit more than the chunk; 0 and 8 give octal, refused and out-of-range
numbers (words are -80 to 79, so 88 is refused as too large).  Interrupts are
bounded because a read may be abandoned for ever; two let a read be abandoned,
made again and abandoned again.  In `machine_raw` words of 5 bits make every overflow a
few instructions away, and -16 / -1 is among the programs.

In `front_end` identifiers have at most 9 characters and numbers 2 (11 and 5
in the code), so that both limits are met and all reserved words fit; words are
-16 to 15, so that numbers wrap on their way to the tree.  Four pieces hold an
operator of two characters between two others, and a comment's two ends.  The
programs together use each rule of the grammar.

In `compiled` a word is -128 to 127, the stack has 64 words and the frame list 16
(2000 and 500 in `config.h`, the same ratio), so that programs overflow both
their words and their stack and others finish; inputs are 0 to 3.  `Fuel` is how deep calls and rounds
of a loop are followed when a meaning is worked out: every program that ends does so within 12, and one that
does not has the meaning "endless", which may only stop for want of stack.

**Which programs `compiled` executes.**  A property over the programs that this compiler gets
wrong would only say so again.  The trees judged include them; those executed leave out:
a call that ends a block in the middle of a procedure (refuted below);
a tail call whose result is assigned to another variable than `return`, or that follows an assignment
to `return` (the callee's return value then starts as the caller's); a condition both of
whose branches turn out empty, in front of a tail call or in a loop (its value stays on the stack); the value
of a call to an empty procedure; a wrong number of parameters, or a call of what is no procedure; names redeclared before the last of their
list; local variables read before they are written (they hold what the stack held, where
`PL0` gives them 0).  Each is a hazard in `PROJECT.json`.

**Deadlock** is checked everywhere but in `InputPort`, where a READ really waits for ever
when the user types nothing more, and in `Tee`, which stops when all is written.

**Fairness.**  `Debugger!FairSpec` assumes that the operating system runs the
thread: weak fairness of what the thread does by itself.  No command, input or
signal is assumed ever to come.  `InputPort!FairSpec` adds that what was typed is delivered, which is what a
terminal or a pipe does, and that the end of the input is reported.  `Compiled` and `FrontEnd` are
sequential programs, which go on as long as they can; in `Compiled` that includes that the user types what is read.

### What the code does not do

These runs check a sentence of the repository and TLC refutes it.

| Run | Refuted | Where |
|---|---|---|
| `breakpoint_skipped` | a breakpoint right after the one resumed from stops the program | `machine.c:366`: the flag outlives the instruction |
| `tail_call` | only blocks that end a procedure are made tail calls | `basicblock.c:407`: it is not asked whether the block has a target |
| `redeclaration` | redeclarations are errors | `symtree.c:100, 129, 155, 192`: each declaration overwrites the success of the one before |
| `line_count` | the line of a token is its line | `pl0lex.c:122`: a newline after an asterisk in a comment is counted by both loops |
| `no_stacktrace` | `-n` only leaves the trace out | `pm0.c:20`: closes the file that was not opened |
| `tee_short_write` | standard output gets a duplicate | `tee.c:39`: after a short write the whole buffer is written again |

Other things met on the way that no sentence of the repository contradicts are in the hazards' notes:
a Ctrl+C during HALT leaves the machine paused; a disabled breakpoint added again is listed as enabled and not planted;
the reason of a pause is told by the wrong field (`debugengine.c:391`); READ at the end of the input asks for ever; a minus sign at the head of a chunk
is taken into the number before it; hand-written code can overflow the frame list, or have the trace print what is not stack;
a BREAK that was loaded with the program is taken for the debugger's (above), so that the branch of `Machine_execute` whose comment says
that the compiler can use it to insert a breakpoint (`machine.c:382`) is never reached;
`call p(q)` with a procedure `q` is reported and compiled all the same, with `q` in the code, and without the call when `q` is empty.

## The proofs

All are for any program, any number of breakpoints, any sizes.  "Any program" is any word at any address: those of
`Debugger_proofs` hold with BREAK words of the program's own, and say what these do.

- `Breakpoints_proofs`: `OrigsAreProgramCorrect`, `BreaksResolveCorrect` and `RestorableCorrect`,
  the three invariants of the table for any sequence of its functions, and `TableCorrect` of `Debugger_proofs`, the same with the machine running.
  `Restorable` is not inductive by itself: clearing restores an address because what is
  there is either the program's word or the BREAK of an enabled breakpoint
  (`BreaksResolve`), and each of these saved the program's word (`OrigsAreProgram`).
  The conjunction of the three with the type is inductive (`BpInv`).
- `Debugger_proofs`: each safety property of the run `debugger` as a theorem.  The inductive
  invariant `Inv` adds to the table's what each phase may assume: which statuses (`StatusInv`),
  what stepping and resuming imply about the instructions run (`StepInv`,
  `ResumeInv`), where the signal's disposition may be caught (`HandlerInv`), and that the phases of READ
  hold a READ (`ReadInv`).  That no BREAK is executed, a loaded one included, rests on the table: a word that is not the program's
is an enabled breakpoint's (`BreaksResolve`), what a breakpoint saved is an instruction, and so what a fetch takes from either is (`FetchedIsProgram`).
Without `ReadInv`, READ's completion could not be
  matched with a step of `ControlFlow`; without `StatusInv` the assertion of the
  command loop could not be excluded.  One lemma for each group of actions shows it kept.
- `Machine_proofs`: `TypeCorrect`, no register and no stack word leaves the range of
  words, with the lemmas on wrapping and on the division of C that it rests on
  (the quotient by any divisor is a word but for the least word by -1, which is the case
  the code excludes); and `RunsTheProgramCorrect`, `Machine` implements `ControlFlow`, so that `Debugger`,
  which has no stack, assumes of PC no less than what the CPU can do.

- `Discipline_proofs`: `FramesAreTheCallersCorrect`, `ReachesItsScopeCorrect`, `ReturnsToTheCallerCorrect` and
  `StopsForWantOfStackCorrect`: for every disciplined program, however deep it calls, whatever is typed and however
  large the stack, the trace, the links and the returns agree with the history of calls, and only
  HALT, a division or the stack's end stops it.  The hypothesis is `Disciplined(program)`, a property of the code alone; the run
  `compiled` checks it (`KeepsDiscipline`) of the code of about a thousand sources, so theorem and run
  meet there.  None of the four is inductive.  The invariant (`Tidy`) says of every frame, not only of the last,
  whose it is and that its declarer is the active one that its static link points to, with nobody in between
  who is declared further out (`Nested`), that it lies above the one before (`Stacked`), what its words are (`Linking`), and
  behind which call of the discipline its caller waits, at what height (`Waiting`).  That a return
  lands at a place of the discipline needs `Waiting`; that a STO several scopes out spares the links of the frames between
  needs the height of the waiting caller; and that the number of static links is the
  number of declarations needs `Nested`, since the caller of a procedure may be deeper than who declares it.
  In the middle of a tail call the last frame's static link is already the callee's and its owner still the caller: the place
  says so (`link`), and `Linking` leaves that one word to it.
- `Toolchain_proofs`: `TypeCorrect`, `RunsWhatWasCompiledCorrect`, `LeavesItsProgramCorrect` and `SuccessMeansAllCorrect`, for any sources refused or failing in
  any way and any options.  The properties are not inductive: what is run was read from `mcode.txt` two stages before, and
  that may be an older invocation's.  `StageInv` says of each stage what the stages before it have established of the
  source and of the file (`Ready`), `CodeInv` that even what a killed invocation left is of an accepted source,
  `ProgramInv` that what is loaded is what fits of the file; and for success, each listing asked for is
  on the screen or kept back by printf from the stage on that makes it.
- `InputPort_proofs`: `TypeCorrect`, `NothingLostCorrect` and `ReadsWhatWasTypedCorrect`, for any input, chunks of any length and any number
  of interrupts.  `NothingLost` follows from what was used, is held, is buffered and is still pending being the input, in this
  order, at every step, which needs lemmas on concatenation only.  `ReadsWhatWasTyped` has the numbers read before those that the rest
  would give; it is proved from every input in which no minus sign follows a digit or a sign (`Glued`), the
  inputs of the run: in the others what is read depends on the chunks.
- `Lexer_proofs`: `LexerTypeCorrect`, `LinesCorrect`, `CleanCorrect` and `LexingCorrect`, the safety properties of
  `Lexer`, for any texts and any limits on names and numbers.  Each compares what was done character by character
  with what the text is as a whole, of which the machine knows nothing: where its comments are (`CommentsFrom`), what
  is kept of it (`Kept`), the longest lexeme at a place (`MeantFrom`).  The invariant that connects the two is `PlaceInv`
  (`PlaceCorrect`): the lexeme is the text from `Here` to the reader, `Here` divides the text, no comment lying across it, and the
  state is the one that lexeme leads to; inside a comment, that comment is one the text has, and no asterisk and
  slash have come since it opened.  With it, three more are inductive: the line is the line of the
  place the reader has reached (`LineInv`), the clean source is what is kept up to `Here` (`CleanInv`), and the tokens found with those meant from
  `Here` on are those meant from the start (`MeantInv`).  The last is the longest argument.  That the machine got stuck says that
  no longer lexeme begins at `Here`, one character being enough, for which each beginning of a punctuation mark that is
  no mark itself must have no mark among its own beginnings; a stuck lexeme that is accepted is the longest
  one; one longer than `Longest` is wrong by what its first characters say; and the slash that opens a comment is
  never the end of a longer lexeme.  These are theorems about `LexerSpec`; in `FrontEnd` a step either is one of these or leaves the lexer's
  variables alone (`Parse`), and its own theorems would reach the recursive operators of `Parser`.
- `SequenceFacts`: what these rest on and the library has not: the least and the greatest number of a set, induction up to a bound, functions
  defined by recursion on numbers, upwards, downwards and by jumps, and flattening.

The assumptions are those on the constants in the modules (`CodeAssumption`, `ReturnAssumption`, `MachineAssumption`,
`ProgramAssumption`, `FramesAssumption`, `LongAssumption`, `OptionsAssumption`, `InputAssumption`, `TextsAssumption`, `LimitsAssumption`), which TLC evaluates in every run of their module.
`SpellingAssumption` of `Lexer` is about no constant: it states how the reserved words and the punctuation are spelled (what letters they have,
how long they are, which begin others), and TLC decides it by evaluation once for all, where the prover cannot look into a string.
`FramesAssumption`, that the frame list has room for a quarter of the stack's words, is what `config.h` says of its two numbers.

Only model-checked: the liveness properties (the prover has no rule for
fairness here); and all of the parser's and the compiler's, `KeepsDiscipline` among them, whose operators
follow trees and graphs by recursion (`Parser`, `SymTree`, `BasicBlocks`, `GenPM0`, `Compiler`, `Grammar`, `Names`, `PL0`): what a recursive operator
computes for every input is out of the prover's reach.

## Not modelled

- The LLVM generator: off by default, an external library's work.
- The tables Bison generates of `parser.y`; its rules are in `Grammar`.
- Reading tokens back from `tokenlist.txt` (`token_stream.c` 53-121): no part of the program does it.
- The drawing of syntax trees and graphs, option parsing, messages, the format of the tables, of the disassembly and of the trace.
- The containers, and reference counts but for the blocks of a graph.
- An input.txt that is edited between its two scans.

## Plan

Every safety property whose definitions a proof can reach is a theorem.  What could follow:

1. `Parser` and `Grammar` with functions on tokens in place of recursive operators, so that
   what follows from one production (a consumed token is never looked at again, an error keeps no tree) could be proved.
2. `Tee`: that `Duplicates`, which short writes refute, holds when every write takes all it is given.
