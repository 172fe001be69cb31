-------------------------------- MODULE PL0 --------------------------------
(***************************************************************************)
(* What a PL/0 program means, without frames, levels or code: a name means *)
(* the declaration that is nearest around it in the text, expressions are  *)
(* evaluated from left to right, a call passes values and gives back what  *)
(* was last assigned to "return", and the words written follow from the    *)
(* words read.  Source trees are those of Parser.                          *)
(***************************************************************************)
EXTENDS Words, Sequences, SequencesExt, Functions

CONSTANT Fuel       \* how many calls and rounds of loops, one within another, a meaning is worked out for

\* A run: the activations (each with its block, its variables, and the activation its
\* procedure is declared in), the words not read yet, the words written, and how it
\* ended: "reading" when it wants a word more than there are, "error" after a division
\* that is not defined, "endless" when Fuel ran out.
Start(input) == [acts |-> << >>, input |-> input, out |-> << >>, val |-> 0, fuel |-> Fuel, ended |-> ""]
Ended(s) == s.ended # ""
End(s, how) == IF Ended(s) THEN s ELSE [s EXCEPT !.ended = how]
Then(s, Rest(_)) == IF Ended(s) THEN s ELSE Rest(s)
Value(s, w) == IF Ended(s) THEN s ELSE [s EXCEPT !.val = w]

\* The activations a name is looked for in, from the innermost scope outwards.
Around(s, a) == LET from[b \in 0 .. Len(s.acts)] == IF b = 0 THEN << >> ELSE <<b>> \o from[s.acts[b].parent]
                IN  from[a]
Nearest(s, a, Has(_)) == SelectSeq(Around(s, a), LAMBDA b : Has(s.acts[b]))[1]
HasVar(x, act) == x \in DOMAIN act.vars
HasConst(x, act) == \E i \in DOMAIN act.block.consts : act.block.consts[i][1] = x
HasProc(p, act) == \E i \in DOMAIN act.block.procs : act.block.procs[i].name = p

Lookup(s, a, x) ==
    LET act == s.acts[Nearest(s, a, LAMBDA b : HasVar(x, b) \/ HasConst(x, b))]
    IN  IF HasVar(x, act) THEN act.vars[x]
        ELSE act.block.consts[CHOOSE i \in DOMAIN act.block.consts : act.block.consts[i][1] = x][2]
Assign(s, a, x, w) ==
    IF Ended(s) THEN s
    ELSE [s EXCEPT !.acts[Nearest(s, a, LAMBDA b : HasVar(x, b))].vars[x] = w]

Activate(block, names, vals, parent) ==
    [block |-> block, parent |-> parent,
     vars |-> [x \in ToSet(names) \cup ToSet(block.vars) \cup (IF parent = 0 THEN {} ELSE {"return"}) |->
                  IF x \in ToSet(names) THEN vals[CHOOSE i \in DOMAIN names : names[i] = x] ELSE 0]]

Arithmetic(op, a, b) == CASE op = "+" -> Wrap(a + b) [] op = "-" -> Wrap(a - b)
                          [] op = "*" -> Wrap(a * b) [] op = "/" -> Quotient(a, b)
                          [] op = "%" -> a - b * Quotient(a, b)
Undefined(op, a, b) == op \in {"/", "%"} /\ (b = 0 \/ (a = WordMin /\ b = -1))
Holds(op, a, b) == CASE op = "=" -> a = b [] op = "<>" -> a # b [] op = "<" -> a < b
                     [] op = "<=" -> a <= b [] op = ">" -> a > b [] op = ">=" -> a >= b

-----------------------------------------------------------------------------
RECURSIVE Eval(_, _, _), EvalAll(_, _, _), Exec(_, _, _), ExecAll(_, _, _)

\* The value of expressions, one after the other, is the sequence of their values.
EvalAll(s, a, es) ==
    IF es = << >> THEN Value(s, << >>)
    ELSE Then(EvalAll(s, a, Front(es)),
              LAMBDA r : Then(Eval(r, a, Last(es)), LAMBDA t : Value(t, Append(r.val, t.val))))

\* A call, with the values of its parameters: a new activation, which the statement of
\* the procedure runs in and which is gone after it.
Enter(s, proc, home) ==
    IF s.fuel = 0 THEN End(s, "endless")
    ELSE Then(Exec([s EXCEPT !.acts = Append(@, Activate(proc.body, proc.params, s.val, home)), !.fuel = @ - 1],
                   Len(s.acts) + 1, proc.body.stmt),
              LAMBDA r : [r EXCEPT !.acts = Front(@), !.val = Last(r.acts).vars["return"], !.fuel = s.fuel])
Invoke(s, a, p, es) ==
    LET home == Nearest(s, a, LAMBDA b : HasProc(p, b))
        procs == s.acts[home].block.procs
    IN  Then(EvalAll(s, a, es), LAMBDA r : Enter(r, SelectSeq(procs, LAMBDA q : q.name = p)[1], home))

Eval(s, a, e) ==
    CASE e[1] = "num" -> Value(s, e[2])
      [] e[1] = "var" -> Value(s, Lookup(s, a, e[2]))
      [] e[1] = "neg" -> Then(Eval(s, a, e[2]), LAMBDA r : Value(r, Wrap(-r.val)))
      [] e[1] = "call" -> Invoke(s, a, e[2], e[3])
      [] OTHER -> Then(EvalAll(s, a, Tail(e)),
                       LAMBDA r : IF Undefined(e[1], r.val[1], r.val[2]) THEN End(r, "error")
                                  ELSE Value(r, Arithmetic(e[1], r.val[1], r.val[2])))

\* The value of a condition is a truth value.
Test(s, a, c) ==
    IF c[1] = "odd" THEN Then(Eval(s, a, c[2]), LAMBDA r : Value(r, r.val % 2 = 1))
    ELSE Then(EvalAll(s, a, Tail(c)), LAMBDA r : Value(r, Holds(c[1], r.val[1], r.val[2])))

ExecAll(s, a, ss) == IF ss = << >> THEN s
                     ELSE Then(ExecAll(s, a, Front(ss)), LAMBDA r : Exec(r, a, Last(ss)))

\* A round of a loop and the rounds after it.
Again(s, a, loop) == IF s.fuel = 0 THEN End(s, "endless")
                     ELSE Then(ExecAll([s EXCEPT !.fuel = @ - 1], a, <<loop[3], loop>>),
                               LAMBDA r : [r EXCEPT !.fuel = s.fuel])

Exec(s, a, stmt) ==
    CASE stmt[1] = "none" -> s
      [] stmt[1] = "assign" -> Then(Eval(s, a, stmt[3]), LAMBDA r : Assign(r, a, stmt[2], r.val))
      [] stmt[1] = "call" -> Invoke(s, a, stmt[2], stmt[3])
      [] stmt[1] = "begin" -> ExecAll(s, a, stmt[2])
      [] stmt[1] = "if" -> Then(Test(s, a, stmt[2]), LAMBDA r : Exec(r, a, IF r.val THEN stmt[3] ELSE stmt[4]))
      [] stmt[1] = "while" -> Then(Test(s, a, stmt[2]), LAMBDA r : IF r.val THEN Again(r, a, stmt) ELSE r)
      [] stmt[1] = "read" -> IF s.input = << >> THEN End(s, "reading")
                             ELSE Assign([s EXCEPT !.input = Tail(@)], a, stmt[2], Head(s.input))
      [] stmt[1] = "write" -> Then(Eval(s, a, stmt[2]), LAMBDA r : [r EXCEPT !.out = Append(@, r.val)])

\* The words a program writes when these are read, and how it ends.
Meaning(block, input) ==
    LET s == Start(input)
        r == Exec([s EXCEPT !.acts = <<Activate(block, << >>, << >>, 0)>>], 1, block.stmt)
    IN  [out |-> r.out, ended |-> IF Ended(r) THEN r.ended ELSE "halted"]

-----------------------------------------------------------------------------
(* The behaviour of a running program, as its user sees it.                *)

CONSTANTS Sources, Typed
VARIABLES source, typed, written, meaning, outcome

pl0Vars == <<source, typed, written, meaning, outcome>>

\* meaning is that of the program on the words typed so far.
Init == /\ source \in DOMAIN Sources
        /\ typed = << >> /\ written = << >>
        /\ meaning = Meaning(Sources[source], << >>)
        /\ outcome = "running"

AllWritten == written = meaning.out

WriteNext == /\ outcome = "running" /\ Len(written) < Len(meaning.out)
             /\ written' = Append(written, meaning.out[Len(written) + 1])
             /\ UNCHANGED <<source, typed, meaning, outcome>>

ReadNext == /\ outcome = "running" /\ AllWritten /\ meaning.ended = "reading"
            /\ \E w \in Typed : typed' = Append(typed, w)
            /\ meaning' = Meaning(Sources[source], typed')
            /\ UNCHANGED <<source, written, outcome>>

\* A program ends as it means to; one without an end may run out of storage.
Stop == /\ outcome = "running"
        /\ \/ AllWritten /\ meaning.ended = "halted" /\ outcome' = "halted"
           \/ AllWritten /\ meaning.ended = "error" /\ outcome' = "error"
           \/ meaning.ended = "endless" /\ outcome' = "error"
        /\ UNCHANGED <<source, typed, written, meaning>>

Next == WriteNext \/ ReadNext \/ Stop

Spec == Init /\ [][Next]_pl0Vars

=============================================================================
