------------------------------- MODULE Words -------------------------------
(***************************************************************************)
(* The words of the machine and what its ALU makes of them (Machine_execALU*)
(* in vm/machine.c).  What overflows wraps around.                         *)
(***************************************************************************)
EXTENDS Integers

CONSTANT WordMax

WordMin == -WordMax - 1
Word == WordMin .. WordMax

Unary == {"NEG", "ODD"}
Binary == {"ADD", "SUB", "MUL", "DIV", "MOD", "EQL", "NEQ", "LSS", "LEQ", "GTR", "GEQ"}

Wrap(n) == WordMin + ((n - WordMin) % (WordMax - WordMin + 1))

\* The division of C rounds towards zero.
Abs(n) == IF n < 0 THEN -n ELSE n
Quotient(a, b) == LET q == Abs(a) \div Abs(b)
                  IN  IF (a < 0) = (b < 0) THEN q ELSE -q

\* A fault to be caught: the quotient that is not a word is computed.
Defined_Fault(op, a, b) == op \in {"DIV", "MOD"} => b # 0

\* Division by zero, and the one quotient that is not a word, are refused.
Defined(op, a, b) == op \in {"DIV", "MOD"} => b # 0 /\ ~(a = WordMin /\ b = -1)

Truth(b) == IF b THEN 1 ELSE 0

Compute(op, a, b) ==
    CASE op = "NEG" -> Wrap(-a)
      [] op = "ODD" -> a % 2
      [] op = "ADD" -> Wrap(a + b)
      [] op = "SUB" -> Wrap(a - b)
      [] op = "MUL" -> Wrap(a * b)
      [] op = "DIV" -> Quotient(a, b)
      [] op = "MOD" -> a - b * Quotient(a, b)
      [] op = "EQL" -> Truth(a = b)
      [] op = "NEQ" -> Truth(a # b)
      [] op = "LSS" -> Truth(a < b)
      [] op = "LEQ" -> Truth(a <= b)
      [] op = "GTR" -> Truth(a > b)
      [] op = "GEQ" -> Truth(a >= b)

=============================================================================
