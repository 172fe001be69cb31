--------------------------- MODULE Machine_proofs ---------------------------
(***************************************************************************)
(* Every program, one written by hand included, keeps the machine in its   *)
(* types: whatever the code does to the registers, the stack holds words   *)
(* and no index outside it is read or written.                             *)
(***************************************************************************)
EXTENDS Machine, TLAPS

-----------------------------------------------------------------------------
(* Words.                                                                  *)

LEMMA Wraps == ASSUME NEW n \in Int PROVE Wrap(n) \in Word
<1> DEFINE width == WordMax - WordMin + 1
           m == n - WordMin
<1>1. width \in Nat \ {0} /\ m \in Int /\ WordMin \in Int /\ WordMax \in Int
  BY MachineAssumption DEF WordMin
<1>2. m % width \in 0 .. width - 1
  <2> HIDE DEF width, m
  <2> QED BY <1>1
<1>3. WordMin + (m % width) \in WordMin .. WordMax
  <2>1. \A r \in 0 .. width - 1 : WordMin + r \in WordMin .. WordMax
    BY <1>1
  <2> HIDE DEF width, m
  <2> QED BY <1>2, <2>1
<1> QED BY <1>3 DEF Wrap, Word

\* The quotient and the remainder of naturals.
LEMMA Division == ASSUME NEW n \in Nat, NEW d \in Nat \ {0}
                  PROVE  /\ n \div d \in Nat
                         /\ d * (n \div d) <= n
                         /\ n < d * (n \div d) + d
BY SMTT(30)

LEMMA QuotientBound ==
    ASSUME NEW n \in Nat, NEW d \in Nat, d >= 2
    PROVE  2 * (n \div d) <= n
<1>1. n \div d \in Nat /\ d * (n \div d) <= n
  BY Division
<1>2. \A q \in Nat : 2 * q <= d * q
  BY SMTT(30)
<1> QED BY <1>1, <1>2

LEMMA WordAbs == ASSUME NEW a \in Word PROVE Abs(a) \in Nat /\ Abs(a) <= WordMax + 1
BY MachineAssumption DEF Word, WordMin, Abs

\* The quotient of two words is a word, but for the one that execALU refuses.
LEMMA QuotientIsWord ==
    ASSUME NEW a \in Word, NEW b \in Word, b # 0, ~(a = WordMin /\ b = -1)
    PROVE  Quotient(a, b) \in Word
<1> DEFINE q == Abs(a) \div Abs(b)
<1>1. Abs(a) \in Nat /\ Abs(a) <= WordMax + 1 /\ Abs(b) \in Nat \ {0}
  BY WordAbs, MachineAssumption DEF Word, WordMin, Abs
<1>2. q \in Nat
  BY <1>1, Division
<1>3. CASE Abs(b) = 1
  <2>1. q = Abs(a)
    BY <1>1, <1>3, <1>2, Division
  <2>2. \/ (a < 0) = (b < 0) /\ Abs(a) <= WordMax
        \/ (a < 0) # (b < 0)
    BY <1>3, MachineAssumption DEF Word, WordMin, Abs
  <2>3. Abs(a) \in Word \/ (a < 0) # (b < 0)
    BY <1>1, <2>2, MachineAssumption DEF Word, WordMin
  <2>4. -Abs(a) \in Word
    BY <1>1, MachineAssumption DEF Word, WordMin
  <2> QED BY <2>1, <2>3, <2>4 DEF Quotient
<1>4. CASE Abs(b) >= 2
  <2>1. 2 * q <= WordMax + 1
    <3>1. 2 * q <= Abs(a)
      BY <1>1, <1>4, QuotientBound
    <3> QED BY <1>1, <1>2, <3>1, MachineAssumption
  <2>2. q \in Word /\ -q \in Word
    <3> HIDE DEF q
    <3> QED BY <1>2, <2>1, MachineAssumption DEF Word, WordMin
  <2> QED BY <2>2 DEF Quotient
<1> QED BY <1>1, <1>3, <1>4

\* The remainder lies between 0 and the dividend.
LEMMA RemainderIsWord ==
    ASSUME NEW a \in Word, NEW b \in Word, b # 0
    PROVE  a - b * Quotient(a, b) \in Word
<1> DEFINE q == Abs(a) \div Abs(b)
           rest == Abs(a) - Abs(b) * q
<1>1. a \in Int /\ b \in Int /\ Abs(a) \in Nat /\ Abs(b) \in Nat \ {0}
  BY WordAbs, MachineAssumption DEF Word, WordMin, Abs
<1>2. q \in Nat /\ rest \in 0 .. Abs(a)
  <2>1. q \in Nat /\ Abs(b) * q <= Abs(a)
    BY <1>1, Division
  <2>2. Abs(b) * q \in Nat
    <3> HIDE DEF q
    <3> QED BY <1>1, <2>1
  <2> QED BY <1>1, <2>1, <2>2
<1>3. b * Quotient(a, b) = IF a < 0 THEN -(Abs(b) * q) ELSE Abs(b) * q
  <2>1. Quotient(a, b) = IF (a < 0) = (b < 0) THEN q ELSE -q
    BY DEF Quotient
  <2>2. \A k \in Nat : b * k = (IF b < 0 THEN -(Abs(b) * k) ELSE Abs(b) * k)
                      /\ b * (-k) = (IF b < 0 THEN Abs(b) * k ELSE -(Abs(b) * k))
    BY <1>1 DEF Abs
  <2> HIDE DEF q
  <2> QED BY <1>1, <1>2, <2>1, <2>2
<1>4. a - b * Quotient(a, b) = IF a < 0 THEN -rest ELSE rest
  <2>1. Abs(b) * q \in Int
    <3> HIDE DEF q
    <3> QED BY <1>1, <1>2
  <2>2. a = IF a < 0 THEN -Abs(a) ELSE Abs(a)
    BY <1>1 DEF Abs
  <2> DEFINE bq == Abs(b) * q
  <2>3. \/ a < 0 /\ a - b * Quotient(a, b) = -Abs(a) + bq
        \/ ~(a < 0) /\ a - b * Quotient(a, b) = Abs(a) - bq
    <3> HIDE DEF q
    <3> QED BY <1>1, <1>3, <2>1, <2>2
  <2>4. rest = Abs(a) - bq
    OBVIOUS
  <2> HIDE DEF bq, rest
  <2> QED BY <1>1, <2>1, <2>3, <2>4 DEF bq
<1> HIDE DEF q, rest
<1>5. CASE a < 0
  BY <1>1, <1>2, <1>4, <1>5, MachineAssumption DEF Word, WordMin, Abs
<1>6. CASE ~(a < 0)
  BY <1>1, <1>2, <1>4, <1>6, MachineAssumption DEF Word, WordMin, Abs
<1> QED BY <1>5, <1>6

\* What the ALU computes is a word.
LEMMA ComputesWords ==
    ASSUME NEW op \in Unary \cup Binary, NEW a \in Word, NEW b \in Word,
           op \in Binary => Defined(op, a, b)
    PROVE  Compute(op, a, b) \in Word
<1>1. a \in Int /\ b \in Int /\ {0, 1} \subseteq Word
  BY MachineAssumption DEF Word, WordMin
<1>2. CASE op \in {"NEG", "ADD", "SUB", "MUL"}
  <2>1. Wrap(-a) \in Word /\ Wrap(a + b) \in Word /\ Wrap(a - b) \in Word
    BY <1>1, Wraps
  <2>2. Wrap(a * b) \in Word
    <3>1. a * b \in Int
      BY <1>1
    <3> QED BY <3>1, Wraps
  <2> QED BY <1>2, <2>1, <2>2 DEF Compute
<1>3. CASE op = "ODD"
  <2>1. a % 2 \in {0, 1}
    BY <1>1
  <2> QED BY <1>1, <1>3, <2>1 DEF Compute
<1>4. CASE op = "DIV"
  <2>1. Quotient(a, b) \in Word
    BY <1>4, QuotientIsWord DEF Binary, Defined
  <2> QED BY <1>4, <2>1 DEF Compute
<1>5. CASE op = "MOD"
  <2>1. a - b * Quotient(a, b) \in Word
    BY <1>5, RemainderIsWord DEF Binary, Defined
  <2> QED BY <1>5, <2>1 DEF Compute
<1>6. CASE op \in {"EQL", "NEQ", "LSS", "LEQ", "GTR", "GEQ"}
  <2>1. /\ Truth(a = b) \in Word /\ Truth(a # b) \in Word /\ Truth(a < b) \in Word
        /\ Truth(a <= b) \in Word /\ Truth(a > b) \in Word /\ Truth(a >= b) \in Word
    BY <1>1 DEF Truth
  <2> QED BY <1>6, <2>1 DEF Compute
<1> QED BY <1>2, <1>3, <1>4, <1>5, <1>6 DEF Unary, Binary
-----------------------------------------------------------------------------
(* The types.                                                              *)

LEMMA StackIndex == ASSUME NEW i, InStack(i)
                    PROVE  i \in 0 .. StackHeight - 1 /\ i \in Word /\ i + 1 \in Word /\ i - 1 \in Word
BY MachineAssumption DEF InStack, Word, WordMin

\* The instruction at pc, and the address after it.
LEMMA InsnType == ASSUME TypeOK, InCode(pc) PROVE insn \in Insn /\ pc + 1 \in Word
<1>1. PICK n \in 0 .. WordMax : Code \in [0 .. n - 1 -> Insn]
  BY DEF TypeOK, IsProgram, Code
<1>2. pc \in 0 .. n - 1
  BY <1>1 DEF InCode
<1> QED BY <1>1, <1>2, MachineAssumption DEF insn, Word, WordMin

LEMMA InitTypeOK == Init => TypeOK
<1> SUFFICES ASSUME Init PROVE TypeOK
  OBVIOUS
<1>1. 0 \in Word /\ 1 \in Word
  BY MachineAssumption DEF Word, WordMin
<1> QED BY <1>1, ProgramAssumption DEF Init, Loaded, TypeOK

\* A step that goes on to the next instruction, and one that fails.
LEMMA ContinueTypeOK ==
    ASSUME TypeOK, InCode(pc), NEW s \in [0 .. StackHeight - 1 -> Word], NEW n \in Word,
           Continue(s, n)
    PROVE  TypeOK'
BY InsnType DEF Continue, traceVars, TypeOK

LEMMA FailTypeOK ==
    ASSUME TypeOK, NEW s \in [0 .. StackHeight - 1 -> Word], NEW n \in Int, NEW p \in Word,
           Fail(s, n, p)
    PROVE  TypeOK'
BY Wraps DEF Fail, traceVars, TypeOK

LEMMA PushTypeOK == ASSUME TypeOK, InCode(pc), NEW w \in Word, Push(w) PROVE TypeOK'
<1>0. sp \in Int /\ sp + 1 \in Int /\ pc \in Word /\ stack \in [0 .. StackHeight - 1 -> Word]
  BY MachineAssumption DEF TypeOK, Word, WordMin
<1>1. CASE InStack(sp + 1) /\ Continue([stack EXCEPT ![sp + 1] = w], sp + 1)
  <2>1. [stack EXCEPT ![sp + 1] = w] \in [0 .. StackHeight - 1 -> Word] /\ sp + 1 \in Word
    BY <1>0, <1>1, StackIndex
  <2> QED BY <1>1, <2>1, ContinueTypeOK
<1>2. CASE Fail(stack, sp + 1, pc)
  BY <1>0, <1>2, FailTypeOK
<1> QED BY <1>1, <1>2 DEF Push

\* One step per instruction.
LEMMA NextTypeOK == ASSUME TypeOK, [Next]_vars PROVE TypeOK'
<1>0. /\ sp \in Word /\ bp \in Word /\ pc \in Word /\ framecount \in Word
      /\ stack \in [0 .. StackHeight - 1 -> Word]
  BY DEF TypeOK
<1>1. /\ \A w \in Word : w \in Int /\ w + 1 \in Int /\ w - 1 \in Int
      /\ 0 \in Word /\ 1 \in Word
      /\ sp \in Int /\ sp + 1 \in Int /\ sp - 1 \in Int /\ bp \in Int /\ bp - 1 \in Int
  BY <1>0, MachineAssumption DEF Word, WordMin
<1>2. ASSUME NEW op, Execute(op) PROVE InCode(pc) /\ insn \in Insn /\ insn.op = op
  BY <1>2, InsnType DEF Execute
<1>3. \A i : InStack(i) => stack[i] \in Word /\ stack[i] \in Int
  BY <1>0, <1>1 DEF InStack
<1>4. CASE FetchOutside \/ Illegal
  BY <1>0, <1>1, <1>4, FailTypeOK DEF FetchOutside, Illegal
<1>5. CASE Lit
  BY <1>2, <1>5, PushTypeOK DEF Lit, Insn
<1>6. CASE Lod
  <2>1. InCode(pc)
    BY <1>2, <1>6 DEF Lod
  <2>2. CASE InStack(Slot) /\ Push(stack[Slot])
    BY <1>3, <2>1, <2>2, PushTypeOK
  <2>3. CASE \E s \in {sp, sp + 1} : Fail(stack, s, pc)
    BY <1>0, <1>1, <2>3, FailTypeOK
  <2> QED BY <1>6, <2>2, <2>3 DEF Lod
<1>7. CASE Sto
  <2>1. InCode(pc)
    BY <1>2, <1>7 DEF Sto
  <2>2. CASE InStack(Slot) /\ InStack(sp) /\ Continue([stack EXCEPT ![Slot] = stack[sp]], sp - 1)
    <3>1. [stack EXCEPT ![Slot] = stack[sp]] \in [0 .. StackHeight - 1 -> Word]
      BY <1>0, <1>3, <2>2
    <3>2. sp - 1 \in Word
      BY <2>2, StackIndex
    <3> QED BY <2>1, <2>2, <3>1, <3>2, ContinueTypeOK
  <2>3. CASE \E s \in {sp, sp - 1} : Fail(stack, s, pc)
    BY <1>0, <1>1, <2>3, FailTypeOK
  <2> QED BY <1>7, <2>2, <2>3 DEF Sto
<1>8. CASE Inc
  <2>1. sp + insn.imm \in Int
    BY <1>1, <1>2, <1>8 DEF Inc, Insn
  <2> QED BY <1>0, <1>2, <1>8, <2>1, Wraps, ContinueTypeOK DEF Inc
<1>9. CASE Jmp
  <2>1. insn.imm \in Word
    BY <1>2, <1>9 DEF Jmp, Insn
  <2> QED BY <1>9, <2>1 DEF Jmp, TypeOK
<1>10. CASE Jpc
  <2>1. insn.imm \in Word /\ pc + 1 \in Word
    BY <1>2, <1>10, InsnType DEF Jpc, Insn
  <2>2. CASE Fail(stack, sp, pc)
    BY <1>0, <1>1, <2>2, FailTypeOK
  <2>3. CASE ~Fail(stack, sp, pc)
    <3>1. sp - 1 \in Word
      BY <1>10, <2>3, StackIndex DEF Jpc
    <3> QED BY <1>10, <2>1, <2>3, <3>1 DEF Jpc, traceVars, TypeOK
  <2> QED BY <2>2, <2>3
<1>11. CASE Cal
  <2>1. insn.imm \in Word
    BY <1>2, <1>11 DEF Cal, Insn
  <2>2. WithLinks \in [0 .. StackHeight - 1 -> Word]
    <3>1. \A j \in Written : Linked[j] \in Word
      BY DEF Written
    <3>2. DOMAIN stack = 0 .. StackHeight - 1
      BY <1>0
    <3>3. \A i \in DOMAIN stack : WithLinks[i] \in Word
      BY <1>0, <3>1 DEF WithLinks
    <3> QED BY <3>2, <3>3 DEF WithLinks
  <2>3. CASE Fail(WithLinks, sp, pc)
    BY <1>0, <1>1, <2>2, <2>3, FailTypeOK
  <2>4. CASE status' = "undefined" /\ UNCHANGED <<program, cpuVars, traceVars>>
    BY <2>4 DEF cpuVars, traceVars, TypeOK
  <2>5. CASE /\ Written = 1 .. 4 /\ FrameFits
             /\ stack' = WithLinks
             /\ bp' = sp + 1
             /\ pc' = insn.imm
             /\ frames' = [frames EXCEPT ![framecount] = sp + 1]
             /\ framecount' = framecount + 1
             /\ UNCHANGED <<program, sp, status>>
    <3>1. 1 \in Written
      BY <2>5
    <3>2. InStack(sp + 1)
      BY <3>1 DEF Written
    <3>3. sp + 1 \in Word
      BY <3>2, StackIndex
    <3>4. framecount + 1 \in Word
      BY <2>5, MachineAssumption DEF FrameFits, Word, WordMin
    <3> QED BY <2>1, <2>2, <2>5, <3>3, <3>4 DEF TypeOK
  <2> QED BY <1>11, <2>3, <2>4, <2>5 DEF Cal
<1>12. CASE Ret
  <2>1. CASE Fail(stack, bp - 1, pc)
    BY <1>0, <1>1, <2>1, FailTypeOK
  <2>2. CASE InStack(bp + 3) /\ Fail(stack, bp - 1, Wrap(stack[bp + 3] - 1))
    <3>1. Wrap(stack[bp + 3] - 1) \in Word
      BY <1>1, <1>3, <2>2, Wraps
    <3> QED BY <1>0, <1>1, <2>2, <3>1, FailTypeOK
  <2>3. CASE /\ InStack(bp + 3) /\ InStack(bp + 2)
             /\ sp' = bp - 1
             /\ pc' = stack[bp + 3]
             /\ bp' = stack[bp + 2]
             /\ framecount' = Wrap(framecount - 1)
             /\ UNCHANGED <<program, stack, frames, status>>
    <3>1. bp - 1 \in Word
      BY <1>0, <2>3, MachineAssumption DEF InStack, Word, WordMin
    <3>2. framecount' \in Word
      BY <1>0, <1>1, <2>3, Wraps
    <3> QED BY <1>3, <2>3, <3>1, <3>2 DEF TypeOK
  <2> QED BY <1>12, <2>1, <2>2, <2>3 DEF Ret
<1>13. CASE UnaryOp
  <2>1. insn.op \in Unary /\ InCode(pc)
    BY <1>2, <1>13 DEF UnaryOp
  <2>2. CASE Fail(stack, sp, pc)
    BY <1>0, <1>1, <2>2, FailTypeOK
  <2>3. CASE /\ InStack(sp)
             /\ Continue([stack EXCEPT ![sp] = Compute(insn.op, stack[sp], 0)], sp)
    <3>1. Compute(insn.op, stack[sp], 0) \in Word
      BY <1>1, <1>3, <2>1, <2>3, ComputesWords DEF Unary, Binary
    <3>2. [stack EXCEPT ![sp] = Compute(insn.op, stack[sp], 0)] \in [0 .. StackHeight - 1 -> Word]
      BY <1>0, <3>1
    <3> QED BY <1>0, <2>1, <2>3, <3>2, ContinueTypeOK
  <2> QED BY <1>13, <2>2, <2>3 DEF UnaryOp
<1>14. CASE BinaryOp
  <2>1. insn.op \in Binary /\ InCode(pc)
    BY <1>2, <1>14 DEF BinaryOp
  <2>2. CASE Fail(stack, sp - 1, pc)
    BY <1>0, <1>1, <2>2, FailTypeOK
  <2> DEFINE result == Compute(insn.op, stack[sp - 1], stack[sp])
  <2>3. CASE Operands /\ Continue([stack EXCEPT ![sp - 1] = result], sp - 1)
    <3>1. stack[sp - 1] \in Word /\ stack[sp] \in Word /\ sp - 1 \in Word
      BY <1>3, <2>3, StackIndex DEF Operands
    <3>2. result \in Word
      BY <2>1, <2>3, <3>1, ComputesWords DEF Operands
    <3>3. [stack EXCEPT ![sp - 1] = result] \in [0 .. StackHeight - 1 -> Word]
      <4> HIDE DEF result
      <4> QED BY <1>0, <3>2
    <3> HIDE DEF result
    <3> QED BY <2>1, <2>3, <3>1, <3>3, ContinueTypeOK
  <2> QED BY <1>14, <2>2, <2>3 DEF BinaryOp
<1>15. CASE Write
  <2>1. CASE Fail(stack, sp, pc)
    BY <1>0, <1>1, <2>1, FailTypeOK
  <2>2. CASE InStack(sp) /\ Continue(stack, sp - 1)
    BY <1>0, <1>2, <1>15, <2>2, StackIndex, ContinueTypeOK DEF Write
  <2> QED BY <1>15, <2>1, <2>2 DEF Write
<1>16. CASE Read
  BY <1>2, <1>16, PushTypeOK, MachineAssumption DEF Read
<1>17. CASE Halt
  BY <1>1, <1>17 DEF Halt, TypeOK
<1>18. CASE UNCHANGED vars
  BY <1>18 DEF vars, cpuVars, traceVars, TypeOK
<1> QED BY <1>4, <1>5, <1>6, <1>7, <1>8, <1>9, <1>10, <1>11, <1>12, <1>13, <1>14, <1>15,
           <1>16, <1>17, <1>18 DEF Next, Terminated

\* Whatever the program, the registers hold words and the stack is a stack of words.
THEOREM TypeCorrect == Spec => []TypeOK
BY InitTypeOK, NextTypeOK, PTL DEF Spec

-----------------------------------------------------------------------------
(* The refinement of ControlFlow.                                          *)

\* The program as ControlFlow has it.
Kinds == [a \in DOMAIN Code |-> [op |-> Kind(Code[a].op), imm |-> Code[a].imm]]

LEMMA MovesStep ==
    ASSUME InCode(pc), UNCHANGED program,
           CF!Moves([op |-> Kind(insn.op), imm |-> insn.imm], pc, pc')
    PROVE  CF!Step
<1>1. pc \in DOMAIN Kinds /\ Kinds[pc] = [op |-> Kind(insn.op), imm |-> insn.imm]
  BY DEF InCode, Code, insn, Kinds
<1>2. Kinds[pc].op # "break"
  BY <1>1 DEF CF!Moves
<1>3. Kinds[pc] \in CF!StandsFor(pc)
  BY <1>2 DEF CF!StandsFor, Kinds
<1> QED BY <1>1, <1>3 DEF CF!Step, Kinds, Code

\* An instruction that goes on to the next one, and one that fails.
LEMMA ContinueStep ==
    ASSUME NEW op, Execute(op), Kind(op) \in {"seq", "read"}, NEW s, NEW n, Continue(s, n)
    PROVE  CF!Step
<1>1. CF!Moves([op |-> Kind(insn.op), imm |-> insn.imm], pc, pc')
  BY DEF Execute, Continue, CF!Moves
<1> QED BY <1>1, MovesStep DEF Execute, Continue

LEMMA FailStutters == ASSUME NEW s, NEW n, Fail(s, n, pc) PROVE UNCHANGED <<Kinds, pc>>
BY DEF Fail, Kinds, Code

LEMMA StepRefines == ASSUME TypeOK, [Next]_vars PROVE CF!Step \/ UNCHANGED <<Kinds, pc>>
<1>1. CASE FetchOutside \/ Illegal
  BY <1>1, FailStutters DEF FetchOutside, Illegal
<1>2. CASE Lit
  BY <1>2, ContinueStep, FailStutters DEF Lit, Push, Kind
<1>3. CASE Read
  BY <1>3, ContinueStep, FailStutters DEF Read, Push, Kind
<1>4. CASE Lod
  BY <1>4, ContinueStep, FailStutters DEF Lod, Push, Kind
<1>5. CASE Sto
  BY <1>5, ContinueStep, FailStutters DEF Sto, Kind
<1>6. CASE Inc
  BY <1>6, ContinueStep DEF Inc, Kind
<1>7. CASE Write
  BY <1>7, ContinueStep, FailStutters DEF Write, Kind
<1>8. CASE UnaryOp
  <2>1. PICK op \in Unary : Execute(op)
    BY <1>8 DEF UnaryOp
  <2>2. Kind(op) = "seq"
    BY <2>1 DEF Unary, Kind
  <2> QED BY <1>8, <2>1, <2>2, ContinueStep, FailStutters DEF UnaryOp
<1>9. CASE BinaryOp
  <2>1. PICK op \in Binary : Execute(op)
    BY <1>9 DEF BinaryOp
  <2>2. Kind(op) = "seq"
    BY <2>1 DEF Binary, Kind
  <2>3. CASE Fail(stack, sp - 1, pc)
    BY <2>3, FailStutters
  <2>4. ASSUME NEW s, NEW n, Continue(s, n) PROVE CF!Step
    BY <2>1, <2>2, <2>4, ContinueStep
  <2> QED BY <1>9, <2>3, <2>4 DEF BinaryOp
<1>10. CASE Jmp
  <2>1. CF!Moves([op |-> Kind(insn.op), imm |-> insn.imm], pc, pc')
    BY <1>10 DEF Jmp, Execute, Kind, CF!Moves
  <2> QED BY <1>10, <2>1, MovesStep DEF Jmp, Execute
<1>11. CASE Jpc
  <2>1. CASE Fail(stack, sp, pc)
    BY <2>1, FailStutters
  <2>2. CASE ~Fail(stack, sp, pc)
    <3>1. CF!Moves([op |-> Kind(insn.op), imm |-> insn.imm], pc, pc')
      BY <1>11, <2>2 DEF Jpc, Execute, Kind, CF!Moves
    <3> QED BY <1>11, <2>2, <3>1, MovesStep DEF Jpc, Execute
  <2> QED BY <2>1, <2>2
<1>12. CASE Cal
  <2>1. CASE pc' = insn.imm /\ UNCHANGED program
    <3>1. CF!Moves([op |-> Kind(insn.op), imm |-> insn.imm], pc, pc')
      BY <1>12, <2>1 DEF Cal, Execute, Kind, CF!Moves
    <3> QED BY <1>12, <2>1, <3>1, MovesStep DEF Cal, Execute
  <2>2. CASE UNCHANGED <<program, cpuVars, traceVars>>
    BY <2>2 DEF cpuVars, Kinds, Code
  <2>3. CASE Fail(WithLinks, sp, pc)
    BY <2>3, FailStutters
  <2> QED BY <1>12, <2>1, <2>2, <2>3 DEF Cal
<1>13. CASE Ret
  <2>1. CASE pc' \in Word /\ UNCHANGED program
    <3>1. CF!Moves([op |-> Kind(insn.op), imm |-> insn.imm], pc, pc')
      BY <1>13, <2>1 DEF Ret, Execute, Kind, CF!Moves
    <3> QED BY <1>13, <2>1, <3>1, MovesStep DEF Ret, Execute
  <2>2. CASE Fail(stack, bp - 1, pc)
    BY <2>2, FailStutters
  <2>3. pc' \in Word
    BY <1>13, NextTypeOK DEF Next, TypeOK
  <2> QED BY <1>13, <2>1, <2>2, <2>3 DEF Ret, Fail
<1>14. CASE Halt
  <2>1. CF!Moves([op |-> Kind(insn.op), imm |-> insn.imm], pc, pc')
    BY <1>14 DEF Halt, Execute, Kind, CF!Moves
  <2> QED BY <1>14, <2>1, MovesStep DEF Halt, Execute
<1>15. CASE UNCHANGED vars
  BY <1>15 DEF vars, cpuVars, Kinds, Code
<1> QED BY <1>1, <1>2, <1>3, <1>4, <1>5, <1>6, <1>7, <1>8, <1>9, <1>10, <1>11, <1>12, <1>13,
           <1>14, <1>15 DEF Next, Terminated

\* The machine implements ControlFlow, for every program: this is what Debugger, which
\* has no stack, takes an instruction to do to the program counter.
THEOREM RunsTheProgramCorrect == Spec => RunsTheProgram
<1>1. Init => CF!Init
  BY DEF Init, Loaded, CF!Init
<1>2. TypeOK /\ [Next]_vars => [CF!Step]_<<Kinds, pc>>
  BY StepRefines
<1>3. Spec => []TypeOK
  BY TypeCorrect
<1> QED BY <1>1, <1>2, <1>3, PTL DEF Spec, RunsTheProgram, CF!Spec, Kinds

=============================================================================
