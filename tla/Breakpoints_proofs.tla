------------------------- MODULE Breakpoints_proofs -------------------------
(***************************************************************************)
(* Proofs about the breakpoint table, for every program, every code length *)
(* and every bound on the table.  BpInv is inductive: the saved            *)
(* instructions are the program's, and a BREAK in the code names an        *)
(* enabled breakpoint of its own address.                                  *)
(***************************************************************************)
EXTENDS Breakpoints, WellFoundedInduction, SequenceTheorems, TLAPS

BpInv == BpTypeOK /\ OrigsAreProgram /\ BreaksResolve

-----------------------------------------------------------------------------
\* A word of the program is an instruction or a BREAK of its own, and an instruction is no
\* BREAK (its opcode is in Ops).
LEMMA ProgramInsn == \A a \in Addr : /\ Program[a] \in Insn \cup BreakInsn
                                     /\ IsBreak(Program[a]) \/ Program[a] \in Insn
  BY CodeAssumption DEF BreakInsn, IsBreak
LEMMA InsnIsNoBreak == \A insn \in Insn : ~IsBreak(insn)
  BY DEF Insn, Ops, IsBreak

\* A BREAK is recognised and carries its number.
LEMMA BreakIsBreak == \A id : IsBreak(Break(id)) /\ Break(id).imm = id
  BY DEF IsBreak, Break

\* What the table's type says of one entry.
LEMMA TableEntries == BpInv => /\ Len(bps) \in Nat
                               /\ \A i \in 1 .. Len(bps) : /\ bps[i] \in Breakpoint
                                                          /\ bps[i].addr \in Addr
                                                          /\ bps[i].orig \in Insn
<1> SUFFICES ASSUME BpInv PROVE /\ Len(bps) \in Nat
                                /\ \A i \in 1 .. Len(bps) : bps[i] \in Breakpoint
  BY DEF Breakpoint
<1>1. bps \in Seq(Breakpoint)
  BY DEF BpInv, BpTypeOK
<1> QED BY <1>1

SetFlag(s, n, e) == [s EXCEPT ![n].enabled = e]

\* Setting one entry's enabled flag leaves everything else in the table alone.
LEMMA SetEnabled ==
    ASSUME NEW s \in Seq(Breakpoint), NEW n \in 1 .. Len(s), NEW e \in BOOLEAN,
           NEW t, t = SetFlag(s, n, e)
    PROVE  /\ t \in Seq(Breakpoint)
           /\ Len(t) = Len(s)
           /\ t[n].enabled = e
           /\ \A i \in 1 .. Len(s) : /\ t[i].addr = s[i].addr
                                     /\ t[i].orig = s[i].orig
                                     /\ i # n => t[i] = s[i]
<1> DEFINE r == [s[n] EXCEPT !.enabled = e]
<1>1. s[n] \in Breakpoint
  OBVIOUS
<1>2. r \in Breakpoint /\ r.addr = s[n].addr /\ r.orig = s[n].orig /\ r.enabled = e
  BY <1>1 DEF Breakpoint
<1>3. t = [s EXCEPT ![n] = r]
  BY DEF SetFlag
<1> HIDE DEF r
<1>4. /\ t \in Seq(Breakpoint)
      /\ Len(t) = Len(s)
      /\ \A i \in 1 .. Len(s) : t[i] = IF i = n THEN r ELSE s[i]
  BY <1>2, <1>3, ExceptSeq
<1> QED BY <1>2, <1>4

\* A nonempty set of positions has a last one.
LEMMA LastExists ==
    ASSUME NEW n \in Nat, NEW S, S \subseteq 1 .. n, S # {}
    PROVE  \E i \in S : \A j \in S : j <= i
<1> DEFINE T == {n - i : i \in S}
           R == OpToRel(<, Nat)
<1>0. \A i \in S : i \in Int /\ n - i \in Nat
  OBVIOUS
<1>1. T \subseteq Nat /\ T # {}
  BY <1>0
<1>2. IsWellFoundedOn(R, Nat)
  BY NatLessThanWellFounded
<1>3. PICK x \in T : \A y \in T : ~(<<y, x>> \in R)
  <2> HIDE DEF T, R
  <2> QED BY <1>1, <1>2, WFMin
<1>4. \A y \in T : ~(y < x)
  BY <1>1, <1>3 DEF OpToRel
<1>5. PICK i \in S : x = n - i
  OBVIOUS
<1>6. ASSUME NEW j \in S PROVE j <= i
  <2>1. ~(n - j < n - i)
    BY <1>4, <1>5
  <2>2. i \in Int /\ j \in Int
    BY <1>0
  <2> HIDE DEF T, R
  <2> QED BY <2>1, <2>2
<1> QED BY <1>6

\* The loaded program, with no breakpoints, satisfies the invariant.
LEMMA BpInitInv == BpInit => BpInv
  BY CodeAssumption DEF BpInit, BpInv, BpTypeOK, OrigsAreProgram, BreaksResolve

\* Adding a breakpoint keeps the invariant: it only ever saves an instruction of
\* the program, because an address that holds a BREAK is refused, whosever it is.
LEMMA AddInv == ASSUME BpInv, NEW addr, addBreakpoint(addr) PROVE BpInv'
<1>1. CASE UNCHANGED bpVars
  BY <1>1 DEF BpInv, BpTypeOK, OrigsAreProgram, BreaksResolve, bpVars
<1>2. CASE /\ addr \in Addr
           /\ ~IsBreak(code[addr])
           /\ bps' = Append(bps, [addr |-> addr, orig |-> code[addr], enabled |-> TRUE])
           /\ code' = [code EXCEPT ![addr] = Break(Len(bps))]
  <2> DEFINE new == [addr |-> addr, orig |-> code[addr], enabled |-> TRUE]
  <2>1. code[addr] = Program[addr]
    BY <1>2, BreakIsBreak DEF BpInv, BreaksResolve
  <2>2. new \in Breakpoint
    BY <1>2, <2>1, ProgramInsn DEF Breakpoint
  <2>3. Len(bps) \in Nat /\ bps \in Seq(Breakpoint) /\ code \in [Addr -> Insn \cup BreakInsn]
    BY DEF BpInv, BpTypeOK
  <2>4. Break(Len(bps)) \in BreakInsn
    BY <2>3 DEF Break, BreakInsn
  <2>5. /\ bps' \in Seq(Breakpoint)
        /\ Len(bps') = Len(bps) + 1
        /\ \A i \in 1 .. Len(bps) : bps'[i] = bps[i]
        /\ bps'[Len(bps) + 1] = new
    BY <1>2, <2>2, <2>3
  <2>6. BpTypeOK'
    BY <1>2, <2>3, <2>4, <2>5 DEF BpTypeOK
  <2>7. OrigsAreProgram'
    BY <2>1, <2>3, <2>5 DEF BpInv, OrigsAreProgram
  <2>8. BreaksResolve'
    <3> SUFFICES ASSUME NEW a \in Addr
                 PROVE  \/ code'[a] = Program[a]
                        \/ \E i \in 1 .. Len(bps') : /\ code'[a] = Break(i - 1)
                                                     /\ bps'[i].addr = a
                                                     /\ bps'[i].enabled
      BY DEF BreaksResolve
    <3>1. CASE a = addr
      <4>1. code'[a] = Break(Len(bps) + 1 - 1)
        BY <1>2, <2>3, <3>1
      <4> QED BY <4>1, <3>1, <2>3, <2>5
    <3>2. CASE a # addr
      <4>1. code'[a] = code[a]
        BY <1>2, <2>3, <3>2
      <4> QED BY <4>1, <2>3, <2>5 DEF BpInv, BreaksResolve
    <3> QED BY <3>1, <3>2
  <2> QED BY <2>6, <2>7, <2>8 DEF BpInv
<1> QED BY <1>1, <1>2 DEF addBreakpoint

\* Disabling puts back an instruction of the program.
LEMMA DisableInv == ASSUME BpInv, NEW id \in Int, disableBreakpoint(id) PROVE BpInv'
<1>1. CASE UNCHANGED bpVars
  BY <1>1 DEF BpInv, BpTypeOK, OrigsAreProgram, BreaksResolve, bpVars
<1>2. CASE /\ breakpointExists(id)
           /\ Bp(id).enabled
           /\ code' = [code EXCEPT ![Bp(id).addr] = Bp(id).orig]
           /\ bps' = [bps EXCEPT ![id + 1].enabled = FALSE]
  <2>1. /\ Len(bps) \in Nat /\ bps \in Seq(Breakpoint)
        /\ code \in [Addr -> Insn \cup BreakInsn]
        /\ id + 1 \in 1 .. Len(bps)
        /\ bps[id + 1] \in Breakpoint
    BY <1>2, TableEntries DEF BpInv, BpTypeOK, breakpointExists
  <2>2. /\ bps[id + 1].addr \in Addr
        /\ bps[id + 1].orig \in Insn
        /\ bps[id + 1].orig = Program[bps[id + 1].addr]
    BY <2>1 DEF Breakpoint, BpInv, OrigsAreProgram
  <2> DEFINE e == FALSE
  <2>0. e \in BOOLEAN /\ bps' = SetFlag(bps, id + 1, e)
    BY <1>2 DEF SetFlag
  <2> HIDE DEF e
  <2>3. /\ bps' \in Seq(Breakpoint)
        /\ Len(bps') = Len(bps)
        /\ \A i \in 1 .. Len(bps) : /\ bps'[i].addr = bps[i].addr
                                    /\ bps'[i].orig = bps[i].orig
                                    /\ i # id + 1 => bps'[i] = bps[i]
    <3>1. bps \in Seq(Breakpoint) /\ id + 1 \in 1 .. Len(bps)
      BY <2>1
    <3> QED BY <2>0, <3>1, SetEnabled
  <2>4. BpTypeOK'
    BY <1>2, <2>1, <2>2, <2>3 DEF BpTypeOK, Bp
  <2>5. OrigsAreProgram'
    BY <2>1, <2>3 DEF BpInv, OrigsAreProgram
  <2>6. BreaksResolve'
    <3> SUFFICES ASSUME NEW a \in Addr, code'[a] # Program[a]
                 PROVE  \E i \in 1 .. Len(bps') : /\ code'[a] = Break(i - 1)
                                                  /\ bps'[i].addr = a
                                                  /\ bps'[i].enabled
      BY DEF BreaksResolve
    <3>1. a # bps[id + 1].addr /\ code'[a] = code[a]
      BY <1>2, <2>1, <2>2 DEF Bp
    <3>2. PICK i \in 1 .. Len(bps) : code[a] = Break(i - 1) /\ bps[i].addr = a /\ bps[i].enabled
      BY <3>1 DEF BpInv, BreaksResolve
    <3>3. i # id + 1
      BY <3>1, <3>2
    <3> QED BY <2>3, <3>1, <3>2, <3>3
  <2> QED BY <2>4, <2>5, <2>6 DEF BpInv
<1> QED BY <1>1, <1>2 DEF disableBreakpoint

\* Enabling plants the breakpoint's own number at its own address.
LEMMA EnableInv == ASSUME BpInv, NEW id \in Int, enableBreakpoint(id) PROVE BpInv'
<1>1. CASE UNCHANGED bpVars
  BY <1>1 DEF BpInv, BpTypeOK, OrigsAreProgram, BreaksResolve, bpVars
<1>2. CASE /\ breakpointExists(id)
           /\ ~Bp(id).enabled
           /\ code' = [code EXCEPT ![Bp(id).addr] = Break(id)]
           /\ bps' = [bps EXCEPT ![id + 1].enabled = TRUE]
  <2>1. /\ Len(bps) \in Nat /\ bps \in Seq(Breakpoint)
        /\ code \in [Addr -> Insn \cup BreakInsn]
        /\ id \in Nat /\ id + 1 \in 1 .. Len(bps)
        /\ bps[id + 1] \in Breakpoint
        /\ bps[id + 1].addr \in Addr
    BY <1>2, TableEntries DEF BpInv, BpTypeOK, breakpointExists
  <2>2. Break(id) \in BreakInsn
    BY <2>1 DEF Break, BreakInsn
  <2> DEFINE e == TRUE
  <2>0. e \in BOOLEAN /\ bps' = SetFlag(bps, id + 1, e)
    BY <1>2 DEF SetFlag
  <2> HIDE DEF e
  <2>3. /\ bps' \in Seq(Breakpoint)
        /\ Len(bps') = Len(bps)
        /\ bps'[id + 1].enabled = e
        /\ \A i \in 1 .. Len(bps) : /\ bps'[i].addr = bps[i].addr
                                    /\ bps'[i].orig = bps[i].orig
                                    /\ i # id + 1 => bps'[i] = bps[i]
    <3>1. bps \in Seq(Breakpoint) /\ id + 1 \in 1 .. Len(bps)
      BY <2>1
    <3> QED BY <2>0, <3>1, SetEnabled
  <2>7. bps'[id + 1].enabled
    BY <2>3, Zenon DEF e
  <2>4. BpTypeOK'
    BY <1>2, <2>1, <2>2, <2>3 DEF BpTypeOK, Bp
  <2>5. OrigsAreProgram'
    BY <2>1, <2>3 DEF BpInv, OrigsAreProgram
  <2>6. BreaksResolve'
    <3> SUFFICES ASSUME NEW a \in Addr, code'[a] # Program[a]
                 PROVE  \E i \in 1 .. Len(bps') : /\ code'[a] = Break(i - 1)
                                                  /\ bps'[i].addr = a
                                                  /\ bps'[i].enabled
      BY DEF BreaksResolve
    <3>1. CASE a = bps[id + 1].addr
      <4>1. code'[a] = Break(id + 1 - 1)
        BY <1>2, <2>1, <3>1 DEF Bp
      <4>2. id + 1 \in 1 .. Len(bps') /\ bps'[id + 1].addr = a
        BY <2>1, <2>3, <3>1
      <4> QED BY <2>7, <4>1, <4>2
    <3>2. CASE a # bps[id + 1].addr
      <4>1. code'[a] = code[a]
        BY <1>2, <2>1, <3>2 DEF Bp
      <4>2. PICK i \in 1 .. Len(bps) : code[a] = Break(i - 1) /\ bps[i].addr = a /\ bps[i].enabled
        BY <4>1 DEF BpInv, BreaksResolve
      <4> QED BY <2>1, <2>3, <3>2, <4>1, <4>2
    <3> QED BY <3>1, <3>2
  <2> QED BY <2>4, <2>5, <2>6 DEF BpInv
<1> QED BY <1>1, <1>2 DEF enableBreakpoint

\* Clearing gives back the program.
LEMMA ClearRestores == BpInv => Restorable
<1> SUFFICES ASSUME BpInv PROVE RestoredCode = Program
  BY DEF Restorable
<1>2. ASSUME NEW a \in Addr PROVE RestoredCode[a] = Program[a]
  <2>1. CASE EnabledAt(a) = {}
    <3>1. code[a] = Program[a]
      BY <2>1 DEF EnabledAt, BpInv, BreaksResolve
    <3> QED BY <2>1, <3>1 DEF RestoredCode
  <2>2. CASE EnabledAt(a) # {}
    <3> DEFINE last == CHOOSE i \in EnabledAt(a) : \A j \in EnabledAt(a) : j <= i
    <3>1. \E i \in EnabledAt(a) : \A j \in EnabledAt(a) : j <= i
      <4>1. EnabledAt(a) \subseteq 1 .. Len(bps)
        BY DEF EnabledAt
      <4> QED BY <2>2, <4>1, TableEntries, LastExists
    <3>2. last \in EnabledAt(a)
      BY <3>1
    <3>3. last \in 1 .. Len(bps) /\ bps[last].addr = a
      BY <3>2 DEF EnabledAt
    <3>4. bps[last].orig = Program[a]
      BY <3>3 DEF BpInv, OrigsAreProgram
    <3> QED BY <2>2, <3>4 DEF RestoredCode
  <2> QED BY <2>1, <2>2
<1>3. Program \in [Addr -> Insn \cup BreakInsn]
  BY CodeAssumption
<1> QED BY <1>2, <1>3 DEF RestoredCode

\* Clearing leaves the program and an empty table.
LEMMA ClearInv == ASSUME BpInv, clearBreakpoints
                  PROVE  BpInv' /\ code' = Program /\ bps' = << >>
<1>1. code' = Program /\ bps' = << >>
  BY ClearRestores DEF clearBreakpoints, Restorable
<1>2. BpInv'
  BY <1>1, CodeAssumption DEF BpInv, BpTypeOK, OrigsAreProgram, BreaksResolve
<1> QED BY <1>1, <1>2

\* Every command on the table keeps the invariant.
LEMMA BpNextInv == BpInv /\ [BpNext]_bpVars => BpInv'
<1> SUFFICES ASSUME BpInv, [BpNext]_bpVars PROVE BpInv'
  OBVIOUS
<1>1. ASSUME NEW a \in -1 .. CodeLen, addBreakpoint(a) PROVE BpInv'
  BY <1>1, AddInv
<1>2. ASSUME NEW id \in -1 .. MaxBps,
             disableBreakpoint(id) \/ enableBreakpoint(id) \/ toggleBreakpoint(id)
      PROVE  BpInv'
  <2>1. id \in Int
    BY CodeAssumption
  <2>2. disableBreakpoint(id) \/ enableBreakpoint(id)
    BY <1>2 DEF toggleBreakpoint
  <2> QED BY <2>1, <2>2, DisableInv, EnableInv
<1>3. CASE clearBreakpoints
  BY <1>3, ClearInv
<1>4. CASE UNCHANGED bpVars
  BY <1>4 DEF BpInv, BpTypeOK, OrigsAreProgram, BreaksResolve, bpVars
<1> QED BY <1>1, <1>2, <1>3, <1>4 DEF BpNext

-----------------------------------------------------------------------------
LEMMA BpInvCorrect == BpSpec => []BpInv
BY BpInitInv, BpNextInv, PTL DEF BpSpec

\* Of every sequence of add, disable, enable, toggle and clear: every breakpoint,
\* planted or not, has saved the program's own instruction, never the BREAK of another one
\* at the same address.
THEOREM OrigsAreProgramCorrect == BpSpec => []OrigsAreProgram
<1>1. BpInv => OrigsAreProgram
  BY DEF BpInv
<1> QED BY BpInvCorrect, <1>1, PTL

\* Every BREAK in the code names an enabled breakpoint of its address, and everything else in
\* the code is the program's.
THEOREM BreaksResolveCorrect == BpSpec => []BreaksResolve
<1>1. BpInv => BreaksResolve
  BY DEF BpInv
<1> QED BY BpInvCorrect, <1>1, PTL

\* Clearing the breakpoints gives the program back, whatever the table has been through.
THEOREM RestorableCorrect == BpSpec => []Restorable
BY BpInvCorrect, ClearRestores, PTL

=============================================================================
