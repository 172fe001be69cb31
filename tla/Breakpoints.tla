---------------------------- MODULE Breakpoints ----------------------------
(***************************************************************************)
(* The breakpoint table of the PM/0 virtual machine (vm/machine.c).  A     *)
(* breakpoint is planted by overwriting the instruction at its address     *)
(* with a BREAK pseudo-instruction that carries the breakpoint's number;   *)
(* the table keeps the instruction that was overwritten.  This module is   *)
(* the code segment, the table and the operations on them; Debugger        *)
(* composes it with the run loop and the command loop.                     *)
(*                                                                         *)
(* Numbers are the machine's own (0-based); the debugger's prompt shows    *)
(* them 1-based and subtracts one from what the user types.                *)
(***************************************************************************)
EXTENDS Integers, Sequences

CONSTANTS
    CodeLen,    \* insn_count: the number of instructions loaded
    Program,    \* the instructions Machine_loadCode put in codemem
    MaxBps      \* bound of the model on the length of the table

(***************************************************************************)
(* Instructions, told apart by what they do to the program counter:        *)
(* "seq" falls through (LIT, LOD, STO, INC, WRITE and the ALU), "jmp",     *)
(* "jpc", "cal" and "ret" transfer control, "read" waits for input, "halt" *)
(* stops, "illegal" is any instruction word execute refuses.  BREAK is     *)
(* opcode 0 with a level that is not 0.  The debugger plants such words,   *)
(* and a program that is read from mcode.txt may have some of its own,     *)
(* with any number.                                                        *)
(***************************************************************************)
Ops == {"seq", "jmp", "jpc", "cal", "ret", "read", "halt", "illegal"}
Insn == [op : Ops, imm : Int]
BreakInsn == [op : {"break"}, imm : Int]
Break(id) == [op |-> "break", imm |-> id]
IsBreak(insn) == insn.op = "break"
Addr == 0 .. CodeLen - 1

ASSUME CodeAssumption == /\ CodeLen \in Nat
                         /\ Program \in [Addr -> Insn \cup BreakInsn]
                         /\ MaxBps \in Nat

\* What a breakpoint saves is no BREAK: none is set on one.
Breakpoint == [addr : Addr, orig : Insn, enabled : BOOLEAN]

VARIABLES
    code,       \* codemem
    bps         \* the breakpoint table; number id is bps[id + 1]

bpVars == <<code, bps>>

BpInit == /\ code = Program
          /\ bps = << >>

breakpointExists(id) == id >= 0 /\ id < Len(bps)
Bp(id) == bps[id + 1]

\* A fault to be caught: without the test at machine.c:758 a second breakpoint at
\* an address saves the BREAK of the first.
addBreakpoint_Fault(addr) ==
    \/ /\ addr \in Addr
       /\ Len(bps) < MaxBps
       /\ bps' = Append(bps, [addr |-> addr, orig |-> code[addr], enabled |-> TRUE])
       /\ code' = [code EXCEPT ![addr] = Break(Len(bps))]
    \/ /\ addr \notin Addr
       /\ UNCHANGED bpVars

addBreakpoint(addr) ==
    \/ /\ addr \in Addr
       /\ ~IsBreak(code[addr])
       /\ Len(bps) < MaxBps
       /\ bps' = Append(bps, [addr |-> addr, orig |-> code[addr], enabled |-> TRUE])
       /\ code' = [code EXCEPT ![addr] = Break(Len(bps))]
    \/ /\ addr \in Addr => IsBreak(code[addr])
       /\ UNCHANGED bpVars

\* A fault to be caught: the flag is reset and the instruction is not put back.
disableBreakpoint_Fault(id) ==
    \/ /\ breakpointExists(id)
       /\ Bp(id).enabled
       /\ bps' = [bps EXCEPT ![id + 1].enabled = FALSE]
       /\ UNCHANGED code
    \/ /\ breakpointExists(id) => ~Bp(id).enabled
       /\ UNCHANGED bpVars

disableBreakpoint(id) ==
    \/ /\ breakpointExists(id)
       /\ Bp(id).enabled
       /\ code' = [code EXCEPT ![Bp(id).addr] = Bp(id).orig]
       /\ bps' = [bps EXCEPT ![id + 1].enabled = FALSE]
    \/ /\ breakpointExists(id) => ~Bp(id).enabled
       /\ UNCHANGED bpVars

enableBreakpoint(id) ==
    \/ /\ breakpointExists(id)
       /\ ~Bp(id).enabled
       /\ code' = [code EXCEPT ![Bp(id).addr] = Break(id)]
       /\ bps' = [bps EXCEPT ![id + 1].enabled = TRUE]
    \/ /\ breakpointExists(id) => Bp(id).enabled
       /\ UNCHANGED bpVars

toggleBreakpoint(id) ==
    \/ /\ breakpointExists(id)
       /\ Bp(id).enabled
       /\ disableBreakpoint(id)
    \/ /\ breakpointExists(id) => ~Bp(id).enabled
       /\ enableBreakpoint(id)

(***************************************************************************)
(* Clearing disables every breakpoint in turn and empties the table.  An   *)
(* enabled breakpoint puts its saved instruction back, so the code that is *)
(* left at an address comes from some enabled breakpoint there, if any     *)
(* (all of them saved the same instruction: see OrigsAreProgram).          *)
(***************************************************************************)
EnabledAt(a) == {i \in 1 .. Len(bps) : bps[i].addr = a /\ bps[i].enabled}
RestoredCode ==
    [a \in Addr |-> IF EnabledAt(a) = {}
                    THEN code[a]
                    ELSE bps[CHOOSE i \in EnabledAt(a) :
                                \A j \in EnabledAt(a) : j <= i].orig]

\* A fault to be caught: the table is emptied with its breakpoints still planted.
clearBreakpoints_Fault == /\ bps' = << >>
                          /\ UNCHANGED code

clearBreakpoints == /\ code' = RestoredCode
                    /\ bps' = << >>

BpNext == \/ \E a \in -1 .. CodeLen : addBreakpoint(a)
          \/ \E id \in -1 .. MaxBps : \/ disableBreakpoint(id)
                                      \/ enableBreakpoint(id)
                                      \/ toggleBreakpoint(id)
          \/ clearBreakpoints

BpSpec == BpInit /\ [][BpNext]_bpVars

-----------------------------------------------------------------------------
(* Properties.                                                             *)

\* The table and the code segment have their types; the table is within its bound.
BpTypeOK == /\ code \in [Addr -> Insn \cup BreakInsn]
            /\ bps \in Seq(Breakpoint)

\* Every breakpoint, enabled or not, remembers the instruction the program was
\* loaded with: what it saved is never the BREAK of another breakpoint at the
\* same address (machine.c:758 returns before saving one).
OrigsAreProgram == \A i \in 1 .. Len(bps) : bps[i].orig = Program[bps[i].addr]

\* Whatever was added, disabled, re-added, enabled and toggled at an address, the
\* word there is the program's own (a BREAK, if that is what was loaded) or the BREAK
\* of a breakpoint that exists, is at that address and is enabled: the "Illegal
\* instruction" exit of runOne (machine.c:592) is never taken because of a stale number.
BreaksResolve ==
    \A a \in Addr : \/ code[a] = Program[a]
                    \/ \E i \in 1 .. Len(bps) : /\ code[a] = Break(i - 1)
                                                /\ bps[i].addr = a
                                                /\ bps[i].enabled

\* Clearing the breakpoints at any moment gives back exactly the program that
\* was loaded (Machine_clearBreakpoints, machine.c:840), however many
\* breakpoints share an address and in whatever order they were planted.
Restorable == RestoredCode = Program

=============================================================================
