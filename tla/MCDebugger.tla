----------------------------- MODULE MCDebugger -----------------------------
\* Programs for the debugger, small enough for TLC and with every kind of
\* instruction between them.
EXTENDS Debugger, TLC

I(op, imm) == [op |-> op, imm |-> imm]

\* Reads, calls a procedure that loops on itself and returns, computes and halts; the
\* return slot may also hold an address outside the code.
CallProgram == 0 :> I("read", 2) @@ 1 :> I("cal", 4) @@ 2 :> I("seq", 0) @@ 3 :> I("halt", 3)
            @@ 4 :> I("jpc", 4) @@ 5 :> I("ret", 0)
CallReturns == {2, 6}

\* The same, with a BREAK of its own behind the call: of no breakpoint's number, until the
\* second breakpoint has it.
BreakProgram == 0 :> I("read", 2) @@ 1 :> I("cal", 5) @@ 2 :> I("seq", 0) @@ 3 :> Break(1)
             @@ 4 :> I("halt", 3) @@ 5 :> I("jpc", 5) @@ 6 :> I("ret", 0)
BreakReturns == {2, 7}

=============================================================================
