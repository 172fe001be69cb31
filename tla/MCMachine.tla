----------------------------- MODULE MCMachine -----------------------------
(***************************************************************************)
(* Programs for Machine, as mcode.txt has them: op, lvl, imm.              *)
(***************************************************************************)
EXTENDS Machine

Words == <<"LIT", "OPR", "LOD", "STO", "CAL", "INC", "JMP", "JPC", "SIO">>
Alu == <<"NEG", "ADD", "SUB", "MUL", "DIV", "ODD", "MOD",
         "EQL", "NEQ", "LSS", "LEQ", "GTR", "GEQ">>

Named(op, imm) == CASE op = 2 /\ imm = 0 -> "RET"
                    [] op = 2 /\ imm \in DOMAIN Alu -> Alu[imm]
                    [] op = 9 /\ imm \in 1 .. 3 -> <<"WRITE", "READ", "HALT">>[imm]
                    [] op \in DOMAIN Words \ {2, 9} -> Words[op]
                    [] OTHER -> "illegal"

Decoded(rows) == [a \in 0 .. Len(rows) - 1 |->
                     LET row == rows[a + 1]
                     IN  [op |-> Named(row[1], row[3]), lvl |-> row[2], imm |-> row[3]]]

\* Two instructions that move the registers about, and any third.  An address outside
\* the code, a slot outside the stack or a level too many is what some of them need.
Movers == {<<1,0,-16>>, <<1,0,-1>>, <<4,0,2>>, <<5,0,0>>, <<6,0,-3>>, <<6,0,6>>, <<9,0,2>>, <<8,0,2>>}
RawRows == Movers \cup {<<3,0,-1>>, <<3,1,1>>, <<3,2,1>>, <<4,1,5>>, <<5,2,1>>, <<7,0,0>>,
                       <<7,0,9>>, <<8,0,0>>, <<9,0,1>>, <<9,0,3>>, <<9,0,4>>, <<0,0,0>>}
                  \cup {<<2,0,i>> : i \in 0 .. 14}
MCThree == {[code |-> Decoded(<<i, j, k>>), encloser |-> << >>] : i, j \in Movers, k \in RawRows}

\* A program that overwrites a dynamic link and returns.
MCBrokenLink == {[code |-> Decoded(<<<<1,0,-3>>, <<4,0,2>>, <<1,0,4>>, <<4,0,3>>, <<2,0,0>>>>),
                  encloser |-> << >>]}

MCRaw == MCThree \cup MCBrokenLink

=============================================================================
