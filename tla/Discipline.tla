----------------------------- MODULE Discipline -----------------------------
(***************************************************************************)
(* What a program must be like for the machine to keep its frames: the     *)
(* machine itself (Machine_execute in vm/machine.c) checks no more than    *)
(* that an index is within the stack.  A place is an address with the      *)
(* number of words then in the frame, and what is known of the frame:      *)
(* whose it is, which scope its static link points to, and how many of its *)
(* words are within the stack.  A set of places that holds the first one   *)
(* and all that follow those in it shows where control can go.             *)
(***************************************************************************)
EXTENDS Machine

Owners(p) == DOMAIN p.encloser \cup {Main}
Heights == 0 .. WordMax - StackHeight - 1
Places(p) == [pc : DOMAIN p.code, height : Heights, proc : Owners(p), link : Nat \ {0}, known : Heights]

FirstPlace == [pc |-> 0, height |-> 0, proc |-> Main, link |-> 1, known |-> 0]
Entry(q) == [pc |-> q, height |-> 0, proc |-> q, link |-> 1, known |-> 4]

\* The procedure l declarations up from q.
Scope(p, q, l) ==
    LET scope[k \in 0 .. l] ==
            IF k = 0 THEN q ELSE IF scope[k - 1] = Main THEN Main ELSE p.encloser[scope[k - 1]]
    IN  scope[l]

\* How deep each procedure is declared.
IsDepth(p, depth) == /\ depth \in [Owners(p) -> Nat]
                     /\ depth[Main] = 0
                     /\ \A q \in DOMAIN p.encloser : depth[q] = depth[p.encloser[q]] + 1

\* A tail call takes its frame over: its first instruction loads the static link that the
\* callee needs on top of the caller's.
Relinks(p, s) == LET i == p.code[s.pc]
                 IN  i.op = "LOD" /\ i.imm = 1 /\ s.height = 1 /\ s.proc # Main
HandsOver(p, s) == LET i == p.code[s.pc]
                   IN  i.op = "JMP" /\ i.imm \in DOMAIN p.encloser /\ s.proc # Main

\* The places that can follow s, the callee's and the one of its return after a call.
Going(s, pc_, height_) == [s EXCEPT !.pc = pc_, !.height = height_]
Pushing(s) == [Going(s, s.pc + 1, s.height + 1) EXCEPT !.known = IF s.height < @ THEN @ ELSE s.height + 1]
NextPlaces(p, s) ==
    LET i == p.code[s.pc]
    IN  CASE i.op \in {"LIT", "READ"} -> {Pushing(s)}
          [] i.op = "LOD" -> {IF Relinks(p, s) THEN [Pushing(s) EXCEPT !.link = i.lvl + 1] ELSE Pushing(s)}
          [] i.op \in {"STO", "WRITE"} \cup Binary -> {Going(s, s.pc + 1, s.height - 1)}
          [] i.op \in Unary -> {Going(s, s.pc + 1, s.height)}
          [] i.op = "INC" -> {Going(s, s.pc + 1, s.height + i.imm)}
          [] i.op = "JPC" -> {Going(s, s.pc + 1, s.height - 1), Going(s, i.imm, s.height - 1)}
          [] i.op = "JMP" -> {IF HandsOver(p, s) THEN [Entry(i.imm) EXCEPT !.height = s.height]
                              ELSE Going(s, i.imm, s.height)}
          [] i.op = "CAL" -> {Entry(i.imm), Going(s, s.pc + 1, s.height)}
          [] OTHER -> {}

\* The first words of the frame of a procedure are what the call put there.
Links(q) == IF q = Main THEN 0 ELSE 4
Pops(op) == CASE op \in {"LIT", "READ", "LOD", "CAL"} -> 0
              [] op \in {"STO", "WRITE", "JPC"} \cup Unary -> 1
              [] op \in Binary -> 2

\* The instruction at s finds its operands above the links, and names what there is:
\* a variable lies in its frame even while that procedure waits for a callee, and whoever is
\* called or jumped to is declared where the static link points.
Allowed(p, at, depth, s) ==
    LET i == p.code[s.pc]
        scope == Scope(p, s.proc, i.lvl)
    IN  /\ i.op # "illegal"
        /\ i.op = "RET" => s.proc # Main
        /\ i.op \notin {"INC", "JMP", "RET", "HALT"} =>
              Links(s.proc) + Pops(i.op) <= s.height \/ Relinks(p, s)
        /\ i.op \in {"LOD", "STO", "CAL"} => /\ i.lvl <= depth[s.proc]
                                             /\ i.lvl # 0 => s.link = 1
        /\ i.op \in {"LOD", "STO"} =>
              /\ i.imm >= 0
              /\ i.lvl = 0 => i.imm < s.height \/ i.imm < s.known
              /\ i.lvl # 0 => \A c \in at : (c.proc = scope /\ p.code[c.pc].op = "CAL") => i.imm < c.height
        /\ i.op = "STO" /\ scope # Main => i.imm \notin 1 .. 3
        /\ Relinks(p, s) => i.lvl < depth[s.proc] /\ s.link = 1
        /\ i.op = "CAL" => i.imm \in DOMAIN p.encloser /\ p.encloser[i.imm] = scope /\ s.link = 1
        /\ HandsOver(p, s) => p.encloser[i.imm] = Scope(p, s.proc, s.link) /\ s.link <= depth[s.proc]

Discipline(p, at, depth) ==
    /\ IsDepth(p, depth)
    /\ at \subseteq Places(p)
    /\ FirstPlace \in at
    /\ \A s \in at : Allowed(p, at, depth, s) /\ NextPlaces(p, s) \subseteq at

Disciplined(p) == \E at \in SUBSET Places(p), depth \in [Owners(p) -> Nat] : Discipline(p, at, depth)

\* "Maximum number of stack frames (not possible to store more than this)", config.h:21:
\* a quarter of the stack's words.
ASSUME FramesAssumption == StackHeight \div 4 <= MaxFrames

=============================================================================
