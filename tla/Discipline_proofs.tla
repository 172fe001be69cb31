------------------------- MODULE Discipline_proofs -------------------------
(***************************************************************************)
(* A program that keeps the discipline has its frames kept by the machine, *)
(* whatever is typed, however deep it calls and whatever the stack's size. *)
(* The invariant tells of every frame whose it is, where its links point   *)
(* and at which call its caller waits, and that control is at a place of   *)
(* the discipline.                                                         *)
(***************************************************************************)
EXTENDS Discipline, Machine_proofs, SequenceFacts

ProcOf(i) == IF i = 0 THEN Main ELSE active[i].proc

\* The frames found by following the static links from the last one, as far as the l-th.
OutwardsIn(act, l) == LET up[k \in 0 .. l] == IF k = 0 THEN Len(act)
                                              ELSE IF up[k - 1] = 0 THEN 0 ELSE act[up[k - 1]].parent
                      IN  up
Outwards(l) == OutwardsIn(active, l)

Activation(p) == [proc : DOMAIN p.encloser, parent : Nat, frame : Nat,
                  caller : [sp : Int, bp : Int, pc : Int]]

\* Whoever declares a procedure is active, and all called since are as deep as the procedure.
Nested(depth) ==
    \A i \in 1 .. Len(active) :
        LET q == active[i].parent
        IN  /\ q \in 0 .. i - 1
            /\ ProcOf(q) = program.encloser[active[i].proc]
            /\ \A j \in q + 1 .. i - 1 : depth[ProcOf(i)] <= depth[ProcOf(j)]

\* The frames lie one above the other within the stack.
Stacked == \A i \in 1 .. Len(active) :
               /\ 4 * i - 3 <= FrameOf(i)
               /\ FrameOf(i) + 3 < StackHeight
               /\ \A j \in 1 .. i - 1 : FrameOf(j) + 4 <= FrameOf(i)

\* The words of a frame are those of its call; the static link of the last frame may
\* be that of a tail call to come.
Linking == \A i \in 1 .. Len(active) :
               /\ i < Len(active) => stack[FrameOf(i) + 1] = FrameOf(active[i].parent)
               /\ stack[FrameOf(i) + 2] = FrameOf(i - 1)
               /\ stack[FrameOf(i) + 3] = active[i].caller.pc
               /\ frames[i - 1] = FrameOf(i)

\* The caller of a frame waits behind a call.
WaitsAt(i, c) == /\ Code[c.pc].op = "CAL"
                 /\ c.proc = ProcOf(i - 1)
                 /\ c.link = 1
                 /\ c.height = FrameOf(i) - FrameOf(i - 1)
                 /\ FrameOf(i - 1) + c.known <= StackHeight
                 /\ active[i].caller = [sp |-> FrameOf(i) - 1, bp |-> FrameOf(i - 1), pc |-> c.pc + 1]
Waiting(at) == \A i \in 1 .. Len(active) : \E c \in at : WaitsAt(i, c)

\* Control is at the place s.
IsAt(s) == /\ s.pc = pc
           /\ s.proc = ProcOf(Len(active))
           /\ s.height = sp - bp + 1
           /\ bp + s.known <= StackHeight \/ s.known = 0
           /\ active # << >> => stack[bp + 1] = FrameOf(Outwards(s.link)[s.link])

Tidy(at, depth) == /\ active \in Seq(Activation(program))
                   /\ framecount = Len(active)
                   /\ bp = FrameOf(Len(active))
                   /\ Nested(depth)
                   /\ Stacked
                   /\ Linking
                   /\ Waiting(at)
                   /\ \E s \in at : IsAt(s)

\* The inductive invariant.
InGoodOrder == \E at \in SUBSET Places(program), depth \in [Owners(program) -> Nat] :
                   Discipline(program, at, depth) /\ (status = "running" => Tidy(at, depth))
DisciplineInv == TypeOK /\ StopsForWantOfStack /\ InGoodOrder

-----------------------------------------------------------------------------
(* The scopes around a procedure, and the frames around the last one.      *)

LEMMA ProgramFacts ==
    ASSUME NEW p, IsProgram(p)
    PROVE  /\ Main \notin DOMAIN p.encloser
           /\ \A e \in DOMAIN p.encloser : p.encloser[e] \in Owners(p)
           /\ \A a \in DOMAIN p.code : a \in Nat /\ a + 1 \in Word /\ p.code[a] \in Insn
  <1>1. PICK n \in 0 .. WordMax : /\ p.code \in [0 .. n - 1 -> Insn]
                                  /\ DOMAIN p.encloser \subseteq 0 .. n - 1
                                  /\ \A e \in DOMAIN p.encloser :
                                        p.encloser[e] \in DOMAIN p.encloser \cup {Main}
    BY DEF IsProgram
  <1>2. \A a \in 0 .. n - 1 : a \in Nat /\ a + 1 \in Word /\ a # Main
    BY <1>1, MachineAssumption DEF Word, WordMin, Main
  <1>3. DOMAIN p.code = 0 .. n - 1
    BY <1>1
  <1> QED  BY <1>1, <1>2, <1>3 DEF Owners

\* The scopes around q: each is the one that declares the one before.
Surround(p, scope, q, l) ==
    /\ scope[0] = q
    /\ \A k \in 1 .. l : scope[k] = IF scope[k - 1] = Main THEN Main ELSE p.encloser[scope[k - 1]]

LEMMA ScopeSteps ==
    ASSUME NEW p, IsProgram(p), NEW q \in Owners(p), NEW l \in Nat
    PROVE  \E scope \in [0 .. l -> Owners(p)] : Surround(p, scope, q, l) /\ Scope(p, q, l) = scope[l]
  <1> DEFINE Out(o) == IF o = Main THEN Main ELSE p.encloser[o]
             Defines(h) == h = [k \in 0 .. l |-> IF k = 0 THEN q ELSE IF h[k - 1] = Main THEN Main
                                                  ELSE p.encloser[h[k - 1]]]
             scope == CHOOSE h : Defines(h)
             g == [x \in (1 .. l) \X Owners(p) |-> Out(x[2])]
  <1>1. \A o \in Owners(p) : Out(o) \in Owners(p)
    BY ProgramFacts DEF Owners
  <1>2. g \in [(1 .. l) \X Owners(p) -> Owners(p)]
        /\ \A k \in 1 .. l, o \in Owners(p) : g[<<k, o>>] = Out(o)
    <2> HIDE DEF Out
    <2> QED  BY <1>1
  <1> HIDE DEF g
  <1>3. PICK f \in [0 .. l -> Owners(p)] : Iterates(f, l, q, g)
    BY <1>2, IterationExists
  <1>4. \A k \in 1 .. l : f[k - 1] \in Owners(p) /\ f[k] = Out(f[k - 1])
    <2>1. \A k \in 1 .. l : f[k - 1] \in Owners(p)
      OBVIOUS
    <2> HIDE DEF Out
    <2> QED  BY <1>2, <1>3, <2>1 DEF Iterates
  <1>5. Defines(f)
    <2>1. \A k \in 0 .. l : f[k] = IF k = 0 THEN q ELSE IF f[k - 1] = Main THEN Main ELSE p.encloser[f[k - 1]]
      <3>1. f[0] = q
        BY <1>3 DEF Iterates
      <3> QED  BY <1>4, <3>1
    <2>2. f = [k \in 0 .. l |-> f[k]]
      OBVIOUS
    <2> QED  BY <2>1, <2>2, Zenon
  <1>6. Defines(scope)
    <2> HIDE DEF Defines
    <2> QED  BY <1>5
  <1>7. \A k \in 0 .. l : scope[k] = IF k = 0 THEN q ELSE IF scope[k - 1] = Main THEN Main
                                     ELSE p.encloser[scope[k - 1]]
    <2> HIDE DEF scope
    <2> QED  BY <1>6, Zenon
  <1>8. Scope(p, q, l) = scope[l] /\ DOMAIN scope = 0 .. l /\ scope = [k \in 0 .. l |-> scope[k]]
    <2>1. DOMAIN scope = 0 .. l /\ scope = [k \in 0 .. l |-> scope[k]]
      <3> HIDE DEF scope
      <3> QED  BY <1>6, Zenon
    <2> QED  BY <2>1, Zenon DEF Scope
  <1> HIDE DEF scope, Defines
  <1>9. \A k \in 0 .. l : scope[k] \in Owners(p)
    <2> DEFINE T == {k \in 0 .. l : scope[k] \in Owners(p)}
    <2>1. 0 \in T
      BY <1>7
    <2>2. ASSUME NEW m \in 1 .. l, m - 1 \in T PROVE m \in T
      <3>1. m \in 0 .. l /\ m # 0
        OBVIOUS
      <3>2. scope[m - 1] \in Owners(p)
        BY <2>2
      <3>3. scope[m] = Out(scope[m - 1])
        BY <1>7, <3>1, Zenon
      <3> QED  BY <1>1, <3>1, <3>2, <3>3
    <2>3. T = 0 .. l
      <3>1. T \in SUBSET (0 .. l)
        OBVIOUS
      <3> HIDE DEF T
      <3> QED  BY <2>1, <2>2, <3>1, UpTo
    <2> QED  BY <2>3
  <1>10. scope \in [0 .. l -> Owners(p)]
    BY <1>8, <1>9
  <1>11. Surround(p, scope, q, l)
    <2>1. 0 \in 0 .. l /\ \A k \in 1 .. l : k \in 0 .. l /\ k # 0
      OBVIOUS
    <2> QED  BY <1>7, <2>1, Zenon DEF Surround
  <1> QED  BY <1>8, <1>10, <1>11

\* The frames around the last one: each is the parent of the one before.
ParentedIn(act) == \A i \in 1 .. Len(act) : act[i].parent \in 0 .. i - 1
Parented == ParentedIn(active)

LEMMA OutwardsInSteps ==
    ASSUME NEW act, Len(act) \in Nat, ParentedIn(act), NEW l \in Nat
    PROVE  /\ OutwardsIn(act, l) \in [0 .. l -> 0 .. Len(act)]
           /\ OutwardsIn(act, l)[0] = Len(act)
           /\ \A k \in 1 .. l : OutwardsIn(act, l)[k] = IF OutwardsIn(act, l)[k - 1] = 0 THEN 0
                                                 ELSE act[OutwardsIn(act, l)[k - 1]].parent
  <1> DEFINE n == Len(act)
             Out(i) == IF i = 0 THEN 0 ELSE act[i].parent
             Defines(h) == h = [k \in 0 .. l |-> IF k = 0 THEN Len(act) ELSE IF h[k - 1] = 0 THEN 0
                                                  ELSE act[h[k - 1]].parent]
             up == CHOOSE h : Defines(h)
             g == [x \in (1 .. l) \X (0 .. n) |-> Out(x[2])]
  <1>1. \A i \in 0 .. n : Out(i) \in 0 .. n
    <2>1. \A i \in 1 .. n : act[i].parent \in 0 .. i - 1
      BY DEF ParentedIn
    <2> QED  BY <2>1
  <1>2. g \in [(1 .. l) \X (0 .. n) -> 0 .. n]
        /\ \A k \in 1 .. l, o \in 0 .. n : g[<<k, o>>] = Out(o)
    <2> HIDE DEF Out
    <2> QED  BY <1>1
  <1> HIDE DEF g
  <1>3. PICK f \in [0 .. l -> 0 .. n] : Iterates(f, l, n, g)
    <2>1. n \in 0 .. n
      OBVIOUS
    <2> QED  BY <1>2, <2>1, IterationExists
  <1>4. \A k \in 1 .. l : f[k - 1] \in 0 .. n /\ f[k] = Out(f[k - 1])
    <2>1. \A k \in 1 .. l : f[k - 1] \in 0 .. n
      OBVIOUS
    <2> HIDE DEF Out
    <2> QED  BY <1>2, <1>3, <2>1 DEF Iterates
  <1>5. Defines(f)
    <2>1. \A k \in 0 .. l : f[k] = IF k = 0 THEN n ELSE IF f[k - 1] = 0 THEN 0 ELSE act[f[k - 1]].parent
      <3>1. f[0] = n
        BY <1>3 DEF Iterates
      <3> QED  BY <1>4, <3>1
    <2>2. f = [k \in 0 .. l |-> f[k]]
      OBVIOUS
    <2> QED  BY <2>1, <2>2, Zenon
  <1>6. Defines(up)
    <2> HIDE DEF Defines
    <2> QED  BY <1>5
  <1>7. \A k \in 0 .. l : up[k] = IF k = 0 THEN n ELSE IF up[k - 1] = 0 THEN 0
                                  ELSE act[up[k - 1]].parent
    <2> HIDE DEF up
    <2> QED  BY <1>6, Zenon
  <1>8. OutwardsIn(act, l) = up /\ up = [k \in 0 .. l |-> up[k]]
    <2>1. up = [k \in 0 .. l |-> up[k]]
      <3> HIDE DEF up
      <3> QED  BY <1>6, Zenon
    <2> QED  BY <2>1, Zenon DEF OutwardsIn
  <1> HIDE DEF up, Defines
  <1>9. \A k \in 0 .. l : up[k] \in 0 .. n
    <2> DEFINE T == {k \in 0 .. l : up[k] \in 0 .. n}
    <2>1. 0 \in T
      BY <1>7
    <2>2. ASSUME NEW m \in 1 .. l, m - 1 \in T PROVE m \in T
      <3>1. m \in 0 .. l /\ m # 0
        OBVIOUS
      <3>2. up[m - 1] \in 0 .. n
        BY <2>2
      <3>3. up[m] = Out(up[m - 1])
        BY <1>7, <3>1, Zenon
      <3> HIDE DEF Out
      <3> QED  BY <1>1, <3>1, <3>2, <3>3
    <2>3. T = 0 .. l
      <3>1. T \in SUBSET (0 .. l)
        OBVIOUS
      <3> HIDE DEF T
      <3> QED  BY <2>1, <2>2, <3>1, UpTo
    <2> QED  BY <2>3
  <1>10. up \in [0 .. l -> 0 .. n]
    BY <1>8, <1>9
  <1>11. up[0] = n /\ \A k \in 1 .. l : up[k] = IF up[k - 1] = 0 THEN 0 ELSE act[up[k - 1]].parent
    <2>1. 0 \in 0 .. l /\ \A k \in 1 .. l : k \in 0 .. l /\ k # 0
      OBVIOUS
    <2> QED  BY <1>7, <2>1, Zenon
  <1> QED  BY <1>8, <1>10, <1>11

LEMMA OutwardsSteps ==
    ASSUME Len(active) \in Nat, Parented, NEW l \in Nat
    PROVE  /\ Outwards(l) \in [0 .. l -> 0 .. Len(active)]
           /\ Outwards(l)[0] = Len(active)
           /\ \A k \in 1 .. l : Outwards(l)[k] = IF Outwards(l)[k - 1] = 0 THEN 0
                                                 ELSE active[Outwards(l)[k - 1]].parent
  BY OutwardsInSteps DEF Outwards, Parented

\* How far one follows the links does not matter for the frames that are passed.
LEMMA OutwardsAgree ==
    ASSUME Len(active) \in Nat, Parented, NEW l \in Nat, NEW k \in 0 .. l
    PROVE  Outwards(k)[k] = Outwards(l)[k]
  <1> DEFINE a == Outwards(k)
             b == Outwards(l)
             T == {j \in 0 .. k : a[j] = b[j]}
  <1>0. k \in Nat
    OBVIOUS
  <1>1. /\ a[0] = Len(active)
        /\ \A j \in 1 .. k : a[j] = IF a[j - 1] = 0 THEN 0 ELSE active[a[j - 1]].parent
    BY <1>0, OutwardsSteps
  <1>2. /\ b[0] = Len(active)
        /\ \A j \in 1 .. l : b[j] = IF b[j - 1] = 0 THEN 0 ELSE active[b[j - 1]].parent
    BY OutwardsSteps
  <1> HIDE DEF a, b
  <1>3. 0 \in T
    BY <1>1, <1>2
  <1>4. ASSUME NEW m \in 1 .. k, m - 1 \in T PROVE m \in T
    <2>1. a[m - 1] = b[m - 1] /\ m \in 0 .. k /\ m \in 1 .. l
      BY <1>4
    <2>2. a[m] = b[m]
      BY <1>1, <1>2, <2>1, Zenon
    <2> QED  BY <2>1, <2>2
  <1>5. T = 0 .. k
    <2>1. T \in SUBSET (0 .. k)
      OBVIOUS
    <2> HIDE DEF T
    <2> QED  BY <1>0, <1>3, <1>4, <2>1, UpTo
  <1>6. k \in T
    BY <1>0, <1>5
  <1> QED  BY <1>6 DEF a, b

\* The frame l links up belongs to the scope l declarations up.
LEMMA OutwardsScope ==
    ASSUME IsProgram(program), active \in Seq(Activation(program)), NEW depth, Nested(depth),
           NEW l \in Nat
    PROVE  ProcOf(Outwards(l)[l]) = Scope(program, ProcOf(Len(active)), l)
  <1> DEFINE n == Len(active)
             up == Outwards(l)
             q == ProcOf(n)
  <1>1. n \in Nat /\ \A i \in 1 .. n : active[i].proc \in DOMAIN program.encloser /\ i # 0
    <2>1. \A i \in 1 .. n : active[i] \in Activation(program)
      OBVIOUS
    <2> QED  BY <2>1, SMTT(30) DEF Activation
  <1>2. Parented /\ \A i \in 1 .. n : ProcOf(active[i].parent) = program.encloser[active[i].proc]
    BY DEF Nested, Parented, ParentedIn
  <1>3. q \in Owners(program)
    BY <1>1 DEF ProcOf, Owners
  <1>4. /\ up \in [0 .. l -> 0 .. n]
        /\ up[0] = n
        /\ \A k \in 1 .. l : up[k] = IF up[k - 1] = 0 THEN 0 ELSE active[up[k - 1]].parent
    BY <1>1, <1>2, OutwardsSteps
  <1> HIDE DEF n, up, q
  <1>5. PICK scope \in [0 .. l -> Owners(program)] :
              Surround(program, scope, q, l) /\ Scope(program, q, l) = scope[l]
    BY <1>3, ScopeSteps
  <1> DEFINE T == {k \in 0 .. l : ProcOf(up[k]) = scope[k]}
  <1>6. 0 \in T
    BY <1>4, <1>5 DEF q, Surround
  <1>7. ASSUME NEW m \in 1 .. l, m - 1 \in T PROVE m \in T
    <2>1. up[m - 1] \in 0 .. n /\ ProcOf(up[m - 1]) = scope[m - 1] /\ m \in 0 .. l
      <3>1. m - 1 \in 0 .. l /\ m \in 0 .. l
        OBVIOUS
      <3> QED  BY <1>4, <1>7, <3>1, Zenon
    <2>2. CASE up[m - 1] = 0
      <3>1. up[m] = 0
        BY <1>4, <2>2
      <3>2. scope[m] = Main
        BY <1>5, <2>1, <2>2 DEF ProcOf, Surround
      <3> QED  BY <2>1, <3>1, <3>2 DEF ProcOf
    <2>3. CASE up[m - 1] # 0
      <3>1. up[m - 1] \in 1 .. n
        BY <1>1, <2>1, <2>3
      <3>2. scope[m - 1] = active[up[m - 1]].proc /\ scope[m - 1] # Main
        BY <1>1, <2>1, <2>3, <3>1, ProgramFacts DEF ProcOf
      <3>3. up[m] = active[up[m - 1]].parent
        BY <1>4, <2>3
      <3>4. scope[m] = program.encloser[scope[m - 1]]
        BY <1>5, <3>2 DEF Surround
      <3> QED  BY <1>2, <2>1, <3>1, <3>2, <3>3, <3>4
    <2> QED  BY <2>2, <2>3
  <1>8. T = 0 .. l
    <2>1. T \in SUBSET (0 .. l)
      OBVIOUS
    <2> HIDE DEF T
    <2> QED  BY <1>6, <1>7, <2>1, UpTo
  <1>9. l \in T
    BY <1>8
  <1> QED  BY <1>5, <1>9 DEF up, q, n

\* A scope that is not deeper than the procedure is found at the latest activation of it:
\* whoever was called since is deeper.
Found(depth, l, k) ==
    LET a == Outwards(l)[k]
        n == Len(active)
    IN  /\ depth[ProcOf(a)] = depth[ProcOf(n)] - k
        /\ k < l => a # 0
        /\ k >= 1 => a < n
        /\ \A j \in a + 1 .. n : depth[ProcOf(a)] < depth[ProcOf(j)]

LEMMA ProcTypes ==
    ASSUME IsProgram(program), active \in Seq(Activation(program)), NEW depth, IsDepth(program, depth)
    PROVE  /\ Len(active) \in Nat
           /\ \A i \in 1 .. Len(active) :
                 ProcOf(i) = active[i].proc /\ active[i].proc \in DOMAIN program.encloser
           /\ \A i \in 0 .. Len(active) : ProcOf(i) \in Owners(program) /\ depth[ProcOf(i)] \in Nat
  <1>1. \A i \in 1 .. Len(active) : active[i] \in Activation(program) /\ i # 0
    OBVIOUS
  <1>2. \A i \in 1 .. Len(active) :
            ProcOf(i) = active[i].proc /\ active[i].proc \in DOMAIN program.encloser
    BY <1>1 DEF Activation, ProcOf
  <1>3. \A i \in 0 .. Len(active) : ProcOf(i) \in Owners(program)
    <2>1. ProcOf(0) \in Owners(program)
      BY DEF ProcOf, Owners
    <2>2. \A i \in 0 .. Len(active) : i = 0 \/ i \in 1 .. Len(active)
      OBVIOUS
    <2> QED  BY <1>2, <2>1, <2>2 DEF Owners
  <1>4. depth \in [Owners(program) -> Nat]
    BY DEF IsDepth
  <1> QED  BY <1>2, <1>3, <1>4

LEMMA ScopeIsFound ==
    ASSUME IsProgram(program), active \in Seq(Activation(program)),
           NEW depth, IsDepth(program, depth), Nested(depth),
           NEW l \in Nat, l <= depth[ProcOf(Len(active))]
    PROVE  \A k \in 0 .. l : Found(depth, l, k)
  <1> DEFINE n == Len(active)
             up == Outwards(l)
             d(i) == depth[ProcOf(i)]
             T == {k \in 0 .. l : Found(depth, l, k)}
  <1>1. /\ n \in Nat
        /\ \A i \in 1 .. n : ProcOf(i) = active[i].proc /\ active[i].proc \in DOMAIN program.encloser
        /\ \A i \in 0 .. n : d(i) \in Nat
    BY ProcTypes
  <1>2. Parented
    BY DEF Nested, Parented, ParentedIn
  <1>3. /\ up \in [0 .. l -> 0 .. n]
        /\ up[0] = n
        /\ \A k \in 1 .. l : up[k] = IF up[k - 1] = 0 THEN 0 ELSE active[up[k - 1]].parent
    BY <1>1, <1>2, OutwardsSteps
  <1>4. \A i \in 1 .. n : /\ active[i].parent \in 0 .. i - 1
                          /\ d(active[i].parent) + 1 = d(i)
                          /\ \A j \in active[i].parent + 1 .. i - 1 : d(i) <= d(j)
    <2>1. \A i \in 1 .. n : /\ active[i].parent \in 0 .. i - 1
                            /\ ProcOf(active[i].parent) = program.encloser[active[i].proc]
                            /\ \A j \in active[i].parent + 1 .. i - 1 : d(i) <= d(j)
      BY DEF Nested
    <2>2. \A q \in DOMAIN program.encloser : depth[q] = depth[program.encloser[q]] + 1
      BY DEF IsDepth
    <2> QED  BY <1>1, <2>1, <2>2
  <1>5. \A i \in 0 .. n : d(i) > 0 => i # 0
    BY <1>1 DEF ProcOf, IsDepth
  <1>6. \A k \in 0 .. l : Found(depth, l, k) =
            (/\ d(up[k]) = d(n) - k
             /\ k < l => up[k] # 0
             /\ k >= 1 => up[k] < n
             /\ \A j \in up[k] + 1 .. n : d(up[k]) < d(j))
    BY DEF Found
  <1>7. l <= d(n)
    OBVIOUS
  <1> HIDE DEF n, up, d
  <1>8. 0 \in T
    <2>0. 0 \in 0 .. l
      OBVIOUS
    <2>1. d(up[0]) = d(n) - 0 /\ ~(0 >= 1)
      <3>1. d(n) \in Nat
        BY <1>1
      <3> QED  BY <1>3, <3>1
    <2>2. 0 < l => up[0] # 0
      BY <1>1, <1>3, <1>5, <1>7
    <2>3. \A j \in up[0] + 1 .. n : d(up[0]) < d(j)
      BY <1>1, <1>3
    <2>4. Found(depth, l, 0)
      BY <1>6, <2>0, <2>1, <2>2, <2>3, Zenon
    <2> QED  BY <2>0, <2>4
  <1>9. ASSUME NEW m \in 1 .. l, m - 1 \in T PROVE m \in T
    <2> DEFINE a == up[m - 1]
               b == up[m]
    <2>1. m \in 0 .. l /\ m - 1 \in 0 .. l /\ m - 1 < l
      OBVIOUS
    <2>2. /\ d(a) = d(n) - (m - 1)
          /\ a # 0
          /\ \A j \in a + 1 .. n : d(a) < d(j)
      BY <1>6, <1>9, <2>1
    <2>3. a \in 1 .. n /\ b = active[a].parent
      BY <1>1, <1>3, <2>1, <2>2
    <2>4. /\ b \in 0 .. a - 1
          /\ d(b) + 1 = d(a)
          /\ \A j \in b + 1 .. a - 1 : d(a) <= d(j)
      BY <1>4, <2>3
    <2> HIDE DEF a, b
    <2>5. b \in 0 .. n /\ d(b) \in Nat /\ d(a) \in Nat /\ d(n) \in Nat
      BY <1>1, <2>3, <2>4
    <2>6. d(b) = d(n) - m
      BY <2>2, <2>4, <2>5
    <2>7. m < l => b # 0
      BY <1>5, <1>7, <2>5, <2>6
    <2>8. b < n
      BY <1>1, <2>3, <2>4
    <2>9. ASSUME NEW j \in b + 1 .. n PROVE d(b) < d(j)
      <3>1. j \in 0 .. n /\ d(j) \in Nat
        BY <1>1, <2>5
      <3>2. CASE j < a
        BY <2>3, <2>4, <2>5, <3>1, <3>2
      <3>3. CASE j = a
        BY <2>4, <2>5, <3>3
      <3>4. CASE j > a
        BY <2>2, <2>3, <2>4, <2>5, <3>1, <3>4
      <3> QED  BY <2>3, <3>1, <3>2, <3>3, <3>4
    <2> QED  BY <1>6, <2>1, <2>6, <2>7, <2>8, <2>9 DEF b
  <1>10. T = 0 .. l
    <2>1. T \in SUBSET (0 .. l)
      OBVIOUS
    <2> HIDE DEF T
    <2> QED  BY <1>8, <1>9, <2>1, UpTo
  <1> QED  BY <1>10

\* The parent of whoever is called now.
LEMMA LatestIsParent ==
    ASSUME NEW callers, NEW m \in Nat, DOMAIN callers = 1 .. m, NEW e, NEW a \in 0 .. m,
           a # 0 => callers[a].proc = program.encloser[e],
           \A j \in a + 1 .. m : callers[j].proc # program.encloser[e]
    PROVE  Parent(callers, e) = a
  <1> DEFINE S == {0} \cup {i \in DOMAIN callers : callers[i].proc = program.encloser[e]}
  <1>1. a \in S /\ \A i \in S : i \in 0 .. m /\ a >= i
    OBVIOUS
  <1>2. Max(S) = a
    <2> HIDE DEF S
    <2>1. \E x \in S : \A y \in S : x >= y
      BY <1>1
    <2>2. Max(S) = CHOOSE x \in S : \A y \in S : x >= y
      BY Zenon DEF Max
    <2>3. Max(S) \in S /\ \A y \in S : Max(S) >= y
      BY <2>1, <2>2
    <2>4. PICK x : x = Max(S)
      OBVIOUS
    <2>5. x \in 0 .. m /\ a >= x /\ x >= a
      BY <1>1, <2>3, <2>4
    <2> QED  BY <2>4, <2>5
  <1> QED  BY <1>2 DEF Parent

\* What get_base finds: the words that lead from one base to the next.
LEMMA BaseSteps ==
    ASSUME NEW l \in Nat, NEW s, NEW h, h[0] = bp,
           \A k \in 1 .. l : InStack(h[k - 1] + 1) /\ s[h[k - 1] + 1] = h[k]
    PROVE  Base(s, l) = h[l]
  <1> DEFINE Defines(b) == b = [k \in 0 .. l |-> IF k = 0 THEN bp
                                                  ELSE IF InStack(b[k - 1] + 1) THEN s[b[k - 1] + 1] ELSE Lost]
             base == CHOOSE b : Defines(b)
             f == [k \in 0 .. l |-> h[k]]
  <1>1. \A k \in 0 .. l : f[k] = h[k]
    OBVIOUS
  <1>2. Defines(f)
    <2>1. \A k \in 0 .. l : f[k] = IF k = 0 THEN bp ELSE IF InStack(f[k - 1] + 1) THEN s[f[k - 1] + 1] ELSE Lost
      <3>1. f[0] = bp
        BY <1>1
      <3>2. \A k \in 1 .. l : f[k - 1] = h[k - 1] /\ f[k] = h[k]
        BY <1>1
      <3> HIDE DEF f
      <3>3. \A k \in 1 .. l : InStack(f[k - 1] + 1) /\ s[f[k - 1] + 1] = f[k]
        BY <3>2
      <3>4. \A k \in 0 .. l : k = 0 \/ k \in 1 .. l
        OBVIOUS
      <3> QED  BY <3>1, <3>3, <3>4, Zenon
    <2>2. f = [k \in 0 .. l |-> f[k]]
      OBVIOUS
    <2> HIDE DEF f
    <2> QED  BY <2>1, <2>2, Zenon
  <1>3. Defines(base)
    <2> HIDE DEF Defines, f
    <2> QED  BY <1>2
  <1>4. \A k \in 0 .. l : base[k] = IF k = 0 THEN bp ELSE IF InStack(base[k - 1] + 1) THEN s[base[k - 1] + 1] ELSE Lost
    <2> HIDE DEF base
    <2> QED  BY <1>3, Zenon
  <1>5. Base(s, l) = base[l]
    BY Zenon DEF Base
  <1> HIDE DEF base, Defines, f
  <1> DEFINE T == {k \in 0 .. l : base[k] = h[k]}
  <1>6. 0 \in T
    BY <1>4
  <1>7. ASSUME NEW m \in 1 .. l, m - 1 \in T PROVE m \in T
    <2>1. m \in 0 .. l /\ m # 0 /\ base[m - 1] = h[m - 1]
      BY <1>7
    <2>2. InStack(h[m - 1] + 1) /\ s[h[m - 1] + 1] = h[m]
      OBVIOUS
    <2>3. base[m] = h[m]
      BY <1>4, <2>1, <2>2, Zenon
    <2> QED  BY <2>1, <2>3
  <1>8. T = 0 .. l
    <2>1. T \in SUBSET (0 .. l)
      OBVIOUS
    <2> HIDE DEF T
    <2> QED  BY <1>6, <1>7, <2>1, UpTo
  <1>9. l \in T
    BY <1>8
  <1> QED  BY <1>5, <1>9

-----------------------------------------------------------------------------
(* The machine at a place.                                                 *)

LEMMA WordsStay == ASSUME NEW w \in Word PROVE Wrap(w) = w
  <1> DEFINE width == WordMax - WordMin + 1
             m == w - WordMin
  <1>1. width \in Nat \ {0} /\ m \in 0 .. width - 1 /\ WordMin \in Int /\ w \in Int
    BY MachineAssumption DEF Word, WordMin
  <1>2. m % width = m
    <2> HIDE DEF width, m
    <2> QED  BY <1>1
  <1> QED  BY <1>1, <1>2 DEF Wrap

LEMMA FrameFacts ==
    ASSUME active \in Seq(Activation(program)), Stacked
    PROVE  /\ Len(active) \in Nat /\ FrameOf(0) = 1
           /\ \A i \in 0 .. Len(active) : FrameOf(i) \in Nat \ {0}
           /\ \A i \in 1 .. Len(active) :
                 /\ FrameOf(i) = active[i].frame
                 /\ 4 * i - 3 <= FrameOf(i)
                 /\ FrameOf(i) + 3 < StackHeight
                 /\ FrameOf(0) <= FrameOf(i)
                 /\ \A j \in 1 .. Len(active) : j < i => FrameOf(j) + 4 <= FrameOf(i)
  <1>1. \A i \in 1 .. Len(active) : active[i] \in Activation(program) /\ i # 0
    OBVIOUS
  <1>2. \A i \in 1 .. Len(active) : FrameOf(i) = active[i].frame /\ FrameOf(i) \in Nat
    BY <1>1 DEF Activation, FrameOf
  <1>3. FrameOf(0) = 1
    BY DEF FrameOf
  <1>4. \A i \in 1 .. Len(active) :
              /\ 4 * i - 3 <= FrameOf(i)
              /\ FrameOf(i) + 3 < StackHeight
              /\ \A j \in 1 .. i - 1 : FrameOf(j) + 4 <= FrameOf(i)
    BY DEF Stacked
  <1>5. \A i \in 0 .. Len(active) : FrameOf(i) \in Nat \ {0}
    BY <1>2, <1>3, <1>4
  <1> QED  BY <1>2, <1>3, <1>4, <1>5

\* The machine runs and is at the place s.
RunsAt(at, depth, s) == /\ TypeOK /\ status = "running"
                        /\ Discipline(program, at, depth)
                        /\ Tidy(at, depth)
                        /\ s \in at /\ IsAt(s)

LEMMA PlaceFacts ==
    ASSUME NEW at, NEW depth, NEW s, RunsAt(at, depth, s)
    PROVE  /\ IsProgram(program) /\ InCode(pc)
           /\ insn = program.code[s.pc] /\ insn \in Insn /\ s.pc = pc
           /\ Allowed(program, at, depth, s) /\ NextPlaces(program, s) \subseteq at
           /\ s \in Places(program)
           /\ s.height \in Nat /\ s.known \in Nat /\ s.link \in Nat \ {0}
           /\ bp \in Nat /\ bp >= 1 /\ bp = FrameOf(Len(active))
           /\ sp = bp + s.height - 1 /\ sp \in Nat /\ sp + 1 \in Word
           /\ s.proc = ProcOf(Len(active))
           /\ (s.proc = Main) = (Len(active) = 0)
           /\ Len(active) # 0 => bp + 3 < StackHeight
  <1>1. /\ active \in Seq(Activation(program)) /\ Stacked /\ bp = FrameOf(Len(active))
        /\ TypeOK /\ IsAt(s) /\ Discipline(program, at, depth) /\ s \in at
    BY DEF RunsAt, Tidy
  <1>2. IsProgram(program) /\ sp \in Int
    BY <1>1 DEF TypeOK, Word
  <1>3. /\ s \in Places(program)
        /\ Allowed(program, at, depth, s) /\ NextPlaces(program, s) \subseteq at
    BY <1>1 DEF Discipline
  <1>4. /\ s.pc = pc /\ s.height = sp - bp + 1
        /\ s.pc \in DOMAIN program.code /\ s.height \in Heights
        /\ s.known \in Nat /\ s.link \in Nat \ {0}
    BY <1>1, <1>3 DEF IsAt, Places, Heights
  <1>5. InCode(pc) /\ insn = program.code[s.pc] /\ insn \in Insn
    BY <1>2, <1>4, ProgramFacts DEF InCode, Code, insn
  <1>6. /\ Len(active) \in Nat /\ bp \in Nat \ {0}
        /\ Len(active) = 0 => bp = 1
        /\ Len(active) # 0 => bp + 3 < StackHeight
    <2>1. Len(active) \in Nat /\ Len(active) \in 0 .. Len(active)
      BY <1>1
    <2>2. Len(active) # 0 => Len(active) \in 1 .. Len(active)
      BY <2>1
    <2> QED  BY <1>1, <2>1, <2>2, FrameFacts
  <1>7. s.height \in Nat /\ sp = bp + s.height - 1 /\ sp \in Nat /\ sp + 1 \in Word
    BY <1>2, <1>4, <1>6, MachineAssumption DEF Heights, Word, WordMin
  <1>8. s.proc = ProcOf(Len(active)) /\ (s.proc = Main) = (Len(active) = 0)
    <2>1. s.proc = ProcOf(Len(active))
      BY <1>1 DEF IsAt
    <2>2. CASE Len(active) = 0
      BY <2>1, <2>2 DEF ProcOf
    <2>3. CASE Len(active) # 0
      <3>1. active[Len(active)] \in Activation(program)
        BY <1>1, <1>6, <2>3
      <3> QED  BY <1>2, <2>1, <2>3, <3>1, ProgramFacts DEF ProcOf, Activation
    <2> QED  BY <2>2, <2>3
  <1>9. bp \in Nat /\ bp >= 1
    BY <1>6
  <1> QED  BY <1>1, <1>2, <1>3, <1>4, <1>5, <1>6, <1>7, <1>8, <1>9, Zenon

\* The bases that the links lead to, in the stack as it is or with a word more.
LinksIn(s) == \A i \in 1 .. Len(active) : s[FrameOf(i) + 1] = FrameOf(active[i].parent)

LEMMA BasesFound ==
    ASSUME IsProgram(program), active \in Seq(Activation(program)), Stacked,
           NEW depth, IsDepth(program, depth), Nested(depth),
           NEW l \in Nat, l <= depth[ProcOf(Len(active))],
           bp = FrameOf(Len(active)), NEW s, l # 0 => LinksIn(s)
    PROVE  \A k \in 0 .. l : Base(s, k) = FrameOf(Outwards(l)[k])
  <1> DEFINE n == Len(active)
             up == Outwards(l)
             h == [k \in 0 .. l |-> FrameOf(up[k])]
  <1>1. n \in Nat /\ Parented
    BY DEF Nested, Parented, ParentedIn
  <1>2. /\ up \in [0 .. l -> 0 .. n]
        /\ up[0] = n
        /\ \A k \in 1 .. l : up[k] = IF up[k - 1] = 0 THEN 0 ELSE active[up[k - 1]].parent
    BY <1>1, OutwardsSteps
  <1>3. \A k \in 0 .. l : k < l => up[k] # 0
    BY ScopeIsFound DEF Found
  <1>4. h[0] = bp
    BY <1>2
  <1>5. \A k \in 1 .. l : InStack(h[k - 1] + 1) /\ s[h[k - 1] + 1] = h[k]
    <2> SUFFICES ASSUME NEW k \in 1 .. l PROVE InStack(h[k - 1] + 1) /\ s[h[k - 1] + 1] = h[k]
      OBVIOUS
    <2>1. k - 1 \in 0 .. l /\ k \in 0 .. l /\ k - 1 < l /\ l # 0
      OBVIOUS
    <2>2. h[k - 1] = FrameOf(up[k - 1]) /\ h[k] = FrameOf(up[k])
      BY <2>1
    <2> HIDE DEF h, up, n
    <2>3. up[k - 1] \in 1 .. n
      BY <1>1, <1>2, <1>3, <2>1
    <2>4. up[k] = active[up[k - 1]].parent
      BY <1>2, <2>3
    <2>5. InStack(FrameOf(up[k - 1]) + 1)
      BY <2>3, FrameFacts, MachineAssumption DEF InStack, n
    <2>6. s[FrameOf(up[k - 1]) + 1] = FrameOf(up[k])
      BY <2>1, <2>3, <2>4 DEF LinksIn, n
    <2> QED  BY <2>2, <2>5, <2>6
  <1>6. ASSUME NEW k \in 0 .. l PROVE Base(s, k) = h[k]
    <2>1. k \in Nat /\ \A j \in 1 .. k : j \in 1 .. l
      OBVIOUS
    <2> HIDE DEF h
    <2> QED  BY <1>4, <1>5, <2>1, BaseSteps, SMTT(30)
  <1> QED  BY <1>6

LEMMA FirstOutwards ==
    ASSUME NEW act, Len(act) \in Nat \ {0}, ParentedIn(act)
    PROVE  OutwardsIn(act, 1)[1] = act[Len(act)].parent
  <1>1. /\ OutwardsIn(act, 1)[0] = Len(act)
        /\ \A k \in 1 .. 1 : OutwardsIn(act, 1)[k] = IF OutwardsIn(act, 1)[k - 1] = 0 THEN 0
                                                     ELSE act[OutwardsIn(act, 1)[k - 1]].parent
    BY OutwardsInSteps
  <1> QED  BY <1>1

LEMMA TidyFacts ==
    ASSUME NEW at, NEW depth, NEW s, RunsAt(at, depth, s)
    PROVE  /\ active \in Seq(Activation(program)) /\ Len(active) \in Nat
           /\ framecount = Len(active) /\ bp = FrameOf(Len(active))
           /\ Nested(depth) /\ Parented /\ Stacked /\ Linking /\ Waiting(at)
           /\ IsAt(s) /\ s \in at
           /\ Discipline(program, at, depth) /\ IsDepth(program, depth)
           /\ TypeOK /\ IsProgram(program)
           /\ stack \in [0 .. StackHeight - 1 -> Word]
  BY DEF RunsAt, Tidy, Nested, Parented, ParentedIn, Discipline, TypeOK

\* Where the last frame's link is that of its procedure, all are.
LEMMA PlaceLinks ==
    ASSUME NEW at, NEW depth, NEW s, RunsAt(at, depth, s), s.link = 1
    PROVE  LinksIn(stack)
  <1>1. ASSUME NEW i \in 1 .. Len(active) PROVE stack[FrameOf(i) + 1] = FrameOf(active[i].parent)
    <2>1. Len(active) \in Nat
      BY TidyFacts
    <2>2. CASE i < Len(active)
      BY <2>2, TidyFacts DEF Linking
    <2>3. CASE i = Len(active)
      <3>1. Len(active) \in Nat \ {0} /\ active # << >>
        BY <2>1, <2>3
      <3>2. Outwards(1)[1] = active[i].parent
        BY <2>3, <3>1, TidyFacts, FirstOutwards DEF Outwards, Parented
      <3>3. stack[bp + 1] = FrameOf(Outwards(1)[1])
        BY <3>1, TidyFacts DEF IsAt
      <3> QED  BY <2>3, <3>2, <3>3, TidyFacts
    <2> QED  BY <2>1, <2>2, <2>3
  <1> QED  BY <1>1 DEF LinksIn

\* What an instruction of some level is about is in the frame of the scope it means.
LEMMA PlaceBases ==
    ASSUME NEW at, NEW depth, NEW s, RunsAt(at, depth, s), insn.op \in {"LOD", "STO", "CAL"}
    PROVE  /\ insn.lvl \in Nat /\ insn.lvl <= depth[ProcOf(Len(active))]
           /\ insn.lvl # 0 => s.link = 1
           /\ \A k \in 0 .. insn.lvl : Base(stack, k) = FrameOf(Outwards(insn.lvl)[k])
  <1>1. /\ insn.lvl \in Nat /\ insn.lvl <= depth[ProcOf(Len(active))]
        /\ insn.lvl # 0 => s.link = 1
    BY PlaceFacts DEF Allowed, Insn
  <1>2. insn.lvl # 0 => LinksIn(stack)
    BY <1>1, PlaceLinks
  <1> QED  BY <1>1, <1>2, TidyFacts, BasesFound

LEMMA PlaceReaches ==
    ASSUME NEW at, NEW depth, NEW s, RunsAt(at, depth, s) PROVE ReachesItsScope
  <1>1. SUFFICES ASSUME insn.op \in {"LOD", "STO", "CAL"} PROVE ReachesItsScope
    BY DEF ReachesItsScope
  <1>2. \A k \in 0 .. insn.lvl : Base(stack, k) = FrameOf(Outwards(insn.lvl)[k])
    BY <1>1, PlaceBases
  <1> QED  BY <1>2, Zenon DEF ReachesItsScope, Outwards, OutwardsIn

\* The word that a LOD or STO is about: where it lies, and that it is in the stack unless
\* the stack has run out.
SlotAt(a) == /\ Slot = FrameOf(a) + insn.imm
             /\ \/ a < Len(active) /\ Slot < FrameOf(a + 1) /\ InStack(Slot)
                \/ a = Len(active) /\ (InStack(Slot) \/ StackHeight <= sp)

LEMMA SlotFound ==
    ASSUME NEW at, NEW depth, NEW s, RunsAt(at, depth, s), insn.op \in {"LOD", "STO"}
    PROVE  \E a \in 0 .. Len(active) : /\ SlotAt(a)
                                       /\ a = Outwards(insn.lvl)[insn.lvl]
                                       /\ insn.imm \in Nat
                                       /\ ProcOf(a) = Scope(program, s.proc, insn.lvl)
  <1> DEFINE n == Len(active)
             l == insn.lvl
             a == Outwards(l)[l]
             i == program.code[s.pc]
  <1>1. /\ l \in Nat /\ l <= depth[ProcOf(n)]
        /\ l # 0 => s.link = 1
        /\ Base(stack, l) = FrameOf(a)
    BY PlaceBases
  <1>2. /\ n \in Nat /\ a \in 0 .. n
        /\ l = 0 => a = n
        /\ l # 0 => a < n
    <2>1. Found(depth, l, l)
      BY <1>1, TidyFacts, ScopeIsFound
    <2>2. n \in Nat /\ Outwards(l) \in [0 .. l -> 0 .. n] /\ Outwards(l)[0] = n
      BY <1>1, TidyFacts, OutwardsSteps
    <2>3. l # 0 => a < n
      BY <1>1, <2>1 DEF Found
    <2>4. a \in 0 .. n
      BY <1>1, <2>2
    <2> QED  BY <2>2, <2>3, <2>4
  <1>3. ProcOf(a) = Scope(program, s.proc, l)
    BY <1>1, TidyFacts, PlaceFacts, OutwardsScope
  <1>4. /\ insn.imm \in Nat
        /\ l = 0 => insn.imm < s.height \/ insn.imm < s.known
        /\ l # 0 => \A c \in at : (c.proc = ProcOf(a) /\ program.code[c.pc].op = "CAL") => insn.imm < c.height
    <2>1. insn.imm \in Int
      BY PlaceFacts DEF Insn, Word
    <2> QED  BY <1>3, <2>1, PlaceFacts DEF Allowed
  <1>5. FrameOf(a) \in Nat \ {0} /\ FrameOf(a) # Lost
    <2>1. FrameOf(a) \in Nat \ {0}
      BY <1>2, TidyFacts, FrameFacts
    <2> QED  BY <2>1, MachineAssumption DEF Lost, WordMin
  <1>6. Slot = Wrap(FrameOf(a) + insn.imm)
    BY <1>1, <1>5 DEF Slot
  <1> HIDE DEF n, l, a
  <1>7. CASE l = 0
    <2>1. FrameOf(a) = bp
      BY <1>2, <1>7, PlaceFacts DEF n
    <2>2. bp + s.known <= StackHeight \/ s.known = 0
      BY TidyFacts DEF IsAt
    <2>3. bp + insn.imm <= sp \/ bp + insn.imm < StackHeight
      <3>1. sp = bp + s.height - 1 /\ s.height \in Nat /\ s.known \in Nat /\ bp \in Nat
        BY PlaceFacts
      <3> QED  BY <1>4, <1>7, <2>2, <3>1, MachineAssumption
    <2>4. bp \in Nat /\ sp \in Nat /\ sp + 1 \in Word
      BY PlaceFacts
    <2>5. bp + insn.imm \in Word
      BY <1>4, <2>3, <2>4, MachineAssumption DEF Word, WordMin
    <2>6. Slot = bp + insn.imm
      BY <1>6, <2>1, <2>5, WordsStay
    <2>7. InStack(Slot) \/ StackHeight <= sp
      BY <1>4, <2>3, <2>4, <2>6, MachineAssumption DEF InStack
    <2>8. SlotAt(a)
      BY <1>2, <1>7, <2>1, <2>6, <2>7 DEF SlotAt, n
    <2> QED  BY <1>2, <1>3, <1>4, <2>8 DEF n, l, a
  <1>8. CASE l # 0
    <2>1. a \in 0 .. n /\ a < n /\ a + 1 \in 1 .. n /\ a = (a + 1) - 1
      BY <1>2, <1>8
    <2>2. PICK c \in at : WaitsAt(a + 1, c)
      BY <2>1, TidyFacts DEF Waiting, n
    <2>3. c.proc = ProcOf(a) /\ program.code[c.pc].op = "CAL" /\ c.height = FrameOf(a + 1) - FrameOf(a)
      BY <2>1, <2>2 DEF WaitsAt, Code
    <2>4. insn.imm < FrameOf(a + 1) - FrameOf(a)
      BY <1>4, <1>8, <2>3
    <2>5. FrameOf(a + 1) \in Nat /\ FrameOf(a + 1) + 3 < StackHeight
      BY <2>1, TidyFacts, FrameFacts DEF n
    <2>6. FrameOf(a) + insn.imm < FrameOf(a + 1) /\ FrameOf(a) + insn.imm \in 0 .. StackHeight - 1
      BY <1>4, <1>5, <2>4, <2>5, MachineAssumption
    <2>7. Slot = FrameOf(a) + insn.imm
      BY <1>6, <2>6, WordsStay, MachineAssumption DEF Word, WordMin
    <2>8. SlotAt(a)
      BY <2>1, <2>6, <2>7 DEF SlotAt, InStack, n
    <2> QED  BY <1>2, <1>3, <1>4, <2>8 DEF n, l, a
  <1> QED  BY <1>7, <1>8

\* A word above the links of its own frame and below the next one's is no link.
Spared(x) == \A i \in 1 .. Len(active) : x # FrameOf(i) + 1 /\ x # FrameOf(i) + 2 /\ x # FrameOf(i) + 3

LEMMA SlotSpared ==
    ASSUME active \in Seq(Activation(program)), Stacked,
           NEW a \in 0 .. Len(active), NEW m \in Nat,
           a < Len(active) => FrameOf(a) + m < FrameOf(a + 1),
           a # 0 => m \notin 1 .. 3
    PROVE  Spared(FrameOf(a) + m)
  <1> SUFFICES ASSUME NEW i \in 1 .. Len(active)
               PROVE  \A k \in 1 .. 3 : FrameOf(a) + m # FrameOf(i) + k
    <2>1. 1 \in 1 .. 3 /\ 2 \in 1 .. 3 /\ 3 \in 1 .. 3
      OBVIOUS
    <2> QED  BY <2>1 DEF Spared
  <1>1. Len(active) \in Nat /\ FrameOf(a) \in Nat /\ FrameOf(i) \in Nat
    BY FrameFacts
  <1>2. CASE i < a
    <2>1. a \in 1 .. Len(active) /\ FrameOf(i) + 4 <= FrameOf(a)
      BY <1>1, <1>2, FrameFacts
    <2> QED  BY <1>1, <2>1
  <1>3. CASE i = a
    BY <1>1, <1>3
  <1>4. CASE i > a
    <2>1. a + 1 \in 1 .. Len(active) /\ a < Len(active) /\ FrameOf(a + 1) \in Nat
      BY <1>1, <1>4, FrameFacts
    <2>2. FrameOf(a + 1) <= FrameOf(i)
      <3>1. CASE i = a + 1
        BY <2>1, <3>1
      <3>2. CASE i # a + 1
        <4>1. a + 1 < i
          BY <1>1, <1>4, <3>2
        <4>2. FrameOf(a + 1) + 4 <= FrameOf(i)
          BY <2>1, <4>1, FrameFacts
        <4> QED  BY <1>1, <2>1, <4>2
      <3> QED  BY <3>1, <3>2
    <2> QED  BY <1>1, <2>1, <2>2
  <1> QED  BY <1>1, <1>2, <1>3, <1>4

-----------------------------------------------------------------------------
(* The steps.                                                              *)

StaysInFrame == UNCHANGED <<program, bp, frames, framecount, active>>

\* What a step within a frame leaves of the links, and the place t it leads to.
LinksStay == \A i \in 1 .. Len(active) :
                 /\ i < Len(active) => stack'[FrameOf(i) + 1] = stack[FrameOf(i) + 1]
                 /\ stack'[FrameOf(i) + 2] = stack[FrameOf(i) + 2]
                 /\ stack'[FrameOf(i) + 3] = stack[FrameOf(i) + 3]
GoesTo(s, t) == /\ t.pc = pc'
                /\ t.proc = s.proc
                /\ t.height = sp' - bp + 1
                /\ bp + t.known <= StackHeight \/ t.known = 0
                /\ active # << >> => stack'[bp + 1] = FrameOf(Outwards(t.link)[t.link])

LEMMA FrameStays ==
    ASSUME NEW at, NEW depth, NEW s, RunsAt(at, depth, s),
           StaysInFrame, LinksStay, NEW t \in at, GoesTo(s, t)
    PROVE  Tidy(at, depth)'
  <1>1. /\ program' = program /\ bp' = bp /\ frames' = frames
        /\ framecount' = framecount /\ active' = active
    BY DEF StaysInFrame
  <1>2. (active \in Seq(Activation(program)))' /\ (framecount = Len(active))'
    BY <1>1, TidyFacts DEF Activation
  <1>3. /\ \A i : FrameOf(i)' = FrameOf(i) /\ ProcOf(i)' = ProcOf(i)
        /\ (bp = FrameOf(Len(active)))'
    BY <1>1, TidyFacts DEF FrameOf, ProcOf
  <1>4. Nested(depth)'
    BY <1>1, TidyFacts DEF Nested, ProcOf
  <1>5. Stacked'
    BY <1>1, TidyFacts DEF Stacked, FrameOf
  <1>6. Linking'
    <2>1. \A i \in 1 .. Len(active) :
               /\ i < Len(active) => stack[FrameOf(i) + 1] = FrameOf(active[i].parent)
               /\ stack[FrameOf(i) + 2] = FrameOf(i - 1)
               /\ stack[FrameOf(i) + 3] = active[i].caller.pc
               /\ frames[i - 1] = FrameOf(i)
      BY TidyFacts DEF Linking
    <2>2. \A i \in 1 .. Len(active) :
               /\ i < Len(active) => stack'[FrameOf(i) + 1] = FrameOf(active[i].parent)
               /\ stack'[FrameOf(i) + 2] = FrameOf(i - 1)
               /\ stack'[FrameOf(i) + 3] = active[i].caller.pc
               /\ frames[i - 1] = FrameOf(i)
      BY <2>1, Zenon DEF LinksStay
    <2> QED  BY <1>1, <2>2 DEF Linking, FrameOf
  <1>7. Waiting(at)'
    <2>1. \A i \in 1 .. Len(active) : \E c \in at : WaitsAt(i, c)
      BY TidyFacts DEF Waiting
    <2>2. ASSUME NEW i, NEW c, WaitsAt(i, c) PROVE WaitsAt(i, c)'
      BY <1>1, <1>3, <2>2 DEF WaitsAt, Code
    <2> QED  BY <1>1, <2>1, <2>2, Zenon DEF Waiting
  <1>8. IsAt(t)'
    <2>1. (active # << >>)' => stack'[bp'+ 1] = FrameOf(Outwards(t.link)[t.link])'
      BY <1>1 DEF GoesTo, FrameOf, Outwards
    <2>2. t.proc = ProcOf(Len(active))'
      BY <1>1, TidyFacts DEF GoesTo, IsAt, ProcOf
    <2> QED  BY <1>1, <2>1, <2>2 DEF IsAt, GoesTo
  <1> QED  BY <1>2, <1>3, <1>4, <1>5, <1>6, <1>7, <1>8 DEF Tidy

\* The link of the last frame stays what it is.
GoesOn(s, t) == /\ t.pc = pc'
                /\ t.proc = s.proc /\ t.link = s.link
                /\ t.height = sp' - bp + 1
                /\ bp + t.known <= StackHeight \/ t.known = 0

LEMMA WordStored ==
    ASSUME NEW at, NEW depth, NEW s, RunsAt(at, depth, s),
           StaysInFrame, NEW x, NEW w, Spared(x), stack' = [stack EXCEPT ![x] = w],
           NEW t \in at, GoesOn(s, t)
    PROVE  Tidy(at, depth)'
  <1>1. \A y : y # x /\ y \in 0 .. StackHeight - 1 => stack'[y] = stack[y]
    BY TidyFacts
  <1>2. \A i \in 1 .. Len(active) : FrameOf(i) \in Nat /\ FrameOf(i) + 3 < StackHeight
    BY TidyFacts, FrameFacts
  <1>3. \A i \in 1 .. Len(active) : /\ FrameOf(i) + 1 \in 0 .. StackHeight - 1
                                    /\ FrameOf(i) + 2 \in 0 .. StackHeight - 1
                                    /\ FrameOf(i) + 3 \in 0 .. StackHeight - 1
    BY <1>2, MachineAssumption
  <1>4. \A i \in 1 .. Len(active) : /\ stack'[FrameOf(i) + 1] = stack[FrameOf(i) + 1]
                                    /\ stack'[FrameOf(i) + 2] = stack[FrameOf(i) + 2]
                                    /\ stack'[FrameOf(i) + 3] = stack[FrameOf(i) + 3]
    BY <1>1, <1>3, Zenon DEF Spared
  <1>5. LinksStay
    BY <1>4 DEF LinksStay
  <1>6. active # << >> => stack'[bp + 1] = FrameOf(Outwards(t.link)[t.link])
    <2>1. active # << >> => Len(active) \in 1 .. Len(active)
      BY TidyFacts
    <2>2. active # << >> => stack'[bp + 1] = stack[bp + 1]
      BY <1>4, <2>1, TidyFacts
    <2> QED  BY <2>2, TidyFacts DEF IsAt, GoesOn
  <1>7. GoesTo(s, t)
    BY <1>6 DEF GoesTo, GoesOn
  <1> QED  BY <1>5, <1>7, FrameStays

LEMMA NothingStored ==
    ASSUME NEW at, NEW depth, NEW s, RunsAt(at, depth, s),
           StaysInFrame, stack' = stack, NEW t \in at, GoesOn(s, t)
    PROVE  Tidy(at, depth)'
  <1>1. LinksStay
    BY DEF LinksStay
  <1>2. GoesTo(s, t)
    BY TidyFacts DEF GoesTo, GoesOn, IsAt
  <1> QED  BY <1>1, <1>2, FrameStays

\* What each step has to show.
Kept(at, depth) == /\ status' = "running" => Tidy(at, depth)'
                   /\ StopsForWantOfStack'

\* The stack's end is the only thing that stops it, or a division.
LEMMA StackRunsOut ==
    ASSUME NEW at, NEW depth, NEW s, RunsAt(at, depth, s),
           NEW newStack, NEW n \in Word, Fail(newStack, n, pc),
           n + 4 >= StackHeight \/ insn.op \in {"DIV", "MOD"}
    PROVE  Kept(at, depth)
  <1>1. sp' = n /\ pc' = pc /\ program' = program /\ status' = "error"
    BY WordsStay DEF Fail
  <1>2. (InCode(pc) /\ insn.op \in {"DIV", "MOD"})' = (insn.op \in {"DIV", "MOD"})
    BY <1>1, PlaceFacts DEF InCode, Code, insn
  <1> QED  BY <1>1, <1>2 DEF Kept, StopsForWantOfStack

LEMMA GoesOnKept ==
    ASSUME NEW at, NEW depth, status' = "running", Tidy(at, depth)'
    PROVE  Kept(at, depth)
  BY DEF Kept, StopsForWantOfStack

\* LIT and READ, and what LOD pushes but for the link of a tail call.
LEMMA PushKept ==
    ASSUME NEW at, NEW depth, NEW s, RunsAt(at, depth, s),
           NEW w, Push(w), Pushing(s) \in at, Links(s.proc) <= s.height
    PROVE  Kept(at, depth)
  <1>1. CASE ~InStack(sp + 1)
    <2>1. Fail(stack, sp + 1, pc)
      BY <1>1 DEF Push
    <2>2. sp + 1 \in Word /\ sp + 1 + 4 >= StackHeight
      BY <1>1, PlaceFacts, MachineAssumption DEF InStack
    <2> QED  BY <2>1, <2>2, StackRunsOut
  <1>2. CASE InStack(sp + 1)
    <2>1. /\ stack' = [stack EXCEPT ![sp + 1] = w] /\ sp' = sp + 1 /\ pc' = pc + 1
          /\ StaysInFrame /\ status' = "running"
      BY <1>2 DEF Push, Continue, Fail, traceVars, StaysInFrame, RunsAt
    <2>2. /\ sp = bp + s.height - 1 /\ s.height \in Nat /\ s.known \in Nat /\ bp \in Nat
          /\ s.pc = pc /\ sp + 1 < StackHeight
      BY <1>2, PlaceFacts, MachineAssumption DEF InStack
    <2>3. Spared(sp + 1)
      <3>1. /\ Len(active) \in 0 .. Len(active) /\ ~(Len(active) < Len(active))
            /\ FrameOf(Len(active)) = bp
        BY TidyFacts
      <3>2. Len(active) # 0 => s.height \notin 1 .. 3
        BY <2>2, PlaceFacts DEF Links
      <3>3. Spared(FrameOf(Len(active)) + s.height)
        BY <2>2, <3>1, <3>2, TidyFacts, SlotSpared
      <3>4. sp + 1 = FrameOf(Len(active)) + s.height
        BY <2>2, <3>1
      <3> QED  BY <3>3, <3>4
    <2>4. GoesOn(s, Pushing(s))
      <3>1. s \in Places(program)
        BY PlaceFacts
      <3>2. /\ Pushing(s).pc = s.pc + 1 /\ Pushing(s).height = s.height + 1
            /\ Pushing(s).proc = s.proc /\ Pushing(s).link = s.link
            /\ Pushing(s).known = IF s.height < s.known THEN s.known ELSE s.height + 1
        BY <3>1 DEF Pushing, Going, Places
      <3>3. bp + s.known <= StackHeight \/ s.known = 0
        BY TidyFacts DEF IsAt
      <3> DEFINE t == Pushing(s)
      <3> HIDE DEF t
      <3>4. t.pc = pc' /\ t.proc = s.proc /\ t.link = s.link /\ t.height = sp' - bp + 1
        BY <2>1, <2>2, <3>2 DEF t
      <3>5. bp + t.known <= StackHeight \/ t.known = 0
        <4>1. t.known = IF s.height < s.known THEN s.known ELSE s.height + 1
          BY <3>2 DEF t
        <4> QED  BY <2>2, <3>3, <4>1, MachineAssumption
      <3> QED  BY <3>4, <3>5 DEF GoesOn, t
    <2>5. Tidy(at, depth)'
      BY <2>1, <2>3, <2>4, WordStored
    <2> QED  BY <2>1, <2>5, GoesOnKept
  <1> QED  BY <1>1, <1>2

\* The instruction's successors are places, one by one.
LEMMA NextFacts ==
    ASSUME NEW at, NEW depth, NEW s, RunsAt(at, depth, s)
    PROVE  /\ insn.op \in {"LIT", "READ"} => Pushing(s) \in at
           /\ insn.op = "LOD" /\ ~Relinks(program, s) => Pushing(s) \in at
           /\ insn.op = "LOD" /\ Relinks(program, s) => [Pushing(s) EXCEPT !.link = insn.lvl + 1] \in at
           /\ insn.op \in {"STO", "WRITE"} \cup Binary => Going(s, s.pc + 1, s.height - 1) \in at
           /\ insn.op \in Unary => Going(s, s.pc + 1, s.height) \in at
           /\ insn.op = "INC" => Going(s, s.pc + 1, s.height + insn.imm) \in at
           /\ insn.op = "JPC" => /\ Going(s, s.pc + 1, s.height - 1) \in at
                                 /\ Going(s, insn.imm, s.height - 1) \in at
           /\ insn.op = "JMP" /\ HandsOver(program, s) => [Entry(insn.imm) EXCEPT !.height = s.height] \in at
           /\ insn.op = "JMP" /\ ~HandsOver(program, s) => Going(s, insn.imm, s.height) \in at
           /\ insn.op = "CAL" => Entry(insn.imm) \in at /\ Going(s, s.pc + 1, s.height) \in at
  <1>1. insn = program.code[s.pc] /\ NextPlaces(program, s) \subseteq at
    BY PlaceFacts
  <1>2. CASE insn.op \in {"LIT", "READ", "STO", "WRITE", "INC"}
    BY <1>1, <1>2 DEF NextPlaces, Unary, Binary
  <1>3. CASE insn.op = "LOD"
    BY <1>1, <1>3 DEF NextPlaces, Unary, Binary
  <1>4. CASE insn.op \in {"JPC", "CAL"}
    BY <1>1, <1>4 DEF NextPlaces, Unary, Binary
  <1>5. CASE insn.op = "JMP"
    BY <1>1, <1>5 DEF NextPlaces, Unary, Binary
  <1>6. CASE insn.op \in Unary
    BY <1>1, <1>6 DEF NextPlaces, Unary, Binary
  <1>7. CASE insn.op \in Binary
    BY <1>1, <1>7 DEF NextPlaces, Unary, Binary
  <1> QED  BY <1>2, <1>3, <1>4, <1>5, <1>6, <1>7

\* The static link of a tail call is laid over the one of the frame.
LEMMA RelinkKept ==
    ASSUME NEW at, NEW depth, NEW s, RunsAt(at, depth, s),
           insn.op = "LOD", Relinks(program, s), InStack(Slot), Push(stack[Slot])
    PROVE  Kept(at, depth)
  <1> DEFINE n == Len(active)
             l == insn.lvl
             a == Outwards(l)[l]
             t == [Pushing(s) EXCEPT !.link = l + 1]
  <1>1. insn.imm = 1 /\ s.height = 1 /\ s.proc # Main
    BY PlaceFacts DEF Relinks
  <1>2. l \in Nat /\ l < depth[ProcOf(n)] /\ s.link = 1
    BY PlaceFacts DEF Allowed, Insn
  <1>3. n \in Nat \ {0} /\ bp = FrameOf(n) /\ bp \in Nat /\ sp = bp /\ bp + 3 < StackHeight
    BY <1>1, PlaceFacts, TidyFacts
  <1>4. Slot = FrameOf(a) + 1
    BY <1>1, SlotFound DEF SlotAt
  <1>5. a \in 1 .. n /\ Outwards(l + 1)[l + 1] = active[a].parent
    <2>1. l \in 0 .. l + 1 /\ l + 1 \in Nat /\ l + 1 \in 1 .. l + 1 /\ (l + 1) - 1 = l /\ l < l + 1
      BY <1>2
    <2>2. l + 1 <= depth[ProcOf(n)]
      <3>1. depth[ProcOf(n)] \in Nat
        BY <1>3, TidyFacts, ProcTypes
      <3> QED  BY <1>2, <3>1
    <2>3. Outwards(l + 1)[l] # 0
      <3>1. Found(depth, l + 1, l)
        BY <2>1, <2>2, TidyFacts, ScopeIsFound
      <3> QED  BY <2>1, <3>1 DEF Found
    <2>4. Outwards(l + 1)[l] = a
      BY <1>2, <2>1, TidyFacts, OutwardsAgree
    <2>5. /\ Outwards(l + 1) \in [0 .. l + 1 -> 0 .. n]
          /\ Outwards(l + 1)[l + 1] = IF Outwards(l + 1)[l] = 0 THEN 0
                                      ELSE active[Outwards(l + 1)[l]].parent
      <3>1. /\ Outwards(l + 1) \in [0 .. l + 1 -> 0 .. n]
            /\ \A k \in 1 .. l + 1 : Outwards(l + 1)[k] = IF Outwards(l + 1)[k - 1] = 0 THEN 0
                                                          ELSE active[Outwards(l + 1)[k - 1]].parent
        BY <2>1, TidyFacts, OutwardsSteps
      <3> QED  BY <2>1, <3>1
    <2>6. Outwards(l + 1)[l] \in 0 .. n
      BY <2>1, <2>5
    <2> HIDE DEF a
    <2> QED  BY <1>3, <2>3, <2>4, <2>5, <2>6
  <1>6. stack[Slot] = FrameOf(Outwards(l + 1)[l + 1])
    BY <1>2, <1>4, <1>5, PlaceLinks DEF LinksIn
  <1>7. /\ stack' = [stack EXCEPT ![bp + 1] = stack[Slot]] /\ sp' = bp + 1 /\ pc' = pc + 1
        /\ StaysInFrame /\ status' = "running"
    <2>1. InStack(sp + 1)
      BY <1>3, MachineAssumption DEF InStack
    <2> QED  BY <1>3, <2>1 DEF Push, Continue, Fail, traceVars, StaysInFrame, RunsAt
  <1>8. t \in at
    BY NextFacts
  <1>9. LinksStay
    <2>1. ASSUME NEW i \in 1 .. n
          PROVE  /\ FrameOf(i) \in Nat /\ FrameOf(i) + 3 < StackHeight
                 /\ i < n => FrameOf(i) + 4 <= bp
                 /\ i = n => FrameOf(i) = bp
      BY <1>3, TidyFacts, FrameFacts
    <2>2. ASSUME NEW i \in 1 .. n
          PROVE  /\ i < n => FrameOf(i) + 1 # bp + 1
                 /\ FrameOf(i) + 2 # bp + 1
                 /\ FrameOf(i) + 3 # bp + 1
                 /\ FrameOf(i) + 1 \in 0 .. StackHeight - 1
                 /\ FrameOf(i) + 2 \in 0 .. StackHeight - 1
                 /\ FrameOf(i) + 3 \in 0 .. StackHeight - 1
      <3>1. i < n \/ i = n
        BY <1>3
      <3> QED  BY <1>3, <2>1, <3>1, MachineAssumption, SMTT(30)
    <2>3. \A y : y # bp + 1 /\ y \in 0 .. StackHeight - 1 => stack'[y] = stack[y]
      BY <1>7, TidyFacts
    <2> QED  BY <2>2, <2>3, Zenon DEF LinksStay
  <1>10. GoesTo(s, t)
    <2>1. s \in Places(program) /\ s.pc = pc /\ s.known \in Nat
      BY PlaceFacts
    <2>2. /\ t.pc = pc + 1 /\ t.height = 2 /\ t.proc = s.proc /\ t.link = l + 1
          /\ t.known = IF 1 < s.known THEN s.known ELSE 2
      <3>1. Pushing(s) = [s EXCEPT !.pc = pc + 1, !.height = 2, !.known = IF 1 < @ THEN @ ELSE 2]
        BY <1>1, <2>1 DEF Pushing, Going, Places
      <3> QED  BY <2>1, <3>1 DEF Places
    <2> HIDE DEF t
    <2>3. stack'[bp + 1] = FrameOf(Outwards(t.link)[t.link])
      <3>1. bp + 1 \in 0 .. StackHeight - 1
        BY <1>3, MachineAssumption
      <3>2. stack'[bp + 1] = stack[Slot]
        BY <1>7, <3>1, TidyFacts
      <3> QED  BY <1>6, <2>2, <3>2
    <2>4. bp + s.known <= StackHeight \/ s.known = 0
      BY TidyFacts DEF IsAt
    <2>5. bp + t.known <= StackHeight \/ t.known = 0
      BY <1>3, <2>1, <2>2, <2>4, MachineAssumption
    <2>6. t.height = sp' - bp + 1
      BY <1>3, <1>7, <2>2
    <2> QED  BY <1>7, <2>2, <2>3, <2>5, <2>6 DEF GoesTo
  <1> HIDE DEF t
  <1>11. Tidy(at, depth)'
    BY <1>7, <1>8, <1>9, <1>10, FrameStays
  <1> QED  BY <1>7, <1>11, GoesOnKept

LEMMA LodKept ==
    ASSUME NEW at, NEW depth, NEW s, RunsAt(at, depth, s), Lod
    PROVE  Kept(at, depth)
  <1>1. insn.op = "LOD"
    BY DEF Lod, Execute
  <1>2. CASE InStack(Slot) /\ Push(stack[Slot])
    <2>1. CASE Relinks(program, s)
      BY <1>1, <1>2, <2>1, RelinkKept
    <2>2. CASE ~Relinks(program, s)
      <3>1. Pushing(s) \in at
        BY <1>1, <2>2, NextFacts
      <3>2. Links(s.proc) <= s.height
        <4>1. Links(s.proc) + Pops("LOD") <= s.height
          BY <1>1, <2>2, PlaceFacts DEF Allowed
        <4>2. Pops("LOD") = 0
          BY DEF Pops, Unary, Binary
        <4> QED  BY <4>1, <4>2 DEF Links
      <3> QED  BY <1>2, <3>1, <3>2, PushKept
    <2> QED  BY <2>1, <2>2
  <1>3. CASE ~InStack(Slot)
    <2>1. StackHeight <= sp
      BY <1>1, <1>3, SlotFound DEF SlotAt
    <2>2. PICK w \in {sp, sp + 1} : Fail(stack, w, pc)
      BY <1>3 DEF Lod
    <2>3. w \in Word /\ w + 4 >= StackHeight
      <3>1. sp \in Nat /\ sp \in Word /\ sp + 1 \in Word
        BY PlaceFacts, TidyFacts DEF TypeOK
      <3> QED  BY <2>1, <3>1, MachineAssumption
    <2> QED  BY <2>2, <2>3, StackRunsOut
  <1> QED  BY <1>2, <1>3 DEF Lod

\* An instruction finds its operands above the links of the frame.
LEMMA OperandFacts ==
    ASSUME NEW at, NEW depth, NEW s, RunsAt(at, depth, s),
           insn.op \notin {"INC", "JMP", "RET", "HALT", "LOD"}
    PROVE  /\ insn.op \in {"STO", "WRITE", "JPC"} \cup Unary => Links(s.proc) + 1 <= s.height
           /\ insn.op \in Binary => Links(s.proc) + 2 <= s.height
           /\ insn.op \in {"LIT", "READ", "CAL"} => Links(s.proc) <= s.height
           /\ Links(s.proc) = IF Len(active) = 0 THEN 0 ELSE 4
  <1>1. insn = program.code[s.pc] /\ Links(s.proc) = IF Len(active) = 0 THEN 0 ELSE 4
    BY PlaceFacts DEF Links
  <1>2. Links(s.proc) + Pops(insn.op) <= s.height
    BY <1>1, PlaceFacts DEF Allowed, Relinks
  <1>3. Links(s.proc) \in Nat
    BY DEF Links
  <1>4. /\ insn.op \in {"STO", "WRITE", "JPC"} \cup Unary => Pops(insn.op) = 1
        /\ insn.op \in Binary => Pops(insn.op) = 2
        /\ insn.op \in {"LIT", "READ", "CAL"} => Pops(insn.op) = 0
    BY DEF Pops, Unary, Binary
  <1> QED  BY <1>1, <1>2, <1>3, <1>4

LEMMA GoingOn ==
    ASSUME NEW at, NEW depth, NEW s, RunsAt(at, depth, s), NEW h, h = sp' - bp + 1
    PROVE  GoesOn(s, Going(s, pc', h))
  <1>1. s \in Places(program)
    BY PlaceFacts
  <1>2. /\ Going(s, pc', h).pc = pc' /\ Going(s, pc', h).height = h
        /\ Going(s, pc', h).proc = s.proc /\ Going(s, pc', h).link = s.link
        /\ Going(s, pc', h).known = s.known
    BY <1>1 DEF Going, Places
  <1> QED  BY <1>2, TidyFacts DEF GoesOn, IsAt

\* A word of the last frame that is no link.
LEMMA OwnSpared ==
    ASSUME NEW at, NEW depth, NEW s, RunsAt(at, depth, s),
           NEW m \in Nat, Len(active) # 0 => m >= 4
    PROVE  Spared(bp + m)
  <1>1. /\ Len(active) \in 0 .. Len(active) /\ ~(Len(active) < Len(active))
        /\ FrameOf(Len(active)) = bp
    BY TidyFacts
  <1>2. Len(active) # 0 => m \notin 1 .. 3
    OBVIOUS
  <1> QED  BY <1>1, <1>2, TidyFacts, SlotSpared

LEMMA StoKept ==
    ASSUME NEW at, NEW depth, NEW s, RunsAt(at, depth, s), Sto
    PROVE  Kept(at, depth)
  <1>1. insn.op = "STO" /\ status = "running"
    BY DEF Sto, Execute
  <1>2. PICK a \in 0 .. Len(active) : /\ SlotAt(a) /\ insn.imm \in Nat
                                      /\ ProcOf(a) = Scope(program, s.proc, insn.lvl)
    BY <1>1, SlotFound
  <1>3. /\ sp = bp + s.height - 1 /\ sp \in Nat /\ sp \in Word /\ sp - 1 \in Word
        /\ s.pc = pc /\ s.height \in Nat /\ bp \in Nat
    <2>1. sp = bp + s.height - 1 /\ sp \in Nat /\ s.height \in Nat /\ bp \in Nat /\ sp \in Word /\ s.pc = pc
      BY PlaceFacts, TidyFacts DEF TypeOK
    <2> QED  BY <2>1, MachineAssumption DEF Word, WordMin
  <1>4. CASE InStack(Slot) /\ InStack(sp)
    <2>1. /\ stack' = [stack EXCEPT ![Slot] = stack[sp]] /\ sp' = sp - 1 /\ pc' = pc + 1
          /\ StaysInFrame /\ status' = "running"
      BY <1>1, <1>4 DEF Sto, Continue, Fail, traceVars, StaysInFrame
    <2>2. Spared(Slot)
      <3>2. a # 0 => insn.imm \notin 1 .. 3
        <4>1. a # 0 => ProcOf(a) # Main
          <5>1. a # 0 => a \in 1 .. Len(active)
            BY TidyFacts
          <5> QED  BY <5>1, TidyFacts, ProcTypes, ProgramFacts
        <4> QED  BY <1>1, <1>2, <4>1, PlaceFacts DEF Allowed
      <3>3. Slot = FrameOf(a) + insn.imm
        BY <1>2 DEF SlotAt
      <3>4. a < Len(active) => FrameOf(a) + insn.imm < FrameOf(a + 1)
        BY <1>2, TidyFacts DEF SlotAt
      <3> QED  BY <1>2, <3>2, <3>3, <3>4, TidyFacts, SlotSpared
    <2>3. Going(s, pc', s.height - 1) \in at
      BY <1>1, <1>3, <2>1, NextFacts
    <2>4. GoesOn(s, Going(s, pc', s.height - 1))
      <3>1. s.height - 1 = sp' - bp + 1
        BY <1>3, <2>1
      <3> QED  BY <3>1, GoingOn
    <2>5. Tidy(at, depth)'
      BY <2>1, <2>2, <2>3, <2>4, WordStored
    <2> QED  BY <2>1, <2>5, GoesOnKept
  <1>5. CASE InStack(Slot) /\ ~InStack(sp)
    <2>1. sp >= StackHeight
      BY <1>3, <1>5, MachineAssumption DEF InStack
    <2>2. Fail(stack, sp - 1, pc) /\ sp - 1 + 4 >= StackHeight
      BY <1>3, <1>5, <2>1, MachineAssumption DEF Sto
    <2> QED  BY <1>3, <2>2, StackRunsOut
  <1>6. CASE ~InStack(Slot)
    <2>1. StackHeight <= sp
      BY <1>2, <1>6 DEF SlotAt
    <2>2. PICK w \in {sp, sp - 1} : Fail(stack, w, pc)
      BY <1>6 DEF Sto
    <2>3. w \in Word /\ w + 4 >= StackHeight
      BY <1>3, <2>1, MachineAssumption
    <2> QED  BY <2>2, <2>3, StackRunsOut
  <1> QED  BY <1>4, <1>5, <1>6

LEMMA UnaryKept ==
    ASSUME NEW at, NEW depth, NEW s, RunsAt(at, depth, s), UnaryOp
    PROVE  Kept(at, depth)
  <1>1. insn.op \in Unary /\ status = "running"
    BY DEF UnaryOp, Execute
  <1>2. insn.op \notin {"INC", "JMP", "RET", "HALT", "LOD"}
    BY <1>1 DEF Unary
  <1>3. /\ sp = bp + s.height - 1 /\ sp \in Nat /\ sp \in Word
        /\ s.pc = pc /\ s.height \in Nat /\ bp \in Nat
    BY PlaceFacts, TidyFacts DEF TypeOK
  <1>4. CASE InStack(sp)
    <2> DEFINE w == Compute(insn.op, stack[sp], 0)
    <2>1. /\ stack' = [stack EXCEPT ![sp] = w] /\ sp' = sp /\ pc' = pc + 1
          /\ StaysInFrame /\ status' = "running"
      BY <1>1, <1>4 DEF UnaryOp, Continue, Fail, traceVars, StaysInFrame
    <2> HIDE DEF w
    <2>2. Spared(sp)
      <3>1. Links(s.proc) + 1 <= s.height /\ Links(s.proc) = IF Len(active) = 0 THEN 0 ELSE 4
        BY <1>1, <1>2, OperandFacts
      <3>2. s.height - 1 \in Nat
        BY <1>3, <3>1
      <3>3. Len(active) # 0 => s.height - 1 >= 4
        BY <1>3, <3>1
      <3>4. sp = bp + (s.height - 1)
        BY <1>3
      <3> QED  BY <3>2, <3>3, <3>4, OwnSpared
    <2>3. Going(s, pc', s.height) \in at
      BY <1>1, <1>3, <2>1, NextFacts
    <2>4. GoesOn(s, Going(s, pc', s.height))
      <3>1. s.height = sp' - bp + 1
        BY <1>3, <2>1
      <3> QED  BY <3>1, GoingOn
    <2>5. Tidy(at, depth)'
      BY <2>1, <2>2, <2>3, <2>4, WordStored
    <2> QED  BY <2>1, <2>5, GoesOnKept
  <1>5. CASE ~InStack(sp)
    <2>1. Fail(stack, sp, pc) /\ sp + 4 >= StackHeight
      BY <1>3, <1>5, MachineAssumption DEF UnaryOp, InStack
    <2> QED  BY <1>3, <2>1, StackRunsOut
  <1> QED  BY <1>4, <1>5

LEMMA BinaryKept ==
    ASSUME NEW at, NEW depth, NEW s, RunsAt(at, depth, s), BinaryOp
    PROVE  Kept(at, depth)
  <1>1. insn.op \in Binary /\ status = "running"
    BY DEF BinaryOp, Execute
  <1>2. insn.op \notin {"INC", "JMP", "RET", "HALT", "LOD"}
    BY <1>1 DEF Binary
  <1>3. /\ sp = bp + s.height - 1 /\ sp \in Nat /\ sp \in Word
        /\ s.pc = pc /\ s.height \in Nat /\ bp \in Nat /\ bp >= 1
    BY PlaceFacts, TidyFacts DEF TypeOK
  <1>4. s.height >= 2 /\ (Len(active) # 0 => s.height - 2 >= 4)
    <2>1. Links(s.proc) + 2 <= s.height /\ Links(s.proc) = IF Len(active) = 0 THEN 0 ELSE 4
      BY <1>1, <1>2, OperandFacts
    <2> QED  BY <1>3, <2>1
  <1>5. sp - 1 \in Nat /\ sp - 1 \in Word
    BY <1>3, <1>4, MachineAssumption DEF Word, WordMin
  <1>6. CASE Operands
    <2> DEFINE w == Compute(insn.op, stack[sp - 1], stack[sp])
    <2>1. /\ stack' = [stack EXCEPT ![sp - 1] = w] /\ sp' = sp - 1 /\ pc' = pc + 1
          /\ StaysInFrame /\ status' = "running"
      BY <1>1, <1>6 DEF BinaryOp, Continue, Fail, traceVars, StaysInFrame
    <2> HIDE DEF w
    <2>2. Spared(sp - 1)
      <3>1. s.height - 2 \in Nat /\ sp - 1 = bp + (s.height - 2)
        BY <1>3, <1>4
      <3> QED  BY <1>4, <3>1, OwnSpared
    <2>3. Going(s, pc', s.height - 1) \in at
      BY <1>1, <1>3, <2>1, NextFacts
    <2>4. GoesOn(s, Going(s, pc', s.height - 1))
      <3>1. s.height - 1 = sp' - bp + 1
        BY <1>3, <2>1
      <3> QED  BY <3>1, GoingOn
    <2>5. Tidy(at, depth)'
      BY <2>1, <2>2, <2>3, <2>4, WordStored
    <2> QED  BY <2>1, <2>5, GoesOnKept
  <1>7. CASE ~Operands
    <2>1. Fail(stack, sp - 1, pc)
      BY <1>7 DEF BinaryOp
    <2>2. sp - 1 + 4 >= StackHeight \/ insn.op \in {"DIV", "MOD"}
      BY <1>3, <1>5, <1>7, MachineAssumption DEF Operands, InStack, Defined
    <2> QED  BY <1>5, <2>1, <2>2, StackRunsOut
  <1> QED  BY <1>6, <1>7

LEMMA WriteKept ==
    ASSUME NEW at, NEW depth, NEW s, RunsAt(at, depth, s), Write
    PROVE  Kept(at, depth)
  <1>1. insn.op = "WRITE" /\ status = "running"
    BY DEF Write, Execute
  <1>2. /\ sp = bp + s.height - 1 /\ sp \in Nat /\ sp \in Word
        /\ s.pc = pc /\ s.height \in Nat /\ bp \in Nat
    BY PlaceFacts, TidyFacts DEF TypeOK
  <1>3. CASE InStack(sp)
    <2>1. /\ stack' = stack /\ sp' = sp - 1 /\ pc' = pc + 1
          /\ StaysInFrame /\ status' = "running"
      BY <1>1, <1>3 DEF Write, Continue, Fail, traceVars, StaysInFrame
    <2>2. Going(s, pc', s.height - 1) \in at
      BY <1>1, <1>2, <2>1, NextFacts
    <2>3. GoesOn(s, Going(s, pc', s.height - 1))
      <3>1. s.height - 1 = sp' - bp + 1
        BY <1>2, <2>1
      <3> QED  BY <3>1, GoingOn
    <2>4. Tidy(at, depth)'
      BY <2>1, <2>2, <2>3, NothingStored
    <2> QED  BY <2>1, <2>4, GoesOnKept
  <1>4. CASE ~InStack(sp)
    <2>1. Fail(stack, sp, pc) /\ sp + 4 >= StackHeight
      BY <1>2, <1>4, MachineAssumption DEF Write, InStack
    <2> QED  BY <1>2, <2>1, StackRunsOut
  <1> QED  BY <1>3, <1>4

LEMMA IncKept ==
    ASSUME NEW at, NEW depth, NEW s, RunsAt(at, depth, s), Inc
    PROVE  Kept(at, depth)
  <1>1. insn.op = "INC" /\ status = "running"
    BY DEF Inc, Execute
  <1>2. /\ sp = bp + s.height - 1 /\ sp \in Nat /\ s.pc = pc /\ s.height \in Nat
        /\ bp \in Nat /\ bp >= 1 /\ insn.imm \in Int
    BY PlaceFacts, TidyFacts DEF TypeOK, Insn, Word
  <1> DEFINE h == s.height + insn.imm
  <1>3. Going(s, pc + 1, h) \in at
    BY <1>1, <1>2, NextFacts
  <1>4. h \in Heights
    <2>1. Going(s, pc + 1, h) \in Places(program) /\ s \in Places(program)
      BY <1>3, PlaceFacts, TidyFacts DEF Discipline
    <2>2. Going(s, pc + 1, h).height = h
      BY <2>1 DEF Going, Places
    <2> QED  BY <2>1, <2>2 DEF Places
  <1>5. sp + insn.imm = bp + h - 1
    BY <1>2
  <1>6. Wrap(sp + insn.imm) = bp + h - 1
    <2>1. bp + h - 1 \in Word
      <3>1. Len(active) = 0 => bp = 1
        BY PlaceFacts DEF FrameOf
      <3>2. bp = 1 \/ bp + 3 < StackHeight
        BY <3>1, PlaceFacts
      <3> HIDE DEF h
      <3> QED  BY <1>2, <1>4, <3>2, MachineAssumption DEF Heights, Word, WordMin
    <2> QED  BY <1>5, <2>1, WordsStay
  <1>7. /\ stack' = stack /\ sp' = bp + h - 1 /\ pc' = pc + 1
        /\ StaysInFrame /\ status' = "running"
    BY <1>1, <1>6 DEF Inc, Continue, traceVars, StaysInFrame
  <1>8. GoesOn(s, Going(s, pc', h))
    <2>1. h \in Int
      BY <1>2
    <2> HIDE DEF h
    <2>2. h = sp' - bp + 1
      BY <1>2, <1>7, <2>1
    <2> QED  BY <2>2, GoingOn
  <1>9. Tidy(at, depth)'
    BY <1>3, <1>7, <1>8, NothingStored
  <1> QED  BY <1>7, <1>9, GoesOnKept

LEMMA JpcKept ==
    ASSUME NEW at, NEW depth, NEW s, RunsAt(at, depth, s), Jpc
    PROVE  Kept(at, depth)
  <1>1. insn.op = "JPC" /\ status = "running"
    BY DEF Jpc, Execute
  <1>2. /\ sp = bp + s.height - 1 /\ sp \in Nat /\ sp \in Word
        /\ s.pc = pc /\ s.height \in Nat /\ bp \in Nat
    BY PlaceFacts, TidyFacts DEF TypeOK
  <1>3. CASE InStack(sp)
    <2>1. /\ stack' = stack /\ sp' = sp - 1 /\ pc' \in {insn.imm, pc + 1}
          /\ StaysInFrame /\ status' = "running"
      BY <1>1, <1>3 DEF Jpc, Fail, traceVars, StaysInFrame
    <2>2. Going(s, pc', s.height - 1) \in at
      BY <1>1, <1>2, <2>1, NextFacts
    <2>3. GoesOn(s, Going(s, pc', s.height - 1))
      <3>1. s.height - 1 = sp' - bp + 1
        BY <1>2, <2>1
      <3> QED  BY <3>1, GoingOn
    <2>4. Tidy(at, depth)'
      BY <2>1, <2>2, <2>3, NothingStored
    <2> QED  BY <2>1, <2>4, GoesOnKept
  <1>4. CASE ~InStack(sp)
    <2>1. Fail(stack, sp, pc) /\ sp + 4 >= StackHeight
      BY <1>2, <1>4, MachineAssumption DEF Jpc, InStack
    <2> QED  BY <1>2, <2>1, StackRunsOut
  <1> QED  BY <1>3, <1>4

\* The callee that the static link is right for: it is declared where the link points,
\* which is the latest activation of that scope among the frames up to the m-th.
LEMMA DeclaredThere ==
    ASSUME NEW at, NEW depth, NEW s, RunsAt(at, depth, s),
           NEW l \in Nat, l <= depth[ProcOf(Len(active))],
           NEW e \in DOMAIN program.encloser,
           program.encloser[e] = Scope(program, ProcOf(Len(active)), l),
           NEW callers, NEW m \in {Len(active) - 1, Len(active)}, DOMAIN callers = 1 .. m,
           \A i \in 1 .. m : callers[i] = active[i],
           m < Len(active) => l >= 1
    PROVE  LET a == Outwards(l)[l]
           IN  /\ a \in 0 .. m
               /\ Parent(callers, e) = a
               /\ ProcOf(a) = program.encloser[e]
               /\ \A j \in a + 1 .. m : depth[e] <= depth[ProcOf(j)]
  <1> DEFINE n == Len(active)
             a == Outwards(l)[l]
  <1>1. n \in Nat /\ a \in 0 .. n
    <2>1. n \in Nat /\ Outwards(l) \in [0 .. l -> 0 .. n]
      BY TidyFacts, OutwardsSteps
    <2> QED  BY <2>1
  <1>2. /\ l >= 1 => a < n
        /\ \A j \in a + 1 .. n : depth[ProcOf(a)] < depth[ProcOf(j)]
    <2>1. Found(depth, l, l)
      BY TidyFacts, ScopeIsFound
    <2> QED  BY <2>1 DEF Found
  <1>3. ProcOf(a) = program.encloser[e]
    BY TidyFacts, OutwardsScope
  <1>4. depth[e] = depth[ProcOf(a)] + 1
    BY <1>3, TidyFacts DEF IsDepth
  <1>5. \A i \in 1 .. n : ProcOf(i) = active[i].proc
    BY TidyFacts, ProcTypes
  <1>6. \A i \in 0 .. n : depth[ProcOf(i)] \in Nat
    BY TidyFacts, ProcTypes
  <1> HIDE DEF a
  <1>7. a \in 0 .. m /\ m \in Nat
    BY <1>1, <1>2
  <1>8. \A j \in a + 1 .. m : j \in a + 1 .. n /\ j \in 0 .. n /\ j \in 1 .. n /\ j \in 1 .. m
    BY <1>1, <1>7
  <1>9. \A j \in a + 1 .. m : depth[e] <= depth[ProcOf(j)]
    BY <1>1, <1>2, <1>4, <1>6, <1>8
  <1>10. Parent(callers, e) = a
    <2>1. a # 0 => callers[a].proc = program.encloser[e]
      <3>1. a # 0 => a \in 1 .. m /\ a \in 1 .. n
        BY <1>1, <1>7
      <3> QED  BY <1>3, <1>5, <3>1
    <2>2. ASSUME NEW j \in a + 1 .. m, callers[j].proc = program.encloser[e] PROVE FALSE
      <3>1. ProcOf(j) = ProcOf(a)
        BY <1>3, <1>5, <1>8, <2>2
      <3> QED  BY <1>1, <1>2, <1>6, <1>8, <3>1
    <2> QED  BY <1>7, <2>1, <2>2, LatestIsParent
  <1> QED  BY <1>3, <1>7, <1>9, <1>10 DEF a

-----------------------------------------------------------------------------
(* The steps that make or take a frame, or give it to another procedure.   *)

\* The activations act have the frames F and the procedures P.
Describe(F, P, act, m) == /\ m \in Nat /\ Len(act) = m
                          /\ F \in [0 .. m -> Nat] /\ F[0] = 1
                          /\ P[0] = Main
                          /\ \A i \in 1 .. m : F[i] = act[i].frame /\ P[i] = act[i].proc
NestedAt(i, P, act, depth) ==
    /\ act[i].parent \in 0 .. i - 1
    /\ P[act[i].parent] = program.encloser[P[i]]
    /\ \A j \in act[i].parent + 1 .. i - 1 : depth[P[i]] <= depth[P[j]]
StackedAt(i, F) == /\ 4 * i - 3 <= F[i]
                   /\ F[i] + 3 < StackHeight
                   /\ \A j \in 1 .. i - 1 : F[j] + 4 <= F[i]
LinkedAt(i, F, act, m, st, fr) ==
    /\ i < m => st[F[i] + 1] = F[act[i].parent]
    /\ st[F[i] + 2] = F[i - 1]
    /\ st[F[i] + 3] = act[i].caller.pc
    /\ fr[i - 1] = F[i]
WaitedFor(i, F, P, act, c) ==
    /\ program.code[c.pc].op = "CAL"
    /\ c.proc = P[i - 1]
    /\ c.link = 1
    /\ c.height = F[i] - F[i - 1]
    /\ F[i - 1] + c.known <= StackHeight
    /\ act[i].caller = [sp |-> F[i] - 1, bp |-> F[i - 1], pc |-> c.pc + 1]

LEMMA Described ==
    ASSUME NEW at, NEW depth, NEW s, RunsAt(at, depth, s)
    PROVE  \E F, P :
              /\ Describe(F, P, active, Len(active))
              /\ \A i \in 0 .. Len(active) : F[i] = FrameOf(i) /\ P[i] = ProcOf(i)
              /\ \A i \in 1 .. Len(active) : /\ NestedAt(i, P, active, depth) /\ StackedAt(i, F)
                                             /\ LinkedAt(i, F, active, Len(active), stack, frames)
                                             /\ \E c \in at : WaitedFor(i, F, P, active, c)
  <1> DEFINE n == Len(active)
  <1>1. PICK F, P : F = [i \in 0 .. n |-> FrameOf(i)] /\ P = [i \in 0 .. n |-> ProcOf(i)]
    OBVIOUS
  <1>2. \A i \in 0 .. n : F[i] = FrameOf(i) /\ P[i] = ProcOf(i)
    BY <1>1
  <1>3. n \in Nat /\ 0 \in 0 .. n /\ \A i \in 1 .. n : i \in 0 .. n /\ i - 1 \in 0 .. n
    BY TidyFacts
  <1> HIDE DEF n
  <1>4. Describe(F, P, active, n)
    <2>1. F \in [0 .. n -> Nat]
      <3>1. \A i \in 0 .. n : FrameOf(i) \in Nat
        BY TidyFacts, FrameFacts DEF n
      <3> QED  BY <1>1, <3>1
    <2>2. \A i \in 1 .. n : FrameOf(i) = active[i].frame /\ ProcOf(i) = active[i].proc
      BY TidyFacts, FrameFacts, ProcTypes DEF n
    <2>3. FrameOf(0) = 1 /\ ProcOf(0) = Main
      BY DEF FrameOf, ProcOf
    <2> QED  BY <1>2, <1>3, <2>1, <2>2, <2>3 DEF Describe, n
  <1>5. ASSUME NEW i \in 1 .. n PROVE NestedAt(i, P, active, depth)
    <2>1. /\ active[i].parent \in 0 .. i - 1
          /\ ProcOf(active[i].parent) = program.encloser[active[i].proc]
          /\ \A j \in active[i].parent + 1 .. i - 1 : depth[ProcOf(i)] <= depth[ProcOf(j)]
      BY TidyFacts DEF Nested, n
    <2>2. ProcOf(i) = active[i].proc
      BY TidyFacts, ProcTypes DEF n
    <2>3. active[i].parent \in 0 .. n /\ \A j \in active[i].parent + 1 .. i - 1 : j \in 0 .. n
      BY <1>3, <2>1
    <2> QED  BY <1>2, <1>3, <2>1, <2>2, <2>3 DEF NestedAt
  <1>6. ASSUME NEW i \in 1 .. n PROVE StackedAt(i, F)
    <2>1. \A j \in 1 .. i - 1 : j \in 0 .. n
      BY <1>3
    <2> QED  BY <1>2, <1>3, <2>1, TidyFacts DEF Stacked, StackedAt, n
  <1>7. ASSUME NEW i \in 1 .. n PROVE LinkedAt(i, F, active, n, stack, frames)
    <2>1. active[i].parent \in 0 .. n
      BY <1>3, <1>5 DEF NestedAt
    <2> QED  BY <1>2, <1>3, <2>1, TidyFacts DEF Linking, LinkedAt, n
  <1>8. ASSUME NEW i \in 1 .. n PROVE \E c \in at : WaitedFor(i, F, P, active, c)
    <2>1. PICK c \in at : WaitsAt(i, c)
      BY TidyFacts DEF Waiting, n
    <2>2. WaitedFor(i, F, P, active, c)
      BY <1>2, <1>3, <2>1 DEF WaitsAt, WaitedFor, Code
    <2> QED  BY <2>2
  <1>9. /\ Describe(F, P, active, n)
        /\ \A i \in 0 .. n : F[i] = FrameOf(i) /\ P[i] = ProcOf(i)
        /\ \A i \in 1 .. n : /\ NestedAt(i, P, active, depth) /\ StackedAt(i, F)
                             /\ LinkedAt(i, F, active, n, stack, frames)
                             /\ \E c \in at : WaitedFor(i, F, P, active, c)
    BY <1>2, <1>4, <1>5, <1>6, <1>7, <1>8
  <1> QED  BY <1>9 DEF n

LEMMA TidyNext ==
    ASSUME NEW at, NEW depth, program' = program,
           NEW act, act = active', act \in Seq(Activation(program)),
           NEW F, NEW P, NEW m, Describe(F, P, act, m),
           framecount' = m, bp' = F[m],
           \A i \in 1 .. m : /\ NestedAt(i, P, act, depth) /\ StackedAt(i, F)
                             /\ LinkedAt(i, F, act, m, stack', frames')
                             /\ \E c \in at : WaitedFor(i, F, P, act, c),
           NEW t \in at, t.pc = pc', t.proc = P[m], t.height = sp' - bp' + 1, t.link = 1,
           bp' + t.known <= StackHeight \/ t.known = 0,
           m # 0 => stack'[bp' + 1] = F[act[m].parent]
    PROVE  Tidy(at, depth)'
  <1>1. /\ m \in Nat /\ Len(act) = m /\ 0 \in 0 .. m /\ m \in 0 .. m
        /\ F[0] = 1 /\ P[0] = Main
        /\ \A i \in 1 .. m : F[i] = act[i].frame /\ P[i] = act[i].proc
        /\ \A i \in 1 .. m : i \in 0 .. m /\ i - 1 \in 0 .. m
    BY DEF Describe
  <1>2. \A i \in 0 .. m : F[i] = FrameOf(i)' /\ P[i] = ProcOf(i)'
    BY <1>1 DEF FrameOf, ProcOf
  <1>3. ASSUME NEW i \in 1 .. m PROVE act[i].parent \in 0 .. m
    BY <1>1 DEF NestedAt
  <1>4. Nested(depth)'
    <2>1. ASSUME NEW i \in 1 .. m, NEW q, q = act[i].parent
          PROVE  /\ q \in 0 .. i - 1
                 /\ ProcOf(q)' = program.encloser[act[i].proc]
                 /\ \A j \in q + 1 .. i - 1 : depth[ProcOf(i)'] <= depth[ProcOf(j)']
      <3>1. /\ q \in 0 .. i - 1
            /\ P[q] = program.encloser[P[i]]
            /\ \A j \in q + 1 .. i - 1 : depth[P[i]] <= depth[P[j]]
        BY <2>1 DEF NestedAt
      <3>2. q \in 0 .. m /\ \A j \in q + 1 .. i - 1 : j \in 0 .. m
        BY <1>1, <3>1
      <3> QED  BY <1>1, <1>2, <3>1, <3>2
    <2> QED  BY <1>1, <2>1 DEF Nested, ProcOf
  <1>5. Stacked'
    <2>1. ASSUME NEW i \in 1 .. m
          PROVE  /\ 4 * i - 3 <= FrameOf(i)'
                 /\ FrameOf(i)' + 3 < StackHeight
                 /\ \A j \in 1 .. i - 1 : FrameOf(j)' + 4 <= FrameOf(i)'
      <3>1. \A j \in 1 .. i - 1 : j \in 0 .. m
        BY <1>1
      <3> QED  BY <1>1, <1>2, <3>1 DEF StackedAt
    <2> QED  BY <1>1, <2>1 DEF Stacked
  <1>6. Linking'
    <2>1. ASSUME NEW i \in 1 .. m, NEW q, q = act[i].parent
          PROVE  /\ i < m => stack'[FrameOf(i)' + 1] = FrameOf(q)'
                 /\ stack'[FrameOf(i)' + 2] = FrameOf(i - 1)'
                 /\ stack'[FrameOf(i)' + 3] = act[i].caller.pc
                 /\ frames'[i - 1] = FrameOf(i)'
      <3>1. /\ i < m => stack'[F[i] + 1] = F[q]
            /\ stack'[F[i] + 2] = F[i - 1]
            /\ stack'[F[i] + 3] = act[i].caller.pc
            /\ frames'[i - 1] = F[i]
        BY <2>1 DEF LinkedAt
      <3>2. F[i] = FrameOf(i)' /\ F[q] = FrameOf(q)' /\ F[i - 1] = FrameOf(i - 1)'
        BY <1>1, <1>2, <1>3, <2>1
      <3> QED  BY <3>1, <3>2, Zenon
    <2> QED  BY <1>1, <2>1 DEF Linking, FrameOf
  <1>7. Waiting(at)'
    <2>1. ASSUME NEW i \in 1 .. m PROVE (\E c \in at : WaitsAt(i, c))'
      <3>1. PICK c \in at : WaitedFor(i, F, P, act, c)
        OBVIOUS
      <3>2. WaitsAt(i, c)'
        BY <1>1, <1>2, <3>1 DEF WaitsAt, WaitedFor, Code
      <3> QED  BY <3>2
    <2> QED  BY <1>1, <2>1 DEF Waiting
  <1>8. IsAt(t)'
    <2>1. t.proc = ProcOf(Len(active))'
      BY <1>1, <1>2 DEF ProcOf
    <2>2. act # << >> => stack'[bp' + 1] = FrameOf(Outwards(t.link)[t.link])'
      <3>1. SUFFICES ASSUME act # << >> PROVE stack'[bp' + 1] = FrameOf(Outwards(t.link)[t.link])'
        OBVIOUS
      <3>2. m \in Nat \ {0} /\ m \in 1 .. m
        BY <1>1, <3>1
      <3>3. PICK q : q = act[m].parent
        OBVIOUS
      <3>4. OutwardsIn(act, 1)[1] = q
        <4>1. ParentedIn(act)
          BY <1>1 DEF NestedAt, ParentedIn
        <4> QED  BY <1>1, <3>2, <3>3, <4>1, FirstOutwards
      <3>5. F[q] = FrameOf(q)'
        BY <1>2, <1>3, <3>2, <3>3
      <3>6. Outwards(t.link)[t.link]' = q
        BY <3>4 DEF Outwards
      <3> QED  BY <3>2, <3>3, <3>5, <3>6 DEF FrameOf
    <2> QED  BY <2>1, <2>2 DEF IsAt
  <1>9. (bp = FrameOf(Len(active)))'
    BY <1>1, <1>2 DEF FrameOf
  <1>10. (active \in Seq(Activation(program)))' /\ (framecount = Len(active))'
    BY <1>1 DEF Activation
  <1> QED  BY <1>4, <1>5, <1>6, <1>7, <1>8, <1>9, <1>10 DEF Tidy

\* A tail call: the frame changes hands.
LEMMA HandOverKept ==
    ASSUME NEW at, NEW depth, NEW s, RunsAt(at, depth, s), Jmp, HandsOver(program, s)
    PROVE  Kept(at, depth)
  <1>0. PICK n, e, a, t : /\ n = Len(active)
                          /\ e = insn.imm
                          /\ a = Outwards(s.link)[s.link]
                          /\ t = [Entry(e) EXCEPT !.height = s.height]
    OBVIOUS
  <1>1. /\ insn.op = "JMP" /\ status = "running"
        /\ pc' = e /\ active' = TailEntered(e)
        /\ UNCHANGED <<program, stack, sp, bp, frames, framecount>> /\ status' = "running"
    BY <1>0 DEF Jmp, Execute
  <1>2. /\ e \in DOMAIN program.encloser /\ s.proc # Main /\ s.proc = ProcOf(n)
        /\ program.encloser[e] = Scope(program, s.proc, s.link)
        /\ s.link \in Nat /\ s.link >= 1 /\ s.link <= depth[s.proc]
    BY <1>0, PlaceFacts DEF HandsOver, Allowed
  <1>3. n \in Nat \ {0} /\ bp = FrameOf(n) /\ bp \in Nat /\ bp + 3 < StackHeight /\ t \in at
    BY <1>0, <1>1, <1>2, PlaceFacts, TidyFacts, NextFacts
  <1>4. active \in Seq(Activation(program)) /\ active # << >> /\ active[n] \in Activation(program)
    BY <1>0, <1>3, TidyFacts
  <1>5. /\ DOMAIN Front(active) = 1 .. n - 1
        /\ \A i \in 1 .. n - 1 : Front(active)[i] = active[i]
    BY <1>0, <1>3, <1>4 DEF Front
  <1>6. /\ a \in 0 .. n - 1
        /\ Parent(Front(active), e) = a
        /\ ProcOf(a) = program.encloser[e]
        /\ \A j \in a + 1 .. n - 1 : depth[e] <= depth[ProcOf(j)]
    <2>1. n - 1 \in {Len(active) - 1, Len(active)}
      BY <1>0
    <2> QED  BY <1>0, <1>2, <1>3, <1>5, <2>1, DeclaredThere
  <1>7. active' = [active EXCEPT ![n].proc = e, ![n].parent = a]
    BY <1>0, <1>1, <1>2, <1>4, <1>6 DEF TailEntered
  <1>8. PICK act, r : act = active' /\ r = [active[n] EXCEPT !.proc = e, !.parent = a]
    OBVIOUS
  <1>9. /\ r \in Activation(program)
        /\ r.proc = e /\ r.parent = a /\ r.frame = active[n].frame /\ r.caller = active[n].caller
    <2>1. a \in Nat
      BY <1>3, <1>6
    <2> QED  BY <1>2, <1>4, <1>8, <2>1 DEF Activation
  <1>10. act = [active EXCEPT ![n] = r]
    BY <1>3, <1>4, <1>7, <1>8
  <1>11. /\ act \in Seq(Activation(program)) /\ Len(act) = n
         /\ act[n] = r /\ \A i \in 1 .. n - 1 : act[i] = active[i]
    BY <1>0, <1>3, <1>4, <1>9, <1>10
  <1>12. PICK F, Q :
              /\ Describe(F, Q, active, n)
              /\ \A i \in 0 .. n : F[i] = FrameOf(i) /\ Q[i] = ProcOf(i)
              /\ \A i \in 1 .. n : /\ NestedAt(i, Q, active, depth) /\ StackedAt(i, F)
                                   /\ LinkedAt(i, F, active, n, stack, frames)
                                   /\ \E c \in at : WaitedFor(i, F, Q, active, c)
    BY <1>0, Described
  <1>13. PICK P : P = [i \in 0 .. n |-> IF i = n THEN e ELSE Q[i]]
    OBVIOUS
  <1>14. P[n] = e /\ (\A i \in 0 .. n - 1 : P[i] = Q[i]) /\ bp = F[n] /\ F[a] = FrameOf(a)
    BY <1>3, <1>6, <1>12, <1>13
  <1>15. Describe(F, P, act, n)
    <2>1. /\ F \in [0 .. n -> Nat] /\ F[0] = 1 /\ Q[0] = Main
          /\ \A i \in 1 .. n : F[i] = active[i].frame /\ Q[i] = active[i].proc
      BY <1>12 DEF Describe
    <2>2. P[0] = Main
      BY <1>3, <1>14, <2>1
    <2>3. ASSUME NEW i \in 1 .. n PROVE F[i] = act[i].frame /\ P[i] = act[i].proc
      <3>1. i = n \/ i \in 1 .. n - 1
        BY <1>3
      <3> QED  BY <1>9, <1>11, <1>14, <2>1, <3>1
    <2> QED  BY <1>3, <1>11, <2>1, <2>2, <2>3 DEF Describe
  <1>16. ASSUME NEW i \in 1 .. n PROVE NestedAt(i, P, act, depth)
    <2>1. CASE i = n
      <3>1. P[a] = ProcOf(a) /\ \A j \in a + 1 .. n - 1 : P[j] = ProcOf(j)
        BY <1>3, <1>6, <1>12, <1>14
      <3> QED  BY <1>6, <1>9, <1>11, <1>14, <2>1, <3>1 DEF NestedAt
    <2>2. CASE i # n
      <3>1. i \in 1 .. n - 1 /\ act[i] = active[i]
        BY <1>3, <1>11, <2>2
      <3>2. NestedAt(i, Q, active, depth)
        BY <1>12
      <3>3. /\ P[active[i].parent] = Q[active[i].parent] /\ P[i] = Q[i]
            /\ \A j \in active[i].parent + 1 .. i - 1 : P[j] = Q[j]
        BY <1>3, <1>14, <3>1, <3>2 DEF NestedAt
      <3> QED  BY <3>1, <3>2, <3>3 DEF NestedAt
    <2> QED  BY <2>1, <2>2
  <1>17. ASSUME NEW i \in 1 .. n PROVE LinkedAt(i, F, act, n, stack', frames')
    <2>1. LinkedAt(i, F, active, n, stack, frames)
      BY <1>12
    <2>2. act[i].caller = active[i].caller /\ (i < n => act[i] = active[i])
      <3>1. i = n \/ (i # n /\ i \in 1 .. n - 1)
        BY <1>3
      <3> QED  BY <1>9, <1>11, <3>1
    <2> QED  BY <1>1, <2>1, <2>2 DEF LinkedAt
  <1>18. ASSUME NEW i \in 1 .. n PROVE \E c \in at : WaitedFor(i, F, P, act, c)
    <2>1. PICK c \in at : WaitedFor(i, F, Q, active, c)
      BY <1>12
    <2>2. act[i].caller = active[i].caller /\ P[i - 1] = Q[i - 1]
      <3>1. (i = n \/ i \in 1 .. n - 1) /\ i - 1 \in 0 .. n - 1
        BY <1>3
      <3> QED  BY <1>9, <1>11, <1>14, <3>1
    <2>3. WaitedFor(i, F, P, act, c)
      BY <2>1, <2>2 DEF WaitedFor
    <2> QED  BY <2>3
  <1>19. /\ t.pc = pc' /\ t.proc = P[n] /\ t.height = sp' - bp' + 1 /\ t.link = 1
         /\ bp' + t.known <= StackHeight
         /\ stack'[bp' + 1] = F[act[n].parent]
    <2>1. t.pc = e /\ t.proc = e /\ t.height = s.height /\ t.known = 4 /\ t.link = 1
      BY <1>0 DEF Entry
    <2>2. stack[bp + 1] = FrameOf(a)
      BY <1>0, <1>4, TidyFacts DEF IsAt
    <2>3. s.height = sp - bp + 1
      BY TidyFacts DEF IsAt
    <2>4. bp + 4 <= StackHeight
      BY <1>3, MachineAssumption
    <2> QED  BY <1>1, <1>9, <1>11, <1>14, <2>1, <2>2, <2>3, <2>4
  <1>20. framecount' = n /\ bp' = F[n] /\ program' = program
    BY <1>0, <1>1, <1>14, TidyFacts
  <1>21. Tidy(at, depth)'
    <2>1. \A i \in 1 .. n : /\ NestedAt(i, P, act, depth) /\ StackedAt(i, F)
                            /\ LinkedAt(i, F, act, n, stack', frames')
                            /\ \E c \in at : WaitedFor(i, F, P, act, c)
      BY <1>12, <1>16, <1>17, <1>18
    <2>2. t \in at /\ act = active'
      BY <1>3, <1>8
    <2>3. /\ bp' + t.known <= StackHeight \/ t.known = 0
          /\ n # 0 => stack'[bp' + 1] = F[act[n].parent]
          /\ t.pc = pc' /\ t.proc = P[n] /\ t.height = sp' - bp' + 1 /\ t.link = 1
      BY <1>19
    <2>4. act \in Seq(Activation(program))
      BY <1>11
    <2> QED  BY <1>15, <1>20, <2>1, <2>2, <2>3, <2>4, TidyNext, ZenonT(60)
  <1> QED  BY <1>1, <1>21, GoesOnKept

LEMMA JmpKept ==
    ASSUME NEW at, NEW depth, NEW s, RunsAt(at, depth, s), Jmp
    PROVE  Kept(at, depth)
  <1>1. CASE HandsOver(program, s)
    BY <1>1, HandOverKept
  <1>2. CASE ~HandsOver(program, s)
    <2>1. /\ insn.op = "JMP" /\ status = "running" /\ pc' = insn.imm
          /\ active' = TailEntered(insn.imm)
          /\ UNCHANGED <<program, stack, sp, bp, frames, framecount>> /\ status' = "running"
      BY DEF Jmp, Execute
    <2>2. active = << >> \/ insn.imm \notin DOMAIN program.encloser
      <3>1. Len(active) = 0 => active = << >>
        BY TidyFacts
      <3> QED  BY <1>2, <2>1, <3>1, PlaceFacts DEF HandsOver
    <2>3. StaysInFrame /\ stack' = stack
      BY <2>1, <2>2 DEF StaysInFrame, TailEntered
    <2>4. Going(s, pc', s.height) \in at
      BY <1>2, <2>1, NextFacts
    <2>5. GoesOn(s, Going(s, pc', s.height))
      <3>1. s.height = sp' - bp + 1
        BY <2>1, TidyFacts DEF IsAt
      <3> QED  BY <3>1, GoingOn
    <2>6. Tidy(at, depth)'
      BY <2>3, <2>4, <2>5, NothingStored
    <2> QED  BY <2>1, <2>6, GoesOnKept
  <1> QED  BY <1>1, <1>2

\* What a call writes, and that there is room for the frame among the frames.
LEMMA CallFacts ==
    ASSUME NEW at, NEW depth, NEW s, RunsAt(at, depth, s), insn.op = "CAL"
    PROVE  LET a == Outwards(insn.lvl)[insn.lvl]
           IN  /\ Linked = <<0, FrameOf(a), bp, pc + 1>>
               /\ a \in 0 .. Len(active)
               /\ insn.imm \in DOMAIN program.encloser /\ s.link = 1
               /\ Parent(active, insn.imm) = a
               /\ ProcOf(a) = program.encloser[insn.imm]
               /\ \A j \in a + 1 .. Len(active) : depth[insn.imm] <= depth[ProcOf(j)]
               /\ FrameOf(a) \in Word /\ bp \in Word /\ pc + 1 \in Word
               /\ Len(active) # 0 => bp + 4 <= sp + 1
               /\ 4 * Len(active) <= sp
  <1> DEFINE n == Len(active)
             l == insn.lvl
             a == Outwards(l)[l]
             e == insn.imm
  <1>1. /\ l \in Nat /\ l <= depth[ProcOf(n)]
        /\ s.link = 1 /\ s.proc = ProcOf(n)
        /\ e \in DOMAIN program.encloser
        /\ program.encloser[e] = Scope(program, ProcOf(n), l)
    BY PlaceFacts, PlaceBases DEF Allowed
  <1>2. /\ a \in 0 .. n
        /\ Parent(active, e) = a
        /\ ProcOf(a) = program.encloser[e]
        /\ \A j \in a + 1 .. n : depth[e] <= depth[ProcOf(j)]
    <2>1. /\ n \in {Len(active) - 1, Len(active)} /\ DOMAIN active = 1 .. n /\ ~(n < Len(active))
          /\ \A i \in 1 .. n : active[i] = active[i]
      BY TidyFacts
    <2> HIDE DEF e, n
    <2> QED  BY <1>1, <2>1, DeclaredThere DEF n
  <1>3. /\ sp = bp + s.height - 1 /\ sp \in Nat /\ s.height \in Nat /\ bp \in Nat /\ bp >= 1
        /\ n \in Nat /\ bp = FrameOf(n) /\ sp + 1 \in Word /\ sp \in Word
    BY PlaceFacts, TidyFacts DEF TypeOK
  <1>4. n # 0 => s.height >= 4 /\ 4 * n - 3 <= bp
    <2>1. Links(s.proc) <= s.height /\ Links(s.proc) = IF n = 0 THEN 0 ELSE 4
      BY OperandFacts
    <2>2. n # 0 => n \in 1 .. n
      BY <1>3
    <2>3. n # 0 => 4 * n - 3 <= FrameOf(n)
      BY <2>2, TidyFacts, FrameFacts
    <2> HIDE DEF n
    <2> QED  BY <1>3, <2>1, <2>3
  <1> DEFINE zeroed == [i \in DOMAIN stack |-> IF i = sp + 1 THEN 0 ELSE stack[i]]
  <1>5. Base(zeroed, l) = FrameOf(a)
    <2>1. l # 0 => LinksIn(zeroed)
      <3>1. Spared(sp + 1)
        <4>1. Spared(bp + s.height)
          BY <1>3, <1>4, OwnSpared
        <4>2. sp + 1 = bp + s.height
          BY <1>3
        <4> QED  BY <4>1, <4>2
      <3>2. ASSUME NEW i \in 1 .. Len(active) PROVE zeroed[FrameOf(i) + 1] = FrameOf(active[i].parent)
        <4>1. FrameOf(i) + 1 # sp + 1
          BY <3>1 DEF Spared
        <4>2. FrameOf(i) + 1 \in DOMAIN stack
          <5>1. FrameOf(i) \in Nat /\ FrameOf(i) + 3 < StackHeight
            BY TidyFacts, FrameFacts
          <5> QED  BY <5>1, TidyFacts, MachineAssumption
        <4>3. stack[FrameOf(i) + 1] = FrameOf(active[i].parent)
          BY <1>1, PlaceLinks DEF LinksIn
        <4> QED  BY <4>1, <4>2, <4>3
      <3> HIDE DEF zeroed
      <3> QED  BY <3>2 DEF LinksIn
    <2>2. l \in 0 .. l
      BY <1>1
    <2> HIDE DEF zeroed, l
    <2>3. \A k \in 0 .. l : Base(zeroed, k) = FrameOf(Outwards(l)[k])
      BY <1>1, <2>1, TidyFacts, BasesFound
    <2> QED  BY <2>2, <2>3
  <1>6. Linked = <<0, FrameOf(a), bp, pc + 1>>
    BY <1>5, Zenon DEF Linked
  <1>7. FrameOf(a) \in Word /\ bp \in Word /\ pc + 1 \in Word
    <2>1. bp \in Word /\ pc + 1 \in Word
      BY PlaceFacts, InsnType, TidyFacts DEF TypeOK
    <2>2. FrameOf(a) \in Nat /\ (FrameOf(a) = 1 \/ FrameOf(a) + 3 < StackHeight)
      <3>1. a = 0 \/ a \in 1 .. n
        BY <1>2, <1>3
      <3> QED  BY <3>1, <1>2, TidyFacts, FrameFacts
    <2> HIDE DEF a
    <2>3. FrameOf(a) \in Word
      BY <2>2, MachineAssumption DEF Word, WordMin
    <2> QED  BY <2>1, <2>3
  <1>8. (n # 0 => bp + 4 <= sp + 1) /\ 4 * n <= sp
    <2> HIDE DEF n
    <2> QED  BY <1>3, <1>4
  <1> QED  BY <1>1, <1>2, <1>6, <1>7, <1>8

LEMMA FrameHasRoom ==
    ASSUME NEW n \in Nat, NEW p \in Nat, 4 * n <= p, p + 4 < StackHeight
    PROVE  n \in 0 .. MaxFrames - 1
  <1> DEFINE q == StackHeight \div 4
  <1>1. StackHeight \in Nat /\ MaxFrames \in Nat
    BY MachineAssumption
  <1>2. q \in Nat /\ StackHeight < 4 * q + 4
    BY <1>1, Division
  <1>3. q <= MaxFrames
    BY FramesAssumption
  <1> HIDE DEF q
  <1> QED  BY <1>1, <1>2, <1>3

LEMMA CalKept ==
    ASSUME NEW at, NEW depth, NEW s, RunsAt(at, depth, s), Cal
    PROVE  Kept(at, depth)
  <1>0. PICK n, e, a, t : /\ n = Len(active)
                          /\ e = insn.imm
                          /\ a = Outwards(insn.lvl)[insn.lvl]
                          /\ t = Entry(e)
    OBVIOUS
  <1>1. insn.op = "CAL" /\ status = "running"
    BY DEF Cal, Execute
  <1>2. /\ Linked = <<0, FrameOf(a), bp, pc + 1>>
        /\ a \in 0 .. n
        /\ e \in DOMAIN program.encloser /\ s.link = 1
        /\ Parent(active, e) = a
        /\ ProcOf(a) = program.encloser[e]
        /\ \A j \in a + 1 .. n : depth[e] <= depth[ProcOf(j)]
        /\ FrameOf(a) \in Word /\ bp \in Word /\ pc + 1 \in Word
        /\ n # 0 => bp + 4 <= sp + 1
        /\ 4 * n <= sp
    BY <1>0, <1>1, CallFacts, Zenon
  <1>3. /\ sp = bp + s.height - 1 /\ sp \in Nat /\ s.height \in Nat /\ bp \in Nat /\ bp >= 1
        /\ n \in Nat /\ bp = FrameOf(n) /\ sp \in Word /\ s.pc = pc /\ s.known \in Nat
        /\ insn = program.code[s.pc] /\ s.proc = ProcOf(n)
        /\ active \in Seq(Activation(program)) /\ Len(active) = n /\ framecount = n
    BY <1>0, PlaceFacts, TidyFacts DEF TypeOK
  <1>4. /\ Linked[1] = 0 /\ Linked[2] = FrameOf(a) /\ Linked[3] = bp /\ Linked[4] = pc + 1
        /\ \A j \in 1 .. 4 : Linked[j] \in Word
    <2>1. 0 \in Word
      BY MachineAssumption DEF Word, WordMin
    <2>2. \A j \in 1 .. 4 : j = 1 \/ j = 2 \/ j = 3 \/ j = 4
      OBVIOUS
    <2> QED  BY <1>2, <2>1, <2>2
  <1>7. /\ StackHeight \in Nat /\ n \in Nat /\ bp \in Nat /\ sp \in Nat /\ s.height \in Nat /\ s.known \in Nat
        /\ a \in Nat /\ a <= n /\ pc + 1 \in Int
        /\ bp >= 1 /\ sp = bp + s.height - 1 /\ 4 * n <= sp
    <2>1. pc + 1 \in Int /\ StackHeight \in Nat
      BY <1>2, MachineAssumption DEF Word, WordMin
    <2>2. a \in Nat /\ a <= n
      <3>1. n \in Nat /\ a \in 0 .. n
        BY <1>2, <1>3
      <3> QED  BY <3>1
    <2> QED  BY <1>2, <1>3, <2>1, <2>2, Zenon
  <1>8. n # 0 => bp + 4 <= sp + 1
    BY <1>2
  <1>5. CASE sp + 4 < StackHeight
    <2>1. Written = 1 .. 4
      <3>1. \A j \in 1 .. 4 : InStack(sp + j)
        BY <1>5, <1>7 DEF InStack
      <3>2. \A i \in 1 .. 4 : \A j \in 1 .. i : j \in 1 .. 4
        OBVIOUS
      <3> QED  BY <1>4, <3>1, <3>2 DEF Written
    <2>2. FrameFits
      BY <1>3, <1>5, <1>7, FrameHasRoom DEF FrameFits
    <2>3. /\ stack' = WithLinks /\ bp' = sp + 1 /\ pc' = e
          /\ frames' = [frames EXCEPT ![n] = sp + 1]
          /\ framecount' = n + 1
          /\ active' = Append(active, Entered(active, e))
          /\ program' = program /\ sp' = sp /\ status' = "running"
      BY <1>0, <1>1, <1>3, <2>1, <2>2 DEF Cal
    <2>4. PICK act, r, st, fr : act = active' /\ r = Entered(active, e) /\ st = stack' /\ fr = frames'
      OBVIOUS
    <2>5. /\ r \in Activation(program)
          /\ r.proc = e /\ r.parent = a /\ r.frame = sp + 1
          /\ r.caller = [sp |-> sp, bp |-> bp, pc |-> pc + 1]
      <3>1. a \in Nat /\ sp + 1 \in Nat /\ sp \in Int /\ bp \in Int /\ pc + 1 \in Int
        BY <1>7
      <3>2. r = [proc |-> e, parent |-> a, frame |-> sp + 1, caller |-> [sp |-> sp, bp |-> bp, pc |-> pc + 1]]
        BY <1>2, <2>4 DEF Entered
      <3> QED  BY <1>2, <3>1, <3>2 DEF Activation
    <2>6. /\ act \in Seq(Activation(program)) /\ Len(act) = n + 1
          /\ act[n + 1] = r /\ \A i \in 1 .. n : act[i] = active[i]
      BY <1>3, <2>3, <2>4, <2>5
    <2>7. PICK G, Q :
              /\ Describe(G, Q, active, n)
              /\ \A i \in 0 .. n : G[i] = FrameOf(i) /\ Q[i] = ProcOf(i)
              /\ \A i \in 1 .. n : /\ NestedAt(i, Q, active, depth) /\ StackedAt(i, G)
                                   /\ LinkedAt(i, G, active, n, stack, frames)
                                   /\ \E c \in at : WaitedFor(i, G, Q, active, c)
      BY <1>0, Described
    <2>8. PICK F, P : /\ F = [i \in 0 .. n + 1 |-> IF i = n + 1 THEN sp + 1 ELSE G[i]]
                      /\ P = [i \in 0 .. n + 1 |-> IF i = n + 1 THEN e ELSE Q[i]]
      OBVIOUS
    <2>9. /\ F[n + 1] = sp + 1 /\ P[n + 1] = e
          /\ \A i \in 0 .. n : F[i] = G[i] /\ P[i] = Q[i]
          /\ bp = F[n] /\ F[a] = FrameOf(a) /\ s.proc = P[n]
      <3>1. \A i \in 0 .. n : i \in 0 .. n + 1 /\ i # n + 1
        BY <1>3
      <3>2. n \in 0 .. n /\ n + 1 \in 0 .. n + 1
        BY <1>3
      <3> QED  BY <1>2, <1>3, <2>7, <2>8, <3>1, <3>2
    <2>10. /\ G \in [0 .. n -> Nat] /\ G[0] = 1 /\ Q[0] = Main
           /\ \A i \in 1 .. n : G[i] = active[i].frame /\ Q[i] = active[i].proc
      BY <2>7 DEF Describe
    <2>11. Describe(F, P, act, n + 1)
      <3>1. F \in [0 .. n + 1 -> Nat]
        <4>1. \A i \in 0 .. n + 1 : i = n + 1 \/ i \in 0 .. n
          BY <1>3
        <4>2. sp + 1 \in Nat
          BY <1>3
        <4>3. \A i \in 0 .. n + 1 : F[i] \in Nat
          BY <2>9, <2>10, <4>1, <4>2
        <4> QED  BY <2>8, <4>3
      <3>2. ASSUME NEW i \in 1 .. n + 1 PROVE F[i] = act[i].frame /\ P[i] = act[i].proc
        <4>1. i = n + 1 \/ i \in 1 .. n
          BY <1>3
        <4>2. \A k \in 1 .. n : k \in 0 .. n
          OBVIOUS
        <4> QED  BY <2>5, <2>6, <2>9, <2>10, <4>1, <4>2
      <3>3. 0 \in 0 .. n
        BY <1>3
      <3> QED  BY <1>3, <2>6, <2>9, <2>10, <3>1, <3>2, <3>3 DEF Describe
    <2>12. \A i \in 1 .. n : G[i] + 4 <= sp + 1 /\ G[i] \in Nat /\ G[i] + 3 < StackHeight
      <3>1. ASSUME NEW i \in 1 .. n PROVE G[i] + 4 <= sp + 1
        <4>1. n # 0 /\ n \in 1 .. n /\ n \in 0 .. n
          BY <1>7
        <4>2. G[n] = bp /\ G[i] \in Nat
          BY <1>3, <2>7, <2>10, <4>1
        <4>3. i = n \/ i \in 1 .. n - 1
          BY <1>7
        <4>4. StackedAt(n, G)
          BY <2>7, <4>1
        <4>5. i # n => G[i] + 4 <= G[n]
          BY <4>3, <4>4 DEF StackedAt
        <4> QED  BY <1>7, <1>8, <4>1, <4>2, <4>5
      <3>2. ASSUME NEW i \in 1 .. n PROVE G[i] \in Nat /\ G[i] + 3 < StackHeight
        BY <2>7, <2>10 DEF StackedAt
      <3> QED  BY <3>1, <3>2
    <2>13. /\ \A y \in 0 .. StackHeight - 1 : y <= sp => st[y] = stack[y]
           /\ st[sp + 2] = FrameOf(a) /\ st[sp + 3] = bp /\ st[sp + 4] = pc + 1
      <3>1. DOMAIN stack = 0 .. StackHeight - 1 /\ \A y \in DOMAIN stack : y \in Int
        BY TidyFacts
      <3>2. \A y \in DOMAIN stack : st[y] = IF y - sp \in 1 .. 4 THEN Linked[y - sp] ELSE stack[y]
        BY <2>1, <2>3, <2>4, Zenon DEF WithLinks
      <3>3. sp + 2 \in DOMAIN stack /\ sp + 3 \in DOMAIN stack /\ sp + 4 \in DOMAIN stack
        <4>1. sp + 2 \in 0 .. StackHeight - 1 /\ sp + 3 \in 0 .. StackHeight - 1 /\ sp + 4 \in 0 .. StackHeight - 1
          BY <1>5, <1>7
        <4> QED  BY <3>1, <4>1, Zenon
      <3>4. (sp + 2) - sp = 2 /\ (sp + 3) - sp = 3 /\ (sp + 4) - sp = 4
        BY <1>7
      <3>5. st[sp + 2] = Linked[2] /\ st[sp + 3] = Linked[3] /\ st[sp + 4] = Linked[4]
        BY <3>2, <3>3, <3>4
      <3>6. \A y \in 0 .. StackHeight - 1 : y <= sp => st[y] = stack[y]
        <4>1. ASSUME NEW y \in 0 .. StackHeight - 1, y <= sp PROVE y \in DOMAIN stack /\ y - sp \notin 1 .. 4
          BY <1>7, <3>1, <4>1, SMTT(30)
        <4> QED  BY <3>2, <4>1
      <3> QED  BY <1>4, <3>5, <3>6
    <2>14. fr[n] = sp + 1 /\ \A i \in 0 .. n - 1 : fr[i] = frames[i]
      <3>1. frames \in [0 .. MaxFrames - 1 -> Word] /\ n \in 0 .. MaxFrames - 1
        BY <1>3, <2>2, TidyFacts DEF TypeOK, FrameFits
      <3> QED  BY <1>3, <2>3, <2>4, <3>1
    <2>15. ASSUME NEW i \in 1 .. n + 1 PROVE NestedAt(i, P, act, depth)
      <3>1. CASE i = n + 1
        <4>1. P[a] = ProcOf(a) /\ \A j \in a + 1 .. n : P[j] = ProcOf(j)
          <5>1. a \in 0 .. n /\ \A j \in a + 1 .. n : j \in 0 .. n
            BY <1>7
          <5> QED  BY <2>7, <2>9, <5>1
        <4>2. act[i].parent = a /\ act[i].proc = e /\ P[i] = e /\ i - 1 = n
          BY <1>7, <2>5, <2>6, <2>9, <3>1
        <4>3. a \in 0 .. n
          BY <1>7
        <4> QED  BY <1>2, <4>1, <4>2, <4>3 DEF NestedAt
      <3>2. CASE i # n + 1
        <4>1. i \in 1 .. n /\ act[i] = active[i]
          BY <1>3, <2>6, <3>2
        <4>2. NestedAt(i, Q, active, depth)
          BY <2>7, <4>1
        <4>3. /\ P[active[i].parent] = Q[active[i].parent] /\ P[i] = Q[i]
              /\ \A j \in active[i].parent + 1 .. i - 1 : P[j] = Q[j]
          BY <1>3, <2>9, <4>1, <4>2, SMTT(30) DEF NestedAt
        <4> QED  BY <4>1, <4>2, <4>3 DEF NestedAt
      <3> QED  BY <3>1, <3>2
    <2>16. ASSUME NEW i \in 1 .. n + 1 PROVE StackedAt(i, F)
      <3>1. CASE i = n + 1
        <4>1. \A j \in 1 .. n : F[j] = G[j]
          BY <2>9
        <4>2. F[i] = sp + 1 /\ i - 1 = n
          BY <1>7, <2>9, <3>1
        <4>3. 4 * i - 3 <= F[i] /\ F[i] + 3 < StackHeight
          BY <1>5, <1>7, <3>1, <4>2
        <4> QED  BY <2>12, <4>1, <4>2, <4>3 DEF StackedAt
      <3>2. CASE i # n + 1
        <4>1. i \in 1 .. n
          BY <1>3, <3>2
        <4>2. StackedAt(i, G)
          BY <2>7, <4>1
        <4>3. F[i] = G[i] /\ \A j \in 1 .. i - 1 : F[j] = G[j]
          BY <1>3, <2>9, <4>1
        <4> QED  BY <4>2, <4>3 DEF StackedAt
      <3> QED  BY <3>1, <3>2
    <2>17. ASSUME NEW i \in 1 .. n + 1 PROVE LinkedAt(i, F, act, n + 1, stack', frames')
      <3>1. CASE i = n + 1
        <4>1. F[i] = sp + 1 /\ F[i - 1] = bp /\ act[i].caller.pc = pc + 1 /\ i - 1 = n /\ ~(i < n + 1)
          BY <1>3, <2>5, <2>6, <2>9, <3>1
        <4>2. F[i] + 2 = sp + 3 /\ F[i] + 3 = sp + 4
          BY <1>3, <4>1
        <4> QED  BY <2>4, <2>13, <2>14, <4>1, <4>2 DEF LinkedAt
      <3>2. CASE i # n + 1
        <4>1. i \in 1 .. n /\ act[i] = active[i] /\ i - 1 \in 0 .. n /\ i - 1 \in 0 .. n - 1
          BY <1>3, <2>6, <3>2
        <4>2. F[i] = G[i] /\ F[i - 1] = G[i - 1]
          BY <1>3, <2>9, <4>1
        <4>3. LinkedAt(i, G, active, n, stack, frames) /\ NestedAt(i, Q, active, depth)
          BY <2>7, <4>1
        <4>4. active[i].parent \in 0 .. n /\ F[active[i].parent] = G[active[i].parent]
              /\ G[active[i].parent] = FrameOf(active[i].parent)
          <5>1. active[i].parent \in 0 .. n
            BY <1>3, <4>1, <4>3 DEF NestedAt
          <5> QED  BY <2>7, <2>9, <5>1
        <4>5. stack[G[i] + 1] = G[active[i].parent]
          <5>1. LinksIn(stack)
            BY <1>2, PlaceLinks
          <5>2. G[i] = FrameOf(i)
            BY <2>7, <4>1
          <5> QED  BY <1>3, <4>1, <4>4, <5>1, <5>2 DEF LinksIn
        <4>6. \A k \in 1 .. 3 : st[G[i] + k] = stack[G[i] + k]
          <5>1. \A k \in 1 .. 3 : G[i] + k \in 0 .. StackHeight - 1 /\ G[i] + k <= sp
            BY <1>7, <2>12, <4>1
          <5> QED  BY <2>13, <5>1
        <4>7. st[G[i] + 1] = stack[G[i] + 1] /\ st[G[i] + 2] = stack[G[i] + 2] /\ st[G[i] + 3] = stack[G[i] + 3]
          BY <4>6
        <4> QED  BY <2>4, <2>14, <4>1, <4>2, <4>3, <4>4, <4>5, <4>7 DEF LinkedAt
      <3> QED  BY <3>1, <3>2
    <2>18. bp + s.known <= StackHeight
      <3>1. bp + s.known <= StackHeight \/ s.known = 0
        BY TidyFacts DEF IsAt
      <3> QED  BY <1>5, <1>7, <3>1
    <2>19. ASSUME NEW i \in 1 .. n + 1 PROVE \E c \in at : WaitedFor(i, F, P, act, c)
      <3>1. CASE i = n + 1
        <4>1. F[i] = sp + 1 /\ F[i - 1] = bp /\ P[i - 1] = s.proc /\ act[i] = r
          BY <1>3, <2>6, <2>9, <3>1
        <4>2. s.height = F[i] - F[i - 1] /\ F[i] - 1 = sp
          BY <1>7, <4>1
        <4>3. WaitedFor(i, F, P, act, s)
          BY <1>1, <1>2, <1>3, <2>5, <2>18, <4>1, <4>2 DEF WaitedFor
        <4> QED  BY <4>3, TidyFacts
      <3>2. CASE i # n + 1
        <4>1. i \in 1 .. n /\ act[i] = active[i] /\ i \in 0 .. n /\ i - 1 \in 0 .. n
          BY <1>3, <2>6, <3>2
        <4>2. PICK c \in at : WaitedFor(i, G, Q, active, c)
          BY <2>7, <4>1
        <4>3. WaitedFor(i, F, P, act, c)
          BY <2>9, <4>1, <4>2 DEF WaitedFor
        <4> QED  BY <4>3
      <3> QED  BY <3>1, <3>2
    <2>20. /\ t \in at
           /\ t.pc = pc' /\ t.proc = P[n + 1] /\ t.height = sp' - bp' + 1 /\ t.link = 1
           /\ bp' + t.known <= StackHeight \/ t.known = 0
           /\ n + 1 # 0 => stack'[bp' + 1] = F[act[n + 1].parent]
      <3>1. t.pc = e /\ t.proc = e /\ t.height = 0 /\ t.known = 4 /\ t.link = 1
        BY <1>0 DEF Entry
      <3>2. t \in at
        BY <1>0, <1>1, NextFacts
      <3>3. sp' - bp' + 1 = 0 /\ bp' + 4 <= StackHeight /\ bp' + 1 = sp + 2
        <4>1. sp' = sp /\ bp' = sp + 1
          BY <2>3
        <4> QED  BY <1>5, <1>7, <4>1
      <3>4. stack'[bp' + 1] = F[act[n + 1].parent]
        BY <2>4, <2>5, <2>6, <2>9, <2>13, <3>3
      <3> QED  BY <2>3, <2>9, <3>1, <3>2, <3>3, <3>4
    <2>21. framecount' = n + 1 /\ bp' = F[n + 1] /\ program' = program
      BY <2>3, <2>9
    <2>22. \A i \in 1 .. n + 1 : /\ NestedAt(i, P, act, depth) /\ StackedAt(i, F)
                                 /\ LinkedAt(i, F, act, n + 1, stack', frames')
                                 /\ \E c \in at : WaitedFor(i, F, P, act, c)
      BY <2>15, <2>16, <2>17, <2>19
    <2>23. act = active' /\ act \in Seq(Activation(program))
      BY <2>4, <2>6
    <2>24. Tidy(at, depth)'
      BY <2>11, <2>20, <2>21, <2>22, <2>23, TidyNext, ZenonT(60)
    <2> QED  BY <2>3, <2>24, GoesOnKept
  <1>6. CASE ~(sp + 4 < StackHeight)
    <2>1. 4 \notin Written
      <3>1. ~InStack(sp + 4)
        BY <1>3, <1>6, MachineAssumption DEF InStack
      <3>2. 4 \in 1 .. 4
        OBVIOUS
      <3> QED  BY <3>1, <3>2 DEF Written
    <2>2. Fail(WithLinks, sp, pc)
      BY <2>1 DEF Cal
    <2>3. sp + 4 >= StackHeight
      BY <1>3, <1>6, MachineAssumption
    <2> QED  BY <1>3, <2>2, <2>3, StackRunsOut
  <1> QED  BY <1>5, <1>6

\* The place behind a call is one of the discipline's.
LEMMA BehindCall ==
    ASSUME NEW at, NEW depth, Discipline(program, at, depth), NEW c \in at,
           program.code[c.pc].op = "CAL"
    PROVE  \E t \in at : /\ t.pc = c.pc + 1 /\ t.proc = c.proc /\ t.link = c.link
                         /\ t.height = c.height /\ t.known = c.known
  <1> DEFINE t == Going(c, c.pc + 1, c.height)
  <1>1. c \in Places(program) /\ NextPlaces(program, c) \subseteq at
    BY DEF Discipline
  <1>2. t \in at
    BY <1>1 DEF NextPlaces, Unary, Binary
  <1>3. /\ t.pc = c.pc + 1 /\ t.proc = c.proc /\ t.link = c.link
        /\ t.height = c.height /\ t.known = c.known
    BY <1>1 DEF Going, Places
  <1> QED  BY <1>2, <1>3, Zenon

LEMMA RetKept ==
    ASSUME NEW at, NEW depth, NEW s, RunsAt(at, depth, s), Ret
    PROVE  Kept(at, depth)
  <1>0. PICK n, m : n = Len(active) /\ m = n - 1
    OBVIOUS
  <1>1. insn.op = "RET" /\ status = "running"
    BY DEF Ret, Execute
  <1>2. /\ active \in Seq(Activation(program)) /\ framecount = n /\ framecount \in Word
        /\ bp = FrameOf(n) /\ bp \in Nat /\ Discipline(program, at, depth)
    BY <1>0, TidyFacts, PlaceFacts DEF TypeOK
  <1>3. n \in Nat /\ n # 0
    BY <1>0, <1>1, PlaceFacts, TidyFacts DEF Allowed
  <1>4. m \in Nat /\ n = m + 1 /\ n \in 1 .. n /\ m < n /\ n - 1 = m
    BY <1>0, <1>3
  <1>5. bp + 3 < StackHeight /\ StackHeight \in Nat
    BY <1>0, <1>3, PlaceFacts, MachineAssumption
  <1>6. InStack(bp + 3) /\ InStack(bp + 2)
    BY <1>2, <1>5 DEF InStack
  <1>7. /\ sp' = bp - 1 /\ pc' = stack[bp + 3] /\ bp' = stack[bp + 2]
        /\ framecount' = Wrap(framecount - 1)
        /\ active' = Front(active)
        /\ program' = program /\ stack' = stack /\ frames' = frames /\ status' = "running"
    <2>1. active # << >>
      BY <1>0, <1>3
    <2> QED  BY <1>1, <1>6, <2>1 DEF Ret
  <1>8. framecount' = m
    <2>1. m \in Word
      BY <1>2, <1>4, MachineAssumption DEF Word, WordMin
    <2> QED  BY <1>2, <1>4, <1>7, <2>1, WordsStay
  <1>9. PICK act : act = active'
    OBVIOUS
  <1>10. /\ act \in Seq(Activation(program)) /\ Len(act) = m
         /\ \A i \in 1 .. m : act[i] = active[i]
    BY <1>0, <1>2, <1>4, <1>7, <1>9 DEF Front
  <1>11. PICK G, Q :
            /\ Describe(G, Q, active, n)
            /\ \A i \in 0 .. n : G[i] = FrameOf(i) /\ Q[i] = ProcOf(i)
            /\ \A i \in 1 .. n : /\ NestedAt(i, Q, active, depth) /\ StackedAt(i, G)
                                 /\ LinkedAt(i, G, active, n, stack, frames)
                                 /\ \E c \in at : WaitedFor(i, G, Q, active, c)
    BY <1>0, Described
  <1>12. PICK F, P : F = [i \in 0 .. m |-> G[i]] /\ P = [i \in 0 .. m |-> Q[i]]
    OBVIOUS
  <1>13. /\ m \in 0 .. m /\ 0 \in 0 .. m
         /\ \A i \in 0 .. m : F[i] = G[i] /\ P[i] = Q[i] /\ i \in 0 .. n
         /\ \A i \in 1 .. m : i \in 0 .. m /\ i - 1 \in 0 .. m /\ i \in 1 .. n /\ i < n /\ i - 1 \in 0 .. n
    BY <1>4, <1>12
  <1>14. Describe(F, P, act, m)
    <2>1. /\ G \in [0 .. n -> Nat] /\ G[0] = 1 /\ Q[0] = Main
          /\ \A i \in 1 .. n : G[i] = active[i].frame /\ Q[i] = active[i].proc
      BY <1>11 DEF Describe
    <2>2. F \in [0 .. m -> Nat]
      BY <1>12, <1>13, <2>1
    <2>3. \A i \in 1 .. m : F[i] = act[i].frame /\ P[i] = act[i].proc
      BY <1>10, <1>13, <2>1
    <2> QED  BY <1>4, <1>10, <1>13, <2>1, <2>2, <2>3 DEF Describe
  <1>15. ASSUME NEW i \in 1 .. m PROVE /\ NestedAt(i, P, act, depth) /\ StackedAt(i, F)
                                       /\ LinkedAt(i, F, act, m, stack', frames')
                                       /\ \E c \in at : WaitedFor(i, F, P, act, c)
    <2>1. /\ NestedAt(i, Q, active, depth) /\ StackedAt(i, G)
          /\ LinkedAt(i, G, active, n, stack, frames)
          /\ \E c \in at : WaitedFor(i, G, Q, active, c)
      BY <1>11, <1>13
    <2>2. PICK q : q = active[i].parent
      OBVIOUS
    <2>3. /\ act[i] = active[i] /\ F[i] = G[i] /\ P[i] = Q[i] /\ i < n
          /\ F[i - 1] = G[i - 1] /\ P[i - 1] = Q[i - 1]
      BY <1>10, <1>13
    <2>4. q \in 0 .. i - 1
      BY <2>1, <2>2 DEF NestedAt
    <2>5. /\ F[q] = G[q] /\ P[q] = Q[q]
          /\ \A j \in q + 1 .. i - 1 : P[j] = Q[j]
          /\ \A j \in 1 .. i - 1 : F[j] = G[j]
      <3>1. q \in 0 .. m /\ \A j \in q + 1 .. i - 1 : j \in 0 .. m
        BY <1>4, <2>4
      <3>2. \A j \in 1 .. i - 1 : j \in 0 .. m
        BY <1>4
      <3> QED  BY <1>13, <3>1, <3>2
    <2>6. NestedAt(i, P, act, depth)
      BY <2>1, <2>2, <2>3, <2>5 DEF NestedAt
    <2>7. StackedAt(i, F)
      BY <2>1, <2>3, <2>5 DEF StackedAt
    <2>8. LinkedAt(i, F, act, m, stack', frames')
      BY <1>7, <2>1, <2>2, <2>3, <2>5 DEF LinkedAt
    <2>9. \E c \in at : WaitedFor(i, F, P, act, c)
      BY <2>1, <2>3 DEF WaitedFor
    <2> QED  BY <2>6, <2>7, <2>8, <2>9
  <1>16. PICK c \in at : WaitedFor(n, G, Q, active, c)
    BY <1>4, <1>11
  <1>17. /\ program.code[c.pc].op = "CAL"
         /\ c.proc = P[m] /\ c.link = 1
         /\ c.height = G[n] - G[m] /\ G[m] + c.known <= StackHeight
         /\ active[n].caller.pc = c.pc + 1
         /\ F[m] = G[m] /\ G[n] = bp
    <2>1. G[n] = bp
      BY <1>2, <1>4, <1>11
    <2> QED  BY <1>4, <1>13, <1>16, <2>1 DEF WaitedFor
  <1>18. pc' = c.pc + 1 /\ bp' = F[m]
    <2>1. stack[G[n] + 2] = G[n - 1] /\ stack[G[n] + 3] = active[n].caller.pc
      BY <1>4, <1>11 DEF LinkedAt
    <2> QED  BY <1>4, <1>7, <1>17, <2>1
  <1>19. PICK t \in at : /\ t.pc = c.pc + 1 /\ t.proc = c.proc /\ t.link = c.link
                         /\ t.height = c.height /\ t.known = c.known
    BY <1>2, <1>17, BehindCall
  <1>20. t.pc = pc' /\ t.proc = P[m] /\ t.link = 1
    BY <1>17, <1>18, <1>19
  <1>21. t.height = sp' - bp' + 1
    <2>1. G[m] \in Nat
      BY <1>11, <1>13 DEF Describe
    <2>2. sp' = bp - 1 /\ bp' = G[m]
      BY <1>7, <1>17, <1>18
    <2> QED  BY <1>2, <1>17, <1>19, <2>1, <2>2
  <1>22. bp' + t.known <= StackHeight \/ t.known = 0
    BY <1>17, <1>18, <1>19
  <1>23. m # 0 => stack'[bp' + 1] = F[act[m].parent]
    <2>1. SUFFICES ASSUME m # 0 PROVE stack'[bp' + 1] = F[act[m].parent]
      OBVIOUS
    <2>2. m \in 1 .. m /\ m \in 1 .. n
      BY <1>4, <2>1
    <2>3. stack[G[m] + 1] = G[active[m].parent]
      BY <1>4, <1>11, <2>2 DEF LinkedAt
    <2>4. active[m].parent \in 0 .. m
      BY <1>4, <1>11, <2>2 DEF NestedAt
    <2>5. F[active[m].parent] = G[active[m].parent]
      BY <1>13, <2>4
    <2> QED  BY <1>7, <1>10, <1>17, <1>18, <2>2, <2>3, <2>5
  <1>24. Tidy(at, depth)'
    <2>1. act = active' /\ act \in Seq(Activation(program)) /\ program' = program
      BY <1>7, <1>9, <1>10
    <2>2. \A i \in 1 .. m : /\ NestedAt(i, P, act, depth) /\ StackedAt(i, F)
                            /\ LinkedAt(i, F, act, m, stack', frames')
                            /\ \E w \in at : WaitedFor(i, F, P, act, w)
      BY <1>15
    <2> QED  BY <1>8, <1>14, <1>18, <1>20, <1>21, <1>22, <1>23, <2>1, <2>2, TidyNext, ZenonT(60)
  <1> QED  BY <1>7, <1>24, GoesOnKept

\* A return takes the caller's registers from the frame.
LEMMA Returned ==
    ASSUME NEW at, NEW depth, NEW s, RunsAt(at, depth, s), Ret
    PROVE  /\ active # << >>
           /\ [sp |-> sp', bp |-> bp', pc |-> pc'] = Last(active).caller
  <1>1. insn.op = "RET" /\ Len(active) \in Nat /\ Len(active) # 0 /\ bp = FrameOf(Len(active))
    BY PlaceFacts, TidyFacts DEF Ret, Execute, Allowed
  <1>2. bp + 3 < StackHeight /\ bp \in Nat /\ StackHeight \in Nat
    BY <1>1, PlaceFacts, MachineAssumption
  <1>3. InStack(bp + 3) /\ InStack(bp + 2)
    BY <1>2 DEF InStack
  <1>4. sp' = bp - 1 /\ pc' = stack[bp + 3] /\ bp' = stack[bp + 2]
    BY <1>3 DEF Ret
  <1>5. PICK i : i = Len(active)
    OBVIOUS
  <1>6. i \in 1 .. Len(active) /\ active # << >> /\ FrameOf(i) = bp
    BY <1>1, <1>5
  <1>7. PICK c \in at : WaitsAt(i, c)
    BY <1>6, TidyFacts DEF Waiting
  <1>8. active[i].caller = [sp |-> bp - 1, bp |-> FrameOf(i - 1), pc |-> c.pc + 1]
    BY <1>6, <1>7 DEF WaitsAt
  <1>9. stack[bp + 2] = FrameOf(i - 1) /\ stack[bp + 3] = active[i].caller.pc
    BY <1>6, TidyFacts DEF Linking
  <1>10. Last(active) = active[i]
    BY <1>5 DEF Last
  <1> QED  BY <1>4, <1>6, <1>8, <1>9, <1>10

-----------------------------------------------------------------------------
(* The theorems.                                                           *)

LEMMA LitKept ==
    ASSUME NEW at, NEW depth, NEW s, RunsAt(at, depth, s), NEW w, Push(w),
           insn.op \in {"LIT", "READ"}
    PROVE  Kept(at, depth)
  <1>1. Pushing(s) \in at
    BY NextFacts
  <1>2. Links(s.proc) <= s.height
    BY OperandFacts
  <1> QED  BY <1>1, <1>2, PushKept

LEMMA StepKept ==
    ASSUME NEW at, NEW depth, NEW s, RunsAt(at, depth, s), Next
    PROVE  Kept(at, depth)
  <1>1. InCode(pc) /\ insn.op # "illegal" /\ status = "running"
    BY PlaceFacts DEF RunsAt, Allowed
  <1>2. ~FetchOutside /\ ~Illegal /\ ~Terminated
    BY <1>1 DEF FetchOutside, Illegal, Execute, Terminated
  <1>3. CASE Lit
    BY <1>3, LitKept DEF Lit, Execute
  <1>4. CASE Read
    BY <1>4, LitKept DEF Read, Execute
  <1>5. CASE Halt
    <2>1. status' = "halted"
      BY <1>5 DEF Halt
    <2> QED  BY <2>1 DEF Kept, StopsForWantOfStack
  <1> QED  BY <1>2, <1>3, <1>4, <1>5, LodKept, StoKept, IncKept, JmpKept, JpcKept, CalKept,
              RetKept, UnaryKept, BinaryKept, WriteKept DEF Next

LEMMA ProgramStays == ASSUME [Next]_vars PROVE program' = program
  BY DEF Next, vars, cpuVars, traceVars, FetchOutside, Illegal, Fail, Lit, Push, Continue, Lod, Sto, Inc,
         Jmp, Jpc, Cal, Ret, UnaryOp, BinaryOp, Write, Read, Halt, Terminated

LEMMA FirstTidy ==
    ASSUME Init, NEW at, NEW depth, Discipline(program, at, depth)
    PROVE  Tidy(at, depth)
  <1>1. /\ sp = 0 /\ bp = 1 /\ pc = 0 /\ framecount = 0 /\ active = << >>
        /\ active \in Seq(Activation(program)) /\ Len(active) = 0
    BY DEF Init, Loaded
  <1>2. bp = FrameOf(Len(active)) /\ ProcOf(Len(active)) = Main
    BY <1>1 DEF FrameOf, ProcOf
  <1>3. FirstPlace \in at /\ IsAt(FirstPlace)
    BY <1>1, <1>2 DEF Discipline, FirstPlace, IsAt
  <1>4. Nested(depth) /\ Stacked /\ Linking /\ Waiting(at)
    BY <1>1 DEF Nested, Stacked, Linking, Waiting
  <1> QED  BY <1>1, <1>2, <1>3, <1>4 DEF Tidy

LEMMA DisciplineHolds ==
    /\ Init /\ Disciplined(program) => DisciplineInv
    /\ DisciplineInv /\ [Next]_vars => DisciplineInv'
  <1>1. ASSUME Init, Disciplined(program) PROVE DisciplineInv
    <2>1. PICK at \in SUBSET Places(program), depth \in [Owners(program) -> Nat] :
                  Discipline(program, at, depth)
      BY <1>1 DEF Disciplined
    <2>2. Tidy(at, depth)
      BY <1>1, <2>1, FirstTidy
    <2>3. TypeOK /\ StopsForWantOfStack
      BY <1>1, InitTypeOK DEF Init, StopsForWantOfStack
    <2> QED  BY <2>1, <2>2, <2>3 DEF DisciplineInv, InGoodOrder
  <1>2. ASSUME DisciplineInv, [Next]_vars PROVE DisciplineInv'
    <2>1. PICK at \in SUBSET Places(program), depth \in [Owners(program) -> Nat] :
                  Discipline(program, at, depth) /\ (status = "running" => Tidy(at, depth))
      BY <1>2 DEF DisciplineInv, InGoodOrder
    <2>2. TypeOK' /\ program' = program
      BY <1>2, NextTypeOK, ProgramStays DEF DisciplineInv
    <2>3. StopsForWantOfStack' /\ (status' = "running" => Tidy(at, depth)')
      <3>1. CASE status = "running" /\ Next
        <4>1. PICK s \in at : IsAt(s)
          BY <2>1, <3>1 DEF Tidy
        <4>2. RunsAt(at, depth, s)
          BY <1>2, <2>1, <3>1, <4>1 DEF RunsAt, DisciplineInv
        <4> QED  BY <3>1, <4>2, StepKept DEF Kept
      <3>2. CASE ~(status = "running" /\ Next)
        <4>1. UNCHANGED vars
          BY <1>2, <3>2 DEF Next, FetchOutside, Illegal, Lit, Lod, Sto, Inc, Jmp, Jpc, Cal, Ret,
                            UnaryOp, BinaryOp, Write, Read, Halt, Execute, Terminated
        <4>2. StopsForWantOfStack'
          BY <1>2, <4>1 DEF DisciplineInv, StopsForWantOfStack, InCode, insn, Code, vars, cpuVars, traceVars
        <4>3. status' = status /\ Tidy(at, depth)' = Tidy(at, depth)
          BY <4>1 DEF vars, cpuVars, traceVars, Tidy, Nested, Stacked, Linking, Waiting, WaitsAt, IsAt,
                      FrameOf, ProcOf, Outwards, Code
        <4> QED  BY <2>1, <4>2, <4>3
      <3> QED  BY <3>1, <3>2
    <2>4. InGoodOrder'
      BY <2>1, <2>2, <2>3 DEF InGoodOrder
    <2> QED  BY <2>2, <2>3, <2>4 DEF DisciplineInv
  <1> QED  BY <1>1, <1>2

LEMMA RunsInOrder ==
    ASSUME DisciplineInv, status = "running"
    PROVE  \E at, depth, s : RunsAt(at, depth, s)
  BY DEF DisciplineInv, InGoodOrder, Tidy, RunsAt

\* The list of frames that the stack trace prints, and the dynamic links that returns
\* follow, are those of the procedures called and not yet returned from, for every
\* program that keeps the discipline.
THEOREM FramesAreTheCallersCorrect == Spec /\ Disciplined(program) => []FramesAreTheCallers
  <1>1. ASSUME DisciplineInv PROVE FramesAreTheCallers
    <2>1. SUFFICES ASSUME status = "running" PROVE FramesAreTheCallers
      BY DEF FramesAreTheCallers
    <2>2. PICK at, depth, s : RunsAt(at, depth, s)
      BY <1>1, <2>1, RunsInOrder
    <2>3. /\ Len(active) \in Nat /\ framecount = Len(active) /\ bp = FrameOf(framecount)
          /\ Stacked /\ Linking
      BY <2>2, TidyFacts
    <2>4. ASSUME NEW i \in 1 .. framecount
          PROVE  /\ frames[i - 1] = FrameOf(i)
                 /\ stack[FrameOf(i) + 2] = FrameOf(i - 1)
                 /\ i > 1 => FrameOf(i - 1) < FrameOf(i)
      <3>1. frames[i - 1] = FrameOf(i) /\ stack[FrameOf(i) + 2] = FrameOf(i - 1)
        BY <2>3 DEF Linking
      <3>2. ASSUME i > 1 PROVE FrameOf(i - 1) < FrameOf(i)
        <4>1. i - 1 \in 1 .. i - 1 /\ i \in 1 .. Len(active) /\ i - 1 \in 1 .. Len(active)
          BY <2>3, <3>2
        <4>2. FrameOf(i - 1) + 4 <= FrameOf(i)
          BY <2>3, <4>1 DEF Stacked
        <4>3. FrameOf(i - 1) \in Nat /\ FrameOf(i) \in Nat
          BY <2>2, <4>1, TidyFacts, FrameFacts
        <4> QED  BY <4>2, <4>3
      <3> QED  BY <3>1, <3>2
    <2> QED  BY <2>3, <2>4 DEF FramesAreTheCallers
  <1> QED  BY <1>1, DisciplineHolds, PTL DEF Spec

\* The static links lead to the frames of the scopes that declare what an instruction
\* names, in their latest activation, for every program that keeps the discipline.
THEOREM ReachesItsScopeCorrect == Spec /\ Disciplined(program) => []ReachesItsScope
  <1>1. ASSUME DisciplineInv PROVE ReachesItsScope
    <2>1. SUFFICES ASSUME status = "running" PROVE ReachesItsScope
      BY DEF ReachesItsScope
    <2>2. PICK at, depth, s : RunsAt(at, depth, s)
      BY <1>1, <2>1, RunsInOrder
    <2> QED  BY <2>2, PlaceReaches
  <1> QED  BY <1>1, DisciplineHolds, PTL DEF Spec

\* A program that keeps the discipline stops by HALT, at a division or for want of
\* stack, and never finds the list of frames full.
THEOREM StopsForWantOfStackCorrect == Spec /\ Disciplined(program) => []StopsForWantOfStack
  <1>1. DisciplineInv => StopsForWantOfStack
    BY DEF DisciplineInv
  <1> QED  BY <1>1, DisciplineHolds, PTL DEF Spec

\* Every return of a program that keeps the discipline goes back to the call, with the
\* frame and the stack that the caller had there.
THEOREM ReturnsToTheCallerCorrect == Spec /\ Disciplined(program) => ReturnsToTheCaller
  <1> DEFINE Returns == Execute("RET") => /\ active # << >>
                                          /\ [sp |-> sp', bp |-> bp', pc |-> pc'] = Last(active).caller
  <1>1. ASSUME DisciplineInv, [Next]_vars PROVE [Returns]_vars
    <2>1. SUFFICES ASSUME Execute("RET"), ~ UNCHANGED vars
                   PROVE  /\ active # << >>
                          /\ [sp |-> sp', bp |-> bp', pc |-> pc'] = Last(active).caller
      OBVIOUS
    <2>2. PICK at, depth, s : RunsAt(at, depth, s)
      BY <1>1, <2>1, RunsInOrder DEF Execute
    <2>3. Ret
      BY <1>1, <2>1 DEF Next, FetchOutside, Illegal, Lit, Lod, Sto, Inc, Jmp, Jpc, Cal,
                        UnaryOp, BinaryOp, Write, Read, Halt, Execute, Terminated, Unary, Binary
    <2> QED  BY <2>2, <2>3, Returned
  <1> QED  BY <1>1, DisciplineHolds, PTL DEF Spec, ReturnsToTheCaller

=============================================================================
