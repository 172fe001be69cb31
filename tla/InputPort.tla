------------------------------ MODULE InputPort ------------------------------
(***************************************************************************)
(* How READ gets a number from the program's input (Machine_readWord,      *)
(* readIntString and readChunk in vm/machine.c): the input comes in chunks *)
(* of any size, cut anywhere, and a Ctrl+C may abandon the read at any     *)
(* moment, to be made again when the program is continued.                 *)
(***************************************************************************)
EXTENDS Integers, Sequences, SequencesExt, FiniteSetsExt

CONSTANTS
    Inputs,         \* the inputs a user may type: sequences of Chars
    ChunkSize,      \* bound on what one read returns (100 in the code)
    WordMin, WordMax,
    MaxInterrupts   \* bound of the model on the number of Ctrl+C

\* The characters readIntString tells apart: the digits, the minus sign, and all
\* the others, which separate numbers.
Digits == 0 .. 9
Minus == 10
Sep == 11
Chars == Digits \cup {Minus, Sep}

ASSUME InputAssumption == /\ Inputs \subseteq Seq(Chars)
                          /\ ChunkSize \in Nat \ {0}
                          /\ WordMin \in Int /\ WordMax \in Int
                          /\ MaxInterrupts \in Nat

isdigit(c) == c \in Digits
isSignedDigit(c) == c = Minus \/ isdigit(c)

VARIABLES
    input,          \* everything the user will have typed
    closed,         \* whether the input then ends (a pipe) or stays open
    pending,        \* what is typed and not read yet
    input_buffer,   \* what is read and not used yet
    intstr,         \* the characters of the number so far
    mode,           \* where READ is; "idle" when none is executing
    interrupted,    \* the SIGINT handler's flag
    interrupts,     \* how many there have been
    values,         \* history: the words READ has pushed
    taken           \* history: the characters handed to strtol

user == <<input, closed>>
signal == <<interrupted, interrupts>>
read == <<values, taken>>
vars == <<user, pending, input_buffer, intstr, mode, signal, read>>

Init == /\ input \in Inputs
        /\ closed \in BOOLEAN
        /\ pending = input
        /\ input_buffer = << >>
        /\ intstr = << >>
        /\ mode = "idle"
        /\ interrupted = FALSE
        /\ interrupts = 0
        /\ values = << >>
        /\ taken = << >>

-----------------------------------------------------------------------------
(* Converting.                                                             *)

\* strtol with base 0: a leading zero makes the number octal.  The result is
\* negated by a minus sign; a minus sign anywhere else, a digit that is not of
\* the base, or no digit at all stops the conversion early.
Unsigned(s) == IF s # << >> /\ s[1] = Minus THEN Tail(s) ELSE s
Base(s) == IF s # << >> /\ s[1] = 0 THEN 8 ELSE 10
Converts(s) == LET u == Unsigned(s)
               IN  u # << >> /\ \A i \in 1 .. Len(u) : u[i] < Base(u)
Value(s) == LET u == Unsigned(s)
                n[i \in 0 .. Len(u)] == IF i = 0 THEN 0 ELSE n[i - 1] * Base(u) + u[i]
            IN  IF s[1] = Minus THEN -n[Len(u)] ELSE n[Len(u)]
FitsWord(s) == Value(s) <= WordMax /\ Value(s) >= WordMin

-----------------------------------------------------------------------------
(* Machine_readIntString.                                                  *)

\* The first signed digit of the buffer, and the end of the digits after it; one
\* past the end of the buffer when there is none.
Start == Min({i \in 1 .. Len(input_buffer) : isSignedDigit(input_buffer[i])}
                \cup {Len(input_buffer) + 1})
End == Min({i \in Start + 1 .. Len(input_buffer) : ~isdigit(input_buffer[i])}
              \cup {Len(input_buffer) + 1})

Read == /\ mode = "idle"
        /\ mode' = "scan"
        /\ interrupted' = FALSE
        /\ UNCHANGED <<user, pending, input_buffer, intstr, interrupts, read>>

\* A fault to be caught: separators at the head of a chunk do not end the number.
NumberEnded_Fault == FALSE

\* The number in intstr ended with the last chunk.
NumberEnded == intstr # << >> /\ Start # 1

ScanEnded == /\ mode = "scan"
             /\ NumberEnded
             /\ mode' = "convert"
             /\ UNCHANGED <<user, pending, input_buffer, intstr, signal, read>>

\* A fault to be caught: what follows the number in the same chunk does not end it.
Scan_Fault == /\ mode = "scan"
              /\ ~NumberEnded
              /\ intstr' = intstr \o SubSeq(input_buffer, Start, End - 1)
              /\ input_buffer' = SubSeq(input_buffer, End, Len(input_buffer))
              /\ mode' = "chunk"
              /\ UNCHANGED <<user, pending, signal, read>>

\* Without a digit in the buffer Start is past its end: nothing is appended and
\* the buffer is emptied.
Scan == /\ mode = "scan"
        /\ ~NumberEnded
        /\ intstr' = intstr \o SubSeq(input_buffer, Start, End - 1)
        /\ input_buffer' = SubSeq(input_buffer, End, Len(input_buffer))
        /\ mode' = IF End <= Len(input_buffer) THEN "convert" ELSE "chunk"
        /\ UNCHANGED <<user, pending, signal, read>>

-----------------------------------------------------------------------------
(* Machine_readChunk: the flag is tested before and after the system call. *)

CallsRead == /\ mode = "chunk"
             /\ mode' = IF interrupted THEN "got" ELSE "blocked"
             /\ UNCHANGED <<user, pending, input_buffer, intstr, signal, read>>

Delivered == /\ mode = "blocked"
             /\ \E n \in 1 .. Len(pending) :
                   /\ n <= ChunkSize
                   /\ input_buffer' = input_buffer \o SubSeq(pending, 1, n)
                   /\ pending' = SubSeq(pending, n + 1, Len(pending))
             /\ mode' = "got"
             /\ UNCHANGED <<user, intstr, signal, read>>

\* At the end of the input read returns no bytes, and so does the next one.
EndOfInput == /\ mode = "blocked"
              /\ closed
              /\ pending = << >>
              /\ mode' = "got"
              /\ UNCHANGED <<user, pending, input_buffer, intstr, signal, read>>

ScanAgain == /\ mode = "got"
             /\ ~interrupted
             /\ mode' = "scan"
             /\ UNCHANGED <<user, pending, input_buffer, intstr, signal, read>>

\* A fault to be caught: what was scanned is dropped with intstr.
Abandon_Fault == /\ mode = "got"
                 /\ interrupted
                 /\ intstr' = << >>
                 /\ mode' = "idle"
                 /\ UNCHANGED <<user, pending, input_buffer, signal, read>>

\* A fault to be caught: what was scanned goes back, and stays in intstr as well.
Abandon_Twice == /\ mode = "got"
                 /\ interrupted
                 /\ input_buffer' = intstr \o input_buffer
                 /\ mode' = "idle"
                 /\ UNCHANGED <<user, pending, intstr, signal, read>>

\* What was scanned goes back in front of what was not; READ will run again.
Abandon == /\ mode = "got"
           /\ interrupted
           /\ input_buffer' = intstr \o input_buffer
           /\ intstr' = << >>
           /\ mode' = "idle"
           /\ UNCHANGED <<user, pending, signal, read>>

-----------------------------------------------------------------------------
(* Machine_readWord.                                                       *)

Used == /\ taken' = taken \o intstr
        /\ intstr' = << >>
        /\ UNCHANGED <<user, pending, input_buffer, signal>>

Push == /\ mode = "convert"
        /\ Converts(intstr)
        /\ FitsWord(intstr)
        /\ values' = Append(values, Value(intstr))
        /\ mode' = "idle"
        /\ Used

\* "Could not convert input ... to an integer": READ goes on to the next number.
Reject == /\ mode = "convert"
          /\ Converts(intstr) => ~FitsWord(intstr)
          /\ mode' = "scan"
          /\ UNCHANGED values
          /\ Used

Interrupt == /\ mode # "idle"
             /\ ~interrupted
             /\ interrupts < MaxInterrupts
             /\ interrupts' = interrupts + 1
             /\ interrupted' = TRUE
             /\ mode' = IF mode = "blocked" THEN "got" ELSE mode
             /\ UNCHANGED <<user, pending, input_buffer, intstr, read>>

Thread == Read \/ ScanEnded \/ Scan \/ CallsRead \/ ScanAgain \/ Abandon \/ Push \/ Reject

Next == Thread \/ Delivered \/ EndOfInput \/ Interrupt

Spec == Init /\ [][Next]_vars

\* The thread runs, and what was typed (or the end of the input) is delivered.
FairSpec == Spec /\ WF_vars(Thread) /\ WF_vars(Delivered) /\ WF_vars(EndOfInput)

-----------------------------------------------------------------------------
(* What the input says, read at one glance: a number is a minus sign or a  *)
(* digit that no signed digit precedes, with the digits that follow.       *)

Acceptable(t) == Converts(t) /\ FitsWord(t)

Begins(s, i) == /\ isSignedDigit(s[i])
                /\ isdigit(s[i]) => i = 1 \/ ~isSignedDigit(s[i - 1])
TextAt(s, i) == SubSeq(s, i, Min({j \in i .. Len(s) : j = Len(s) \/ ~isdigit(s[j + 1])}))
NumberAt(s, i) == IF Begins(s, i) /\ Acceptable(TextAt(s, i)) THEN <<Value(TextAt(s, i))>> ELSE << >>
Numbers(s) == FlattenSeq([i \in 1 .. Len(s) |-> NumberAt(s, i)])

\* The same without its separators.
SignedDigits(s) == FlattenSeq([i \in 1 .. Len(s) |-> IF isSignedDigit(s[i]) THEN <<s[i]>> ELSE << >>])

\* A minus sign right after a digit or another sign.
Glued(s) == \E i \in 2 .. Len(s) : s[i] = Minus /\ isSignedDigit(s[i - 1])

-----------------------------------------------------------------------------
(* Properties.                                                             *)

\* The types; what is left over from the input is never longer than the input.
TypeOK == /\ input \in Inputs
          /\ closed \in BOOLEAN
          /\ \A s \in {pending, input_buffer, intstr, taken} :
                Len(s) <= Len(input) /\ \A i \in 1 .. Len(s) : s[i] \in Chars
          /\ mode \in {"idle", "scan", "chunk", "blocked", "got", "convert"}
          /\ interrupted \in BOOLEAN
          /\ interrupts \in 0 .. MaxInterrupts
          /\ \A i \in 1 .. Len(values) : values[i] \in WordMin .. WordMax

\* Wherever the chunks are cut and the reads abandoned, no digit and no sign is
\* lost, repeated or moved: what was converted, what is being scanned, what is
\* buffered and what is pending are the input, separators aside.
NothingLost == SignedDigits(taken \o intstr \o input_buffer \o pending) = SignedDigits(input)

\* The program reads the numbers that were typed, all of them and in their order,
\* whatever the chunks and the interrupts: what it has read, then what it has yet
\* to read.  This is of inputs that are not Glued: there a number may be cut short
\* at a sign, or go on with it ("Only done if there are more characters in the
\* input that aren't digits", machine.c:290).
ReadsWhatWasTyped ==
    values \o Numbers(intstr \o input_buffer \o pending) = Numbers(input)

\* A READ for which a number, with something after it, is there or will come is
\* answered, or abandoned.
NumberComes == LET rest == intstr \o input_buffer \o pending
               IN  \E i \in 1 .. Len(rest) : \E j \in i .. Len(rest) - 1 :
                      /\ i = 1 \/ rest[i - 1] = Sep
                      /\ rest[j + 1] = Sep
                      /\ \A k \in i .. j : isdigit(rest[k])
                      /\ Acceptable(SubSeq(rest, i, j))
ReadAnswers == (mode # "idle" /\ NumberComes) ~> mode = "idle"

=============================================================================
