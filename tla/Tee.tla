-------------------------------- MODULE Tee --------------------------------
(***************************************************************************)
(* A stream that goes to a file and to standard output (tee.c): what stdio *)
(* hands to tee_write, one piece after the other, is written to both by    *)
(* calls of write, each of which may take less than it is given.           *)
(***************************************************************************)
EXTENDS Integers, Sequences, SequencesExt

CONSTANTS
    Pieces,     \* what the stream's buffer holds each time it is written
    SizeMax     \* the largest size_t, no less than the length of a piece

VARIABLES
    piece,      \* which of them is being written
    toWrite,    \* what the loop of tee_write takes to be left of it
    file, out,  \* what has been written to the file and to standard output
    failed      \* history: a write took nothing

teeVars == <<piece, toWrite, file, out, failed>>

Init == piece = 0 /\ toWrite = 0 /\ file = << >> /\ out = << >> /\ failed = FALSE

Buf == Pieces[piece]

\* What a write of a buffer takes, from nothing (an error) to all of it.
Takes(buf) == 0 .. Len(buf)

\* The file is written once; what it did not take is not written again.
WriteFile == /\ toWrite = 0 /\ piece < Len(Pieces)
             /\ piece' = piece + 1
             /\ \E n \in Takes(Pieces[piece']) : /\ file' = file \o SubSeq(Pieces[piece'], 1, n)
                                                 /\ toWrite' = n
                                                 /\ failed' = (failed \/ n = 0)
             /\ UNCHANGED out

\* Standard output is written as long as something is left, the whole buffer each time.
WriteOut == /\ toWrite > 0
            /\ \E n \in Takes(Buf) : /\ out' = out \o SubSeq(Buf, 1, n)
                                     /\ toWrite' = IF n = 0 THEN 0 ELSE (toWrite - n) % (SizeMax + 1)
                                     /\ failed' = (failed \/ n = 0)
            /\ UNCHANGED <<piece, file>>

Next == WriteFile \/ WriteOut

Spec == Init /\ [][Next]_teeVars

-----------------------------------------------------------------------------
\* "Duplicate token list to stdout" (main.c:66), and likewise the others: as
\* long as no write fails, what standard output has is what the file has, or the
\* beginning of it.
Duplicates == ~failed => IsPrefix(out, file)

=============================================================================
