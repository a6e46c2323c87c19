----------------------------- MODULE OrderedPipe -----------------------------
(***************************************************************************)
(* What an error-correcting link promises in one direction: the chunks     *)
(* written come out in the order they were written, each of them once.     *)
(* Chunk number n is the n-th that was written, counting from zero.        *)
(***************************************************************************)
EXTENDS Integers

VARIABLES
    written,   \* chunks accepted from the writer
    taken,     \* chunks handed to the reader
    last       \* the chunk handed over last, -1 before any

vars == <<written, taken, last>>

Init == written = 0 /\ taken = 0 /\ last = -1

Accept == written' = written + 1 /\ UNCHANGED <<taken, last>>

HandOver ==
    /\ taken < written
    /\ last' = taken
    /\ taken' = taken + 1
    /\ UNCHANGED written

Spec == Init /\ [][Accept \/ HandOver]_vars
==============================================================================
