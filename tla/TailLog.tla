------------------------------- MODULE TailLog -------------------------------
(***************************************************************************)
(* What a size-bounded log promises its reader: the bytes that are on disk *)
(* are always the most recent ones, in the order they were written.  Bytes *)
(* are added at the new end and disappear at the old end, nowhere else.    *)
(* A byte is represented by the number of the line it belongs to.          *)
(***************************************************************************)
EXTENDS Naturals, Sequences, SequencesExt

VARIABLE log    \* the retained bytes, oldest first

Init == log = <<>>

\* Some bytes of one line, the newest so far, reach the disk.
Append1 ==
    /\ IsStrictPrefix(log, log')
    /\ \A i \in Len(log) + 1 .. Len(log') :
          /\ log'[i] = log'[Len(log')]
          /\ log # <<>> => log'[i] >= Last(log)

\* The oldest bytes are given up.
DropOldest == IsStrictSuffix(log', log)

Next == Append1 \/ DropOldest

Spec == Init /\ [][Next]_log

=============================================================================
