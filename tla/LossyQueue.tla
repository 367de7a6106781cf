------------------------------ MODULE LossyQueue ------------------------------
(***************************************************************************)
(* What an asynchronous sink promises: a queue that refuses lines when it  *)
(* is full, counts the refused ones, and hands on the others in order and  *)
(* once.  Only the death of the process may lose an accepted line.         *)
(***************************************************************************)
EXTENDS Naturals, Sequences

CONSTANTS
    Lines,    \* the lines that may be offered
    Room      \* how many lines wait before one may be refused

VARIABLES
    waiting,    \* accepted lines, oldest first
    delivered,  \* lines handed on
    refused,    \* number of lines refused
    alive       \* does the process live?

Init ==
    /\ waiting = <<>> /\ delivered = <<>>
    /\ refused = 0
    /\ alive = TRUE

Accept ==
    /\ \E x \in Lines : waiting' = Append(waiting, x)
    /\ UNCHANGED <<delivered, refused, alive>>

Refuse ==
    /\ Len(waiting) >= Room
    /\ refused' = refused + 1
    /\ UNCHANGED <<waiting, delivered, alive>>

Deliver ==
    /\ waiting # <<>>
    /\ waiting' = Tail(waiting)
    /\ delivered' = Append(delivered, Head(waiting))
    /\ UNCHANGED <<refused, alive>>

Die ==
    /\ alive' = FALSE /\ waiting' = <<>>
    /\ UNCHANGED <<delivered, refused>>

Next == alive /\ (Accept \/ Refuse \/ Deliver \/ Die)

Spec == Init /\ [][Next]_<<waiting, delivered, refused, alive>>

=============================================================================
