--------------------------- MODULE WriteBehindLog ---------------------------
(***************************************************************************)
(* What a buffering log promises: lines wait in the order they were        *)
(* accepted and become durable in that order.  Nothing that waits is given *)
(* up while the process lives, except that one failing write may cost what *)
(* was handed to it, the oldest of what waits; what waits at the process's *)
(* end is gone.  What is durable stays.                                    *)
(***************************************************************************)
EXTENDS Naturals, Sequences, SequencesExt

VARIABLES
    waiting,   \* accepted, neither durable nor given up, oldest first
    durable,   \* what a reader of the file finds
    failures,  \* failing writes so far
    alive      \* is the process running?

vars == <<waiting, durable, failures, alive>>

Init == waiting = <<>> /\ durable = <<>> /\ failures = 0 /\ alive = TRUE

Accept ==
    /\ alive /\ IsStrictPrefix(waiting, waiting')
    /\ UNCHANGED <<durable, failures, alive>>

Persist ==
    /\ alive /\ IsStrictPrefix(durable, durable')
    /\ durable' \o waiting' = durable \o waiting
    /\ UNCHANGED <<failures, alive>>

GiveUp ==
    /\ alive /\ IsStrictSuffix(waiting', waiting)
    /\ failures' = failures + 1
    /\ UNCHANGED <<durable, alive>>

\* The end of the process, by a crash or by exit.
End ==
    /\ alive /\ alive' = FALSE
    /\ waiting' = <<>>
    /\ UNCHANGED <<durable, failures>>

Next == Accept \/ Persist \/ GiveUp \/ End

Spec == Init /\ [][Next]_vars

=============================================================================
