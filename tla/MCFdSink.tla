------------------------------ MODULE MCFdSink ------------------------------
(***************************************************************************)
(* Instance of FdSink for TLC: an empty piece and one of                   *)
(* two bytes, and a prologue alone; coloured, the first exceeds both       *)
(* arrays on the stack.                                                    *)
(***************************************************************************)
EXTENDS FdSink

MCShapes == {<<0, 2>>, <<1>>}

CONSTANTS w1, w2

\* One thread writes two lines, the other one between them.
MCMaxLines == (w1 :> 2) @@ (w2 :> 1)

=============================================================================
