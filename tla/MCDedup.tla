------------------------------- MODULE MCDedup -------------------------------
(***************************************************************************)
(* Instances of Dedup for TLC: values of the constant functions.           *)
(***************************************************************************)
EXTENDS Dedup

CONSTANTS A, B

\* Two statements: one at the level that set_level() may disable, one above.
MCSeverity == [s \in Sites |-> IF s = A THEN 1 ELSE 2]

\* Both statements always enabled.
MCSeverityHigh == [s \in Sites |-> 2]

=============================================================================
