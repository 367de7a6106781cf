----------------------------- MODULE MCLoggerTie -----------------------------
(***************************************************************************)
(* Instances of LoggerTie for TLC.  Threads and loggers are                *)
(* interchangeable: symmetry is used by the safety runs.                   *)
(***************************************************************************)
EXTENDS LoggerTie, TLC

MCSymmetry == Permutations(Threads) \cup Permutations(Loggers)

=============================================================================
