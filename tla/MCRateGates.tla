----------------------------- MODULE MCRateGates -----------------------------
(***************************************************************************)
(* The statements TLC looks at: divisors and others of the counter's       *)
(* range, zero and one as arguments, buckets of one and two tokens that    *)
(* regain two thirds of a token per tick of the clock, or nothing.         *)
(***************************************************************************)
EXTENDS RateGates

MCGates ==
    [kind : {"every_n"}, n : {0, 2, 3}]
      \cup [kind : {"first_n"}, n : {0, 1, 3}]
      \cup [kind : {"every_time"}, period : {0, 2}]
      \cup [kind : {"sampled"}, percent : {0, 50, 100}]
      \cup [kind : {"burst"}, burst : {0, 1, 2}, refill : {0, 2}]

=============================================================================
