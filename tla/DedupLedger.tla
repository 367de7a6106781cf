----------------------------- MODULE DedupLedger -----------------------------
(***************************************************************************)
(* What consecutive-call-site deduplication promises, without its atomics: *)
(* a statement that passes the level check ends in exactly one of two ways *)
(* -- its own line is emitted, or it is hidden -- and hidden calls of one  *)
(* site are later settled together, once: by a summary line that counts    *)
(* them, or by giving the count up.  Dedup.tla implements this.            *)
(***************************************************************************)
CONSTANTS Call, NULL

VARIABLES
    open,       \* calls in progress
    hidden,     \* suppressed calls no summary has been attempted for
    emitted,    \* calls whose own line was emitted
    reported,   \* calls counted by a summary line
    dropped     \* calls whose count was given up

vars == <<open, hidden, emitted, reported, dropped>>

Init == open = {} /\ hidden = {} /\ emitted = {} /\ reported = {} /\ dropped = {}

\* Every call is made once.
Start(c) ==
    /\ c \notin open \cup hidden \cup emitted \cup reported \cup dropped
    /\ open' = open \cup {c}
    /\ UNCHANGED <<hidden, emitted, reported, dropped>>

EmitLine(c) ==
    /\ c \in open
    /\ open' = open \ {c}
    /\ emitted' = emitted \cup {c}
    /\ UNCHANGED <<hidden, reported, dropped>>

\* A call is hidden only behind a line of the same site: one that was
\* emitted, or one whose emission is under way.
Hide(c) ==
    /\ c \in open
    /\ \E d \in emitted \cup (open \ {c}) : d.site = c.site
    /\ open' = open \ {c}
    /\ hidden' = hidden \cup {c}
    /\ UNCHANGED <<emitted, reported, dropped>>

\* One summary line, or one lost count, settles calls of one site.
Settle(S) ==
    /\ S # {} /\ S \subseteq hidden
    /\ \A c, d \in S : c.site = d.site
    /\ hidden' = hidden \ S
    /\ \/ reported' = reported \cup S /\ UNCHANGED dropped
       \/ dropped' = dropped \cup S /\ UNCHANGED reported
    /\ UNCHANGED <<open, emitted>>

Next ==
    \/ \E c \in Call : Start(c) \/ EmitLine(c) \/ Hide(c)
    \/ \E S \in SUBSET hidden : Settle(S)

Spec == Init /\ [][Next]_vars

=============================================================================
