------------------------------ MODULE RateGates ------------------------------
(***************************************************************************)
(* The rate-limiting statements LOG_*_EVERY_N, _FIRST_N, _EVERY_N_SEC/_MS, *)
(* _SAMPLED and _BURST (include/elog/macros.hpp, include/elog/             *)
(* aggregate.hpp, src/aggregate.cpp): one statement with its static state, *)
(* executed by several threads.                                            *)
(*                                                                         *)
(* The clock is read before the state of the gate is touched, so a thread  *)
(* may decide with a reading older than the ones others have used.  One    *)
(* action is one atomic access, or the critical section of the bucket.     *)
(* Counters have Width bits.  Amounts of tokens are integers: a token is   *)
(* Token units, and the gate's refill is in units per tick of the clock.   *)
(***************************************************************************)
EXTENDS Integers, Sequences, FiniteSets

CONSTANTS
    Threads,    \* threads that execute the statement
    Gates,      \* the statements: kind and arguments, see Gate
    Width,      \* bits of the counters (64 in the code)
    Token,      \* units of one token
    MaxCalls,   \* bound: executions of the statement
    MaxClock    \* bound: readings of the steady clock

Gate == [kind : {"every_n", "first_n"}, n : Nat]
          \cup [kind : {"every_time"}, period : Nat]
          \cup [kind : {"sampled"}, percent : Nat]
          \cup [kind : {"burst"}, burst : Nat, refill : Nat]

ASSUME ConstantsAssumption ==
    /\ Gates \subseteq Gate
    /\ IsFiniteSet(Threads)
    /\ Width \in Nat /\ 2^Width \in Nat \ {0} /\ Token \in Nat \ {0}
    /\ MaxCalls \in Nat /\ MaxClock \in Nat \ {0}

VARIABLES
    gate,       \* which statement this is
    clock,      \* steady_clock
    enabled,    \* does the logger let the statement's level pass?
    count,      \* EveryNState::count, FirstNState::count
    next_ns,    \* EveryTimeState::next_ns
    bucket,     \* BurstState: tokens, last_ns, initialized
    pc,         \* pc[t]: where thread t stands in the statement
    now,        \* now[t]: the clock as t has read it
    expected,   \* expected[t]: next_ns as t has read it
    decided     \* history: the decisions of tick() in order, with the time they rest on

vars == <<gate, clock, enabled, count, next_ns, bucket, pc, now, expected, decided>>

Init ==
    /\ gate \in Gates
    /\ clock = 1
    /\ enabled = TRUE
    /\ count = 0 /\ next_ns = 0
    /\ bucket = [tokens |-> 0, last_ns |-> 0, initialized |-> FALSE]
    /\ pc = [t \in Threads |-> "idle"]
    /\ now = [t \in Threads |-> 0]
    /\ expected = [t \in Threads |-> 0]
    /\ decided = <<>>

Busy == {t \in Threads : pc[t] # "idle"}

-----------------------------------------------------------------------------
(* A definition named after a fault, placed before the one it deviates     *)
(* from, is that definition with a plausible bug; nothing here uses it.    *)

\* The level check comes first: a disabled statement does not tick.
Begin(t) ==
    /\ pc[t] = "idle" /\ enabled
    /\ Len(decided) + Cardinality({u \in Busy : pc[u] # "emit"}) < MaxCalls
    /\ now' = [now EXCEPT ![t] = clock]
    /\ pc' = [pc EXCEPT ![t] = "tick"]
    /\ UNCHANGED <<gate, clock, enabled, count, next_ns, bucket, expected, decided>>

\* tick() returns: the statement is emitted, or it is over.
Decide(t, pass, at) ==
    /\ decided' = Append(decided, [pass |-> pass, at |-> at])
    /\ pc' = [pc EXCEPT ![t] = IF pass THEN "emit" ELSE "idle"]

\* emit_f(): rendering and the sinks know nothing of the gate.
Emit(t) ==
    /\ pc[t] = "emit"
    /\ pc' = [pc EXCEPT ![t] = "idle"]
    /\ UNCHANGED <<gate, clock, enabled, count, next_ns, bucket, now, expected, decided>>

\* fetch_add(1); EVERY_N with n = 0 passes without counting.
EveryN(t) ==
    /\ pc[t] = "tick" /\ gate.kind = "every_n"
    /\ count' = IF gate.n = 0 THEN count ELSE (count + 1) % 2^Width
    /\ Decide(t, IF gate.n = 0 THEN TRUE ELSE count % gate.n = 0, now[t])
    /\ UNCHANGED <<gate, clock, enabled, next_ns, bucket, now, expected>>

FirstN(t) ==
    /\ pc[t] = "tick" /\ gate.kind = "first_n"
    /\ count' = (count + 1) % 2^Width
    /\ Decide(t, count < gate.n, now[t])
    /\ UNCHANGED <<gate, clock, enabled, next_ns, bucket, now, expected>>

\* SAMPLED draws from a generator that belongs to the thread.
Sampled(t) ==
    /\ pc[t] = "tick" /\ gate.kind = "sampled"
    /\ \E pass \in (IF gate.percent = 0 THEN {FALSE}
                    ELSE IF gate.percent >= 100 THEN {TRUE} ELSE BOOLEAN) :
         Decide(t, pass, now[t])
    /\ UNCHANGED <<gate, clock, enabled, count, next_ns, bucket, now, expected>>

\* The first load of next_ns.
Load(t) ==
    /\ pc[t] = "tick" /\ gate.kind = "every_time"
    /\ expected' = [expected EXCEPT ![t] = next_ns]
    /\ pc' = [pc EXCEPT ![t] = "cas"]
    /\ UNCHANGED <<gate, clock, enabled, count, next_ns, bucket, now, decided>>

\* The loop: too early, or the period starts again at the thread's own
\* reading.  compare_exchange_weak() may fail without a reason; a failure
\* brings the current value.
ExchangesBlindly(t) == now[t] >= expected[t]
Exchanges(t) == now[t] >= expected[t] /\ next_ns = expected[t]

TooEarly(t) ==
    /\ pc[t] = "cas" /\ now[t] < expected[t]
    /\ Decide(t, FALSE, now[t])
    /\ UNCHANGED <<gate, clock, enabled, count, next_ns, bucket, now, expected>>

Exchange(t) ==
    /\ pc[t] = "cas" /\ Exchanges(t)
    /\ next_ns' = now[t] + gate.period
    /\ Decide(t, TRUE, now[t])
    /\ UNCHANGED <<gate, clock, enabled, count, bucket, now, expected>>

Retry(t) ==
    /\ pc[t] = "cas" /\ now[t] >= expected[t]
    /\ expected' = [expected EXCEPT ![t] = next_ns]
    /\ UNCHANGED <<gate, clock, enabled, count, next_ns, bucket, pc, now, decided>>

\* The bucket after the refill at time at: a reading that is not newer than the
\* last one leaves it alone.
RefilledUncapped(at) ==
    IF ~bucket.initialized
    THEN [tokens |-> gate.burst * Token, last_ns |-> at, initialized |-> TRUE]
    ELSE [bucket EXCEPT !.tokens = @ + (at - bucket.last_ns) * gate.refill, !.last_ns = at]
Refilled(at) ==
    IF ~bucket.initialized
    THEN [tokens |-> gate.burst * Token, last_ns |-> at, initialized |-> TRUE]
    ELSE IF at <= bucket.last_ns THEN bucket
    ELSE LET more == bucket.tokens + (at - bucket.last_ns) * gate.refill
             full == gate.burst * Token
         IN  [bucket EXCEPT !.tokens = IF more > full THEN full ELSE more,
                            !.last_ns = at]

Burst(t) ==
    /\ pc[t] = "tick" /\ gate.kind = "burst"
    /\ LET b == Refilled(now[t])
           pass == b.tokens >= Token
       IN  /\ bucket' = IF pass THEN [b EXCEPT !.tokens = @ - Token] ELSE b
           /\ Decide(t, pass, b.last_ns)
    /\ UNCHANGED <<gate, clock, enabled, count, next_ns, now, expected>>

\* Time passes; the level of the logger changes.
Advance ==
    /\ \E c \in clock + 1 .. MaxClock : clock' = c
    /\ UNCHANGED <<gate, enabled, count, next_ns, bucket, pc, now, expected, decided>>

SetLevel ==
    /\ Len(decided) < MaxCalls
    /\ enabled' = ~enabled
    /\ UNCHANGED <<gate, clock, count, next_ns, bucket, pc, now, expected, decided>>

Step(t) ==
    \/ Emit(t) \/ EveryN(t) \/ FirstN(t) \/ Sampled(t)
    \/ Load(t) \/ TooEarly(t) \/ Exchange(t) \/ Burst(t)

Quiet == Busy = {} /\ UNCHANGED vars

Next ==
    \/ \E t \in Threads : Begin(t) \/ Step(t) \/ Retry(t)
    \/ Advance \/ SetLevel \/ Quiet

Spec == Init /\ [][Next]_vars

-----------------------------------------------------------------------------
(* Properties                                                              *)

\* Type invariant; a bucket never holds more than it was made for, nor less
\* than nothing.
TypeOK ==
    /\ gate \in Gates
    /\ clock \in 1 .. MaxClock /\ enabled \in BOOLEAN
    /\ count \in 0 .. 2^Width - 1
    /\ next_ns \in Nat
    /\ bucket.last_ns <= clock
    /\ bucket.tokens \in 0 .. (IF gate.kind = "burst" THEN gate.burst * Token ELSE 0)
    /\ \A t \in Threads : /\ pc[t] \in {"idle", "tick", "cas", "emit"}
                          /\ now[t] <= clock
                          /\ expected[t] <= next_ns
    /\ Len(decided) <= MaxCalls

\* The decisions before the i-th that let a call pass, all of them or those made
\* since the counter last started at zero.
Passed(i) == {j \in 1 .. i - 1 : decided[j].pass}
PassedInRound(i) == {j \in Passed(i) : (j - 1) \div 2^Width = (i - 1) \div 2^Width}
Refill(j, i) == (decided[i].at - decided[j].at) * gate.refill

\* What each gate promises of its i-th decision, said of the ones before it.
PromisedEveryN(i) == \A j \in PassedInRound(i) : i - j >= gate.n
PromisedFirstN(i) == Cardinality(PassedInRound(i)) < gate.n
PromisedEveryTime(i) == \A j \in Passed(i) : decided[i].at - decided[j].at >= gate.period
PromisedBurst(i) ==
    /\ gate.burst > 0
    /\ \A j \in Passed(i) :
         (Cardinality({k \in Passed(i) : k >= j}) + 1) * Token
             <= gate.burst * Token + Refill(j, i)

\* Whatever the threads' interleaving and however old their readings, a gate
\* lets a call pass exactly when its promise allows: EVERY_N when the n - 1 calls
\* before were held back, FIRST_N when fewer than n have passed (both until the
\* counter wraps), EVERY_N_SEC and _MS when every passed call rests on a reading
\* a period older, BURST when no stretch of passed calls exceeds the burst and
\* what is refilled during it.  So none lets too many pass, and none loses a
\* call it owes.  The promise of EVERY_N_SEC is one about the clock readings the
\* decisions rest on, not about the moments the lines come out; of SAMPLED,
\* whose decisions are random, nothing is said.
DecisionsAsPromised ==
    \A i \in DOMAIN decided :
        decided[i].pass <=>
            CASE gate.kind = "every_n"    -> PromisedEveryN(i)
              [] gate.kind = "first_n"    -> PromisedFirstN(i)
              [] gate.kind = "every_time" -> PromisedEveryTime(i)
              [] gate.kind = "burst"      -> PromisedBurst(i)
              [] OTHER -> decided[i].pass

=============================================================================
