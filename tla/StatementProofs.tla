--------------------------- MODULE StatementProofs ---------------------------
(***************************************************************************)
(* Theorems about a log statement: about its rate gate (RateGates) for any *)
(* statement, number of threads and executions, width of the counters and  *)
(* course of the clock, and about its way to the sinks (Statement) for any *)
(* arguments, renderers and sinks, nested to any depth.                    *)
(***************************************************************************)
EXTENDS RateGates, Statement, FiniteSetTheorems, SequenceLemmas

Wrap == 2^Width
Decision == [pass : BOOLEAN, at : Nat]

\* The threads inside tick().
Ticking == {t \in Threads : pc[t] \in {"tick", "cas"}}

\* The most a bucket holds.
Capacity == IF gate.kind = "burst" THEN gate.burst * Token ELSE 0

Types ==
    /\ gate \in Gates /\ clock \in 1 .. MaxClock /\ enabled \in BOOLEAN
    /\ count \in 0 .. Wrap - 1 /\ next_ns \in Nat
    /\ bucket \in [tokens : Nat, last_ns : Nat, initialized : BOOLEAN]
    /\ pc \in [Threads -> {"idle", "tick", "cas", "emit"}]
    /\ now \in [Threads -> Nat] /\ expected \in [Threads -> Nat]
    /\ decided \in Seq(Decision)

\* A reading is never newer than the clock, a thread's idea of next_ns never
\* ahead of it, and every execution inside tick() has its decision reserved.
Bounds ==
    /\ bucket.last_ns <= clock /\ bucket.tokens <= Capacity
    /\ \A t \in Threads : now[t] <= clock /\ expected[t] <= next_ns
    /\ \A t \in Threads : pc[t] = "cas" => gate.kind = "every_time"
    /\ Len(decided) + Cardinality(Ticking) <= MaxCalls

\* All decisions that let a call pass, and those from the j-th on.
All == {j \in 1 .. Len(decided) : decided[j].pass}
PassedSince(j) == {k \in All : k >= j}

\* EVERY_N and FIRST_N: the counter is the number of decisions, wrapped, and the
\* decisions are the ones its values called for.
Counting == gate.kind = "first_n" \/ (gate.kind = "every_n" /\ gate.n # 0)
Passes(c) == IF gate.kind = "first_n" THEN c < gate.n ELSE c % gate.n = 0
CountInv ==
    Counting =>
      /\ count = Len(decided) % Wrap
      /\ \A j \in 1 .. Len(decided) : decided[j].pass <=> Passes((j - 1) % Wrap)

\* EVERY_N_SEC and EVERY_N_MS: next_ns is a period after the newest reading that
\* let a call pass.
TimeInv ==
    gate.kind = "every_time" =>
      /\ \A j \in All : decided[j].at + gate.period <= next_ns
      /\ next_ns = 0 \/ \E j \in All : decided[j].at + gate.period = next_ns

\* BURST: the bucket holds what is left of a full one, or, when that is less, what
\* is left of a full one before some call that passed, after all that passed from
\* there on and all that was refilled since.
Left(j, at) ==
    Capacity + (at - decided[j].at) * gate.refill - Cardinality(PassedSince(j)) * Token
BurstInv ==
    gate.kind = "burst" =>
      /\ \A j \in 1 .. Len(decided) : bucket.initialized /\ decided[j].at <= bucket.last_ns
      /\ bucket.initialized =>
            /\ \A j \in All : bucket.tokens <= Left(j, bucket.last_ns)
            /\ bucket.tokens = Capacity \/ \E j \in All : bucket.tokens = Left(j, bucket.last_ns)

\* The promise kept by the i-th decision.
Right(i) ==
    decided[i].pass <=>
        CASE gate.kind = "every_n"    -> PromisedEveryN(i)
          [] gate.kind = "first_n"    -> PromisedFirstN(i)
          [] gate.kind = "every_time" -> PromisedEveryTime(i)
          [] gate.kind = "burst"      -> PromisedBurst(i)
          [] OTHER -> decided[i].pass

IInv ==
    /\ Types /\ Bounds /\ CountInv /\ TimeInv /\ BurstInv
    /\ \A i \in 1 .. Len(decided) : Right(i)

-----------------------------------------------------------------------------
(* Numbers                                                                 *)

\* Division with remainder, from both sides.
LEMMA Division ==
  ASSUME NEW r \in Nat \ {0}
  PROVE  /\ \A a \in Nat : /\ a \div r \in Nat /\ a % r \in 0 .. r - 1
                           /\ a = (a \div r) * r + (a % r)
         /\ \A q \in Nat, c \in 0 .. r - 1 : /\ (q * r + c) \div r = q
                                             /\ (q * r + c) % r = c
<1>1. ASSUME NEW a \in Nat
      PROVE  a \div r \in Nat /\ a % r \in 0 .. r - 1 /\ a = (a \div r) * r + (a % r)
  OBVIOUS
<1>2. ASSUME NEW q \in Nat, NEW c \in 0 .. r - 1
      PROVE  (q * r + c) \div r = q /\ (q * r + c) % r = c
  OBVIOUS
<1> QED BY <1>1, <1>2

\* A wrapping counter counts modulo its width.
LEMMA NextCount ==
  ASSUME NEW r \in Nat \ {0}, NEW a \in Nat
  PROVE  ((a % r) + 1) % r = (a + 1) % r
<1>1. PICK q \in Nat, c \in 0 .. r - 1 : a = q * r + c /\ c = a % r
  BY Division
<1>2. CASE c + 1 < r
  <2>1. c + 1 \in 0 .. r - 1 /\ a + 1 = q * r + (c + 1) /\ c + 1 = 0 * r + (c + 1)
    BY <1>1, <1>2
  <2>2. (q * r + (c + 1)) % r = c + 1 /\ (0 * r + (c + 1)) % r = c + 1
    BY <2>1, Division
  <2> QED BY <1>1, <2>1, <2>2
<1>3. CASE ~(c + 1 < r)
  <2>1. c + 1 = r /\ q + 1 \in Nat /\ 0 \in 0 .. r - 1 /\ 1 \in Nat
    BY <1>3
  <2>2. (q + 1) * r = q * r + r
    OBVIOUS
  <2>3. a + 1 = (q + 1) * r + 0 /\ c + 1 = 1 * r + 0
    BY <1>1, <2>1, <2>2
  <2>4. ((q + 1) * r + 0) % r = 0 /\ (1 * r + 0) % r = 0
    BY <2>1, Division
  <2> QED BY <1>1, <2>3, <2>4
<1> QED BY <1>2, <1>3

\* A number is a multiple of n when no multiple is nearer below it than n.
LEMMA Multiples ==
  ASSUME NEW n \in Nat \ {0}, NEW a \in Nat
  PROVE  a % n = 0 <=> \A b \in 0 .. a - 1 : b % n = 0 => a - b >= n
<1>1. PICK u \in Nat, v \in 0 .. n - 1 : a = u * n + v /\ v = a % n
  BY Division
<1>2. ASSUME a % n = 0, NEW b \in 0 .. a - 1, b % n = 0
      PROVE  a - b >= n
  <2>1. PICK w \in Nat : b = w * n + (b % n)
    <3>1. b \in Nat
      OBVIOUS
    <3> QED BY <3>1, Division
  <2>2. a = u * n /\ b = w * n
    BY <1>1, <1>2, <2>1
  <2>3. CASE w < u
    <3>1. w * n + n <= u * n
      BY <2>3
    <3> QED BY <2>2, <3>1
  <2>4. CASE ~(w < u)
    <3>1. u * n <= w * n
      BY <2>4
    <3> QED BY <2>2, <3>1
  <2> QED BY <2>3, <2>4
<1>3. ASSUME a % n # 0
      PROVE  ~ \A b \in 0 .. a - 1 : b % n = 0 => a - b >= n
  <2>1. u * n \in Nat /\ 0 \in 0 .. n - 1
    OBVIOUS
  <2>2. (u * n + 0) % n = 0
    BY <2>1, Division
  <2>3. u * n \in 0 .. a - 1 /\ ~(a - u * n >= n) /\ u * n + 0 = u * n
    BY <1>1, <1>3, <2>1
  <2> QED BY <2>2, <2>3
<1> QED BY <1>2, <1>3

\* The numbers before a with a's quotient are those from a - (a % r) on, and they
\* count from there.
LEMMA SameRound ==
  ASSUME NEW r \in Nat \ {0}, NEW a \in Nat, NEW b \in Nat, b < a
  PROVE  /\ b \div r = a \div r <=> b >= a - (a % r)
         /\ b >= a - (a % r) => b % r = b - (a - (a % r))
<1>1. PICK q \in Nat, c \in 0 .. r - 1 : a = q * r + c /\ c = a % r /\ q = a \div r
  BY Division
<1>2. q * r \in Nat /\ q * r = a - (a % r)
  BY <1>1
<1>3. ASSUME b >= q * r PROVE b \div r = q /\ b % r = b - q * r
  <2>1. b - q * r \in 0 .. r - 1 /\ q * r + (b - q * r) = b
    BY <1>1, <1>2, <1>3
  <2>2. (q * r + (b - q * r)) \div r = q /\ (q * r + (b - q * r)) % r = b - q * r
    BY <2>1, Division
  <2> QED BY <2>1, <2>2
<1>4. ASSUME b \div r = q PROVE b >= q * r
  <2>1. b = (b \div r) * r + (b % r) /\ b % r \in Nat
    BY Division
  <2> QED BY <1>2, <1>4, <2>1
<1> QED BY <1>1, <1>2, <1>3, <1>4

-----------------------------------------------------------------------------
(* Statements and decisions                                                *)

\* What the assumptions say of the counters.
LEMMA Constants == Wrap \in Nat \ {0} /\ Token \in Nat \ {0}
BY ConstantsAssumption DEF Wrap

\* The arguments of a statement.
LEMMA GateFields ==
  ASSUME gate \in Gates
  PROVE  /\ gate.kind \in {"every_n", "first_n", "every_time", "sampled", "burst"}
         /\ gate.kind \in {"every_n", "first_n"} => gate.n \in Nat
         /\ gate.kind = "every_time" => gate.period \in Nat
         /\ gate.kind = "burst" => gate.burst \in Nat /\ gate.refill \in Nat
         /\ Capacity \in Nat
<1>1. gate \in Gate
  BY ConstantsAssumption
<1>2. CASE gate \in [kind : {"every_n", "first_n"}, n : Nat]
  BY <1>2 DEF Capacity
<1>3. CASE gate \in [kind : {"every_time"}, period : Nat]
  BY <1>3 DEF Capacity
<1>4. CASE gate \in [kind : {"sampled"}, percent : Nat]
  BY <1>4 DEF Capacity
<1>5. CASE gate \in [kind : {"burst"}, burst : Nat, refill : Nat]
  <2>1. gate.kind = "burst" /\ gate.burst \in Nat /\ gate.refill \in Nat
    BY <1>5
  <2>2. gate.burst * Token \in Nat
    BY <2>1, Constants
  <2> QED BY <2>1, <2>2 DEF Capacity
<1> QED BY <1>1, <1>2, <1>3, <1>4, <1>5 DEF Gate

\* The decisions are finitely many.
LEMMA Decisions ==
  ASSUME decided \in Seq(Decision)
  PROVE  /\ Len(decided) \in Nat
         /\ \A j \in 1 .. Len(decided) : decided[j].pass \in BOOLEAN /\ decided[j].at \in Nat
         /\ All \subseteq 1 .. Len(decided)
         /\ \A j : IsFiniteSet(PassedSince(j)) /\ Cardinality(PassedSince(j)) \in Nat
<1>1. Len(decided) \in Nat /\ \A j \in 1 .. Len(decided) : decided[j] \in Decision
  BY LenProperties, ElementOfSeq
<1>2. All \subseteq 1 .. Len(decided) /\ \A j : PassedSince(j) \subseteq 1 .. Len(decided)
  BY DEF All, PassedSince
<1>3. IsFiniteSet(1 .. Len(decided))
  BY <1>1, FS_Interval
<1>4. \A j : IsFiniteSet(PassedSince(j)) /\ Cardinality(PassedSince(j)) \in Nat
  BY <1>2, <1>3, FS_Subset, FS_CardinalityType
<1> QED BY <1>1, <1>2, <1>4 DEF Decision

\* A decision is appended, its execution leaves tick(), and what the earlier ones
\* promised stays as it was.
LEMMA Decided ==
  ASSUME Types, Bounds, UNCHANGED gate, NEW t \in Threads, pc[t] \in {"tick", "cas"},
         NEW pass \in BOOLEAN, NEW at \in Nat, Decide(t, pass, at),
         NEW n \in Nat, n = Len(decided) + 1
  PROVE  /\ decided' \in Seq(Decision) /\ Len(decided') = n
         /\ decided'[n].pass = pass /\ decided'[n].at = at
         /\ \A j \in 1 .. Len(decided) : decided'[j] = decided[j]
         /\ pc' \in [Threads -> {"idle", "tick", "cas", "emit"}]
         /\ \A u \in Threads : pc'[u] = "cas" => pc[u] = "cas"
         /\ Len(decided') + Cardinality(Ticking') <= MaxCalls
         /\ All' = IF pass THEN All \cup {n} ELSE All
         /\ Passed(n)' = All
         /\ PassedInRound(n)' = {j \in All : (j - 1) \div Wrap = Len(decided) \div Wrap}
         /\ \A i \in 1 .. Len(decided) : Right(i)' <=> Right(i)
<1> DEFINE L == Len(decided)
           d == [pass |-> pass, at |-> at]
<1>1. /\ decided' = Append(decided, d) /\ d \in Decision /\ decided \in Seq(Decision)
      /\ pc' = [pc EXCEPT ![t] = IF pass THEN "emit" ELSE "idle"]
  BY DEF Decide, Decision, Types
<1>2. /\ decided' \in Seq(Decision) /\ Len(decided') = L + 1 /\ decided'[L + 1] = d
      /\ \A j \in 1 .. L : decided'[j] = decided[j]
      /\ L \in Nat
  BY <1>1, AppendProperties, LenProperties
<1>3. /\ pc' \in [Threads -> {"idle", "tick", "cas", "emit"}]
      /\ \A u \in Threads : pc'[u] = "cas" => pc[u] = "cas"
      /\ Ticking' = Ticking \ {t} /\ t \in Ticking
  BY <1>1 DEF Types, Ticking
<1>4. Len(decided') + Cardinality(Ticking') <= MaxCalls
  <2>1. IsFiniteSet(Ticking)
    BY ConstantsAssumption, FS_Subset DEF Ticking
  <2>2. Cardinality(Ticking) \in Nat /\ Cardinality(Ticking') = Cardinality(Ticking) - 1
    BY <1>3, <2>1, FS_CardinalityType, FS_RemoveElement
  <2>3. L + Cardinality(Ticking) <= MaxCalls /\ MaxCalls \in Nat
    BY ConstantsAssumption DEF Bounds
  <2> QED BY <1>2, <2>2, <2>3
<1> HIDE DEF L, d
<1>5. All' = IF pass THEN All \cup {L + 1} ELSE All
  <2>1. All' = {j \in 1 .. L + 1 : decided'[j].pass}
    BY <1>2 DEF All
  <2>2. \A j \in 1 .. L + 1 : j \in 1 .. L \/ j = L + 1
    BY <1>2
  <2>3. 1 .. L \subseteq 1 .. L + 1 /\ L + 1 \in 1 .. L + 1
    BY <1>2
  <2>4. All = {j \in 1 .. L : decided[j].pass} /\ decided'[L + 1].pass = pass
    BY <1>2 DEF All, L, d
  <2> QED BY <1>2, <2>1, <2>2, <2>3, <2>4
<1>6. ASSUME NEW i \in 1 .. L + 1
      PROVE  /\ Passed(i)' = {j \in 1 .. i - 1 : decided[j].pass}
             /\ PassedInRound(i)'
                  = {j \in Passed(i)' : (j - 1) \div 2^Width = (i - 1) \div 2^Width}
  <2>1. \A j \in 1 .. i - 1 : decided'[j] = decided[j]
    BY <1>2
  <2> QED BY <2>1 DEF Passed, PassedInRound
<1>7. /\ Passed(n)' = All
      /\ PassedInRound(n)' = {j \in All : (j - 1) \div Wrap = L \div Wrap}
  <2>1. n \in 1 .. L + 1 /\ n - 1 = L
    BY <1>2 DEF L
  <2>2. Passed(n)' = All
    BY <1>6, <2>1 DEF All, L
  <2> QED BY <1>6, <2>1, <2>2 DEF Wrap
<1>8. ASSUME NEW i \in 1 .. L PROVE Right(i)' <=> Right(i)
  <2>1. /\ Passed(i)' = Passed(i) /\ PassedInRound(i)' = PassedInRound(i)
        /\ \A j \in Passed(i) : Refill(j, i)' = Refill(j, i) /\ decided'[j] = decided[j]
        /\ decided'[i] = decided[i]
    <3>1. i \in 1 .. L + 1 /\ \A j \in 1 .. i - 1 : j \in 1 .. L
      BY <1>2
    <3>2. Passed(i)' = Passed(i)
      BY <1>6, <3>1 DEF Passed
    <3>3. \A j \in Passed(i) : decided'[j] = decided[j]
      BY <1>2, <3>1 DEF Passed
    <3> QED BY <1>2, <1>6, <3>1, <3>2, <3>3 DEF PassedInRound, Refill
  <2>2. PromisedEveryN(i)' <=> PromisedEveryN(i)
    BY <2>1 DEF PromisedEveryN
  <2>3. PromisedFirstN(i)' <=> PromisedFirstN(i)
    BY <2>1 DEF PromisedFirstN
  <2>4. PromisedEveryTime(i)' <=> PromisedEveryTime(i)
    BY <2>1 DEF PromisedEveryTime
  <2>5. PromisedBurst(i)' <=> PromisedBurst(i)
    BY <2>1 DEF PromisedBurst
  <2> QED BY <2>1, <2>2, <2>3, <2>4, <2>5 DEF Right
<1> QED BY <1>2, <1>3, <1>4, <1>5, <1>7, <1>8 DEF L, d

\* What decides which promise counts.
LEMMA RightByKind ==
  ASSUME NEW i
  PROVE  /\ gate.kind = "every_n" => (Right(i) <=> (decided[i].pass <=> PromisedEveryN(i)))
         /\ gate.kind = "first_n" => (Right(i) <=> (decided[i].pass <=> PromisedFirstN(i)))
         /\ gate.kind = "every_time"
              => (Right(i) <=> (decided[i].pass <=> PromisedEveryTime(i)))
         /\ gate.kind = "burst" => (Right(i) <=> (decided[i].pass <=> PromisedBurst(i)))
         /\ gate.kind = "sampled" => Right(i)
BY DEF Right

\* A step that decides nothing and leaves the state of the gate alone.
LEMMA Undecided ==
  ASSUME IInv, UNCHANGED <<gate, count, next_ns, bucket, decided>>, Types',
         clock' >= clock,
         \A t \in Threads : /\ now'[t] <= clock' /\ expected'[t] <= next_ns
                            /\ pc'[t] = "cas" => gate.kind = "every_time",
         Len(decided) + Cardinality(Ticking') <= MaxCalls
  PROVE  IInv'
<1>1. Bounds'
  <2>1. /\ bucket.last_ns \in Nat /\ clock \in Nat /\ clock' \in Nat
        /\ bucket.last_ns <= clock /\ bucket.tokens <= Capacity /\ Capacity' = Capacity
    BY DEF IInv, Types, Bounds, Capacity
  <2>2. bucket.last_ns <= clock'
    BY <2>1
  <2> QED BY <2>1, <2>2 DEF Bounds
<1>2. CountInv' /\ TimeInv'
  BY DEF IInv, CountInv, Counting, Passes, TimeInv, All
<1>3. BurstInv'
  BY DEF IInv, BurstInv, Left, Capacity, All, PassedSince
<1>4. \A i \in 1 .. Len(decided') : Right(i)'
  <2> SUFFICES ASSUME NEW i \in 1 .. Len(decided) PROVE Right(i)' <=> Right(i)
    BY DEF IInv
  <2>1. Passed(i)' = Passed(i) /\ PassedInRound(i)' = PassedInRound(i)
    BY DEF Passed, PassedInRound
  <2> QED BY <2>1 DEF Right, PromisedEveryN, PromisedFirstN, PromisedEveryTime, PromisedBurst,
                      Refill
<1> QED BY <1>1, <1>2, <1>3, <1>4 DEF IInv

-----------------------------------------------------------------------------
(* EVERY_N, FIRST_N and SAMPLED                                            *)

\* The decisions of the round the counter is in, and what they were.
LEMMA Round ==
  ASSUME Types, CountInv, Counting, NEW s, s = Len(decided) - count
  PROVE  /\ s \in Nat /\ Len(decided) \in Nat /\ count \in Nat /\ s + count = Len(decided)
         /\ \A j \in 1 .. Len(decided) :
              /\ (j - 1) \div Wrap = Len(decided) \div Wrap <=> j - 1 >= s
              /\ j - 1 >= s => (decided[j].pass <=> Passes((j - 1) - s))
<1>1. /\ Wrap \in Nat \ {0} /\ Len(decided) \in Nat /\ count = Len(decided) % Wrap
      /\ \A j \in 1 .. Len(decided) : decided[j].pass <=> Passes((j - 1) % Wrap)
  BY Constants, LenProperties DEF Types, CountInv
<1>2. Len(decided) = (Len(decided) \div Wrap) * Wrap + count
      /\ Len(decided) \div Wrap \in Nat /\ count \in Nat
  <2>1. \A a \in Nat : /\ a \div Wrap \in Nat /\ a % Wrap \in 0 .. Wrap - 1
                        /\ a = (a \div Wrap) * Wrap + (a % Wrap)
    BY <1>1, Division
  <2>2. count \in Nat
    BY <1>1, <2>1
  <2> QED BY <1>1, <2>1, <2>2
<1>3. s \in Nat /\ s + count = Len(decided)
  <2>1. (Len(decided) \div Wrap) * Wrap \in Nat
    BY <1>1, <1>2
  <2> QED BY <1>1, <1>2, <2>1
<1>4. ASSUME NEW j \in 1 .. Len(decided)
      PROVE  /\ (j - 1) \div Wrap = Len(decided) \div Wrap <=> j - 1 >= s
             /\ j - 1 >= s => (decided[j].pass <=> Passes((j - 1) - s))
  <2>1. j - 1 \in Nat /\ j - 1 < Len(decided)
    BY <1>1
  <2>2. /\ (j - 1) \div Wrap = Len(decided) \div Wrap <=> j - 1 >= s
        /\ j - 1 >= s => (j - 1) % Wrap = (j - 1) - s
    BY <1>1, <2>1, SameRound
  <2> QED BY <1>1, <2>2
<1> QED BY <1>1, <1>2, <1>3, <1>4

\* The counter goes on, and the decision is the one its value called for.
LEMMA Counted ==
  ASSUME Types, CountInv, Counting, UNCHANGED gate, count' = (count + 1) % Wrap,
         Len(decided') = Len(decided) + 1,
         \A j \in 1 .. Len(decided) : decided'[j] = decided[j],
         decided'[Len(decided) + 1].pass <=> Passes(count)
  PROVE  CountInv' /\ count' \in 0 .. Wrap - 1
<1>1. /\ Wrap \in Nat \ {0} /\ Len(decided) \in Nat /\ count = Len(decided) % Wrap
      /\ Wrap' = Wrap
  BY Constants, LenProperties DEF Types, CountInv, Wrap
<1>2. count' = Len(decided') % Wrap /\ count' \in 0 .. Wrap - 1
  <2>1. count' = (Len(decided) + 1) % Wrap
    BY <1>1, NextCount
  <2>2. Len(decided) + 1 \in Nat
    BY <1>1
  <2> QED BY <1>1, <2>1, <2>2, Division
<1>3. ASSUME NEW j \in 1 .. Len(decided')
      PROVE  decided'[j].pass <=> Passes((j - 1) % Wrap)
  <2>1. CASE j \in 1 .. Len(decided)
    BY <2>1 DEF CountInv
  <2>2. CASE j \notin 1 .. Len(decided)
    <3>1. Len(decided) \in Nat
      BY <1>1
    <3>2. j = Len(decided) + 1 /\ j - 1 = Len(decided)
      BY <2>2, <3>1
    <3> QED BY <1>1, <3>2
  <2> QED BY <2>1, <2>2
<1>4. \A c : Passes(c)' <=> Passes(c)
  BY DEF Passes
<1> QED BY <1>1, <1>2, <1>3, <1>4 DEF CountInv

\* EVERY_N passes the multiples of n, and those only.
LEMMA EveryNStep ==
  ASSUME IInv, NEW t \in Threads, EveryN(t)
  PROVE  IInv'
<1> DEFINE pass == IF gate.n = 0 THEN TRUE ELSE count % gate.n = 0
<1>1. /\ Types /\ Bounds /\ CountInv /\ \A i \in 1 .. Len(decided) : Right(i)
      /\ pc[t] = "tick" /\ gate.kind = "every_n"
      /\ count' = (IF gate.n = 0 THEN count ELSE (count + 1) % Wrap)
      /\ Decide(t, pass, now[t])
      /\ UNCHANGED <<gate, clock, enabled, next_ns, bucket, now, expected>>
  BY DEF IInv, EveryN, Wrap
<1>2. gate.n \in Nat /\ now[t] \in Nat /\ pass \in BOOLEAN /\ Len(decided) \in Nat
  BY <1>1, GateFields, LenProperties DEF Types
<1>3. PICK n \in Nat : n = Len(decided) + 1
  BY <1>2
<1> HIDE DEF pass
<1>4. /\ decided' \in Seq(Decision) /\ Len(decided') = n /\ decided'[n].pass = pass
      /\ \A j \in 1 .. Len(decided) : decided'[j] = decided[j]
      /\ pc' \in [Threads -> {"idle", "tick", "cas", "emit"}]
      /\ \A u \in Threads : pc'[u] = "cas" => pc[u] = "cas"
      /\ Len(decided') + Cardinality(Ticking') <= MaxCalls
      /\ PassedInRound(n)' = {j \in All : (j - 1) \div Wrap = Len(decided) \div Wrap}
      /\ \A i \in 1 .. Len(decided) : Right(i)' <=> Right(i)
  BY <1>1, <1>2, <1>3, Decided
<1>5. CountInv' /\ count' \in 0 .. Wrap - 1
  <2>1. CASE gate.n = 0
    BY <1>1, <2>1 DEF CountInv, Counting, Types
  <2>2. CASE gate.n # 0
    <3>1. decided'[Len(decided) + 1].pass <=> Passes(count)
      BY <1>1, <1>3, <1>4, <2>2 DEF Passes, pass
    <3> QED BY <1>1, <1>3, <1>4, <2>2, <3>1, Counted DEF Counting
  <2> QED BY <2>1, <2>2
<1>6. Types'
  BY <1>1, <1>4, <1>5 DEF Types, Wrap
<1>7. Bounds' /\ TimeInv' /\ BurstInv'
  BY <1>1, <1>4 DEF Bounds, Capacity, TimeInv, BurstInv
<1>8. Right(n)'
  <2>1. \A j \in All : j \in 1 .. Len(decided) /\ (decided[j].pass)
    BY DEF All
  <2>2. CASE gate.n = 0
    <3>1. PromisedEveryN(n)'
      BY <1>1, <1>2, <1>3, <1>4, <2>1, <2>2 DEF PromisedEveryN
    <3> QED BY <1>1, <1>4, <2>2, <3>1, RightByKind DEF pass, Right
  <2>3. CASE gate.n # 0
    <3>1. PICK s : s = Len(decided) - count
      OBVIOUS
    <3>2. /\ s \in Nat /\ count \in Nat /\ s + count = Len(decided)
          /\ \A j \in 1 .. Len(decided) :
               /\ (j - 1) \div Wrap = Len(decided) \div Wrap <=> j - 1 >= s
               /\ j - 1 >= s => (decided[j].pass <=> Passes((j - 1) - s))
      BY <1>1, <2>3, <3>1, Round DEF Counting
    <3>3. pass <=> \A b \in 0 .. count - 1 : b % gate.n = 0 => count - b >= gate.n
      BY <1>2, <2>3, <3>2, Multiples DEF pass
    <3>4. PromisedEveryN(n)' <=> \A j \in PassedInRound(n)' : n - j >= gate.n
      BY <1>1 DEF PromisedEveryN
    <3>5. ASSUME \A b \in 0 .. count - 1 : b % gate.n = 0 => count - b >= gate.n,
                 NEW j \in PassedInRound(n)'
          PROVE  n - j >= gate.n
      <4>1. /\ j \in 1 .. Len(decided) /\ decided[j].pass
            /\ (j - 1) \div Wrap = Len(decided) \div Wrap
        BY <1>4, <2>1
      <4>2. j - 1 >= s /\ Passes((j - 1) - s)
        BY <3>2, <4>1
      <4>3. (j - 1) - s \in 0 .. count - 1 /\ ((j - 1) - s) % gate.n = 0
        BY <1>1, <1>2, <3>2, <4>1, <4>2 DEF Passes
      <4>4. count - ((j - 1) - s) >= gate.n
        BY <3>5, <4>3
      <4>5. s \in Nat /\ count \in Nat /\ s + count = Len(decided)
        BY <3>2
      <4>6. j \in Nat /\ n - j = count - ((j - 1) - s)
        BY <1>3, <4>1, <4>5
      <4> QED BY <4>4, <4>6
    <3>6. ASSUME \A j \in PassedInRound(n)' : n - j >= gate.n,
                 NEW b \in 0 .. count - 1, b % gate.n = 0
          PROVE  count - b >= gate.n
      <4> DEFINE j == s + b + 1
      <4>1. j \in 1 .. Len(decided) /\ j - 1 >= s /\ (j - 1) - s = b
        BY <1>2, <3>2
      <4>2. Passes(b)
        BY <1>1, <3>6 DEF Passes
      <4>3. decided[j].pass /\ (j - 1) \div Wrap = Len(decided) \div Wrap
        BY <3>2, <4>1, <4>2
      <4>4. j \in All
        BY <4>1, <4>3 DEF All
      <4>5. n - j >= gate.n
        BY <1>4, <3>6, <4>3, <4>4
      <4>6. s \in Nat /\ count \in Nat /\ s + count = Len(decided)
        BY <3>2
      <4>7. n - j = count - b
        BY <1>3, <4>6
      <4> QED BY <4>5, <4>7
    <3>7. pass <=> PromisedEveryN(n)'
      BY <3>3, <3>4, <3>5, <3>6
    <3> QED BY <1>1, <1>4, <3>7 DEF Right
  <2> QED BY <2>2, <2>3
<1>9. \A i \in 1 .. Len(decided') : Right(i)'
  <2>1. \A i \in 1 .. Len(decided') : i \in 1 .. Len(decided) \/ i = n
    BY <1>2, <1>3, <1>4
  <2> QED BY <1>1, <1>4, <1>8, <2>1
<1> QED BY <1>5, <1>6, <1>7, <1>9 DEF IInv

\* FIRST_N passes the first n of every round of the counter, and those only.
LEMMA FirstNStep ==
  ASSUME IInv, NEW t \in Threads, FirstN(t)
  PROVE  IInv'
<1> DEFINE pass == count < gate.n
<1>1. /\ Types /\ Bounds /\ CountInv /\ \A i \in 1 .. Len(decided) : Right(i)
      /\ pc[t] = "tick" /\ gate.kind = "first_n" /\ count' = (count + 1) % Wrap
      /\ Decide(t, pass, now[t])
      /\ UNCHANGED <<gate, clock, enabled, next_ns, bucket, now, expected>>
  BY DEF IInv, FirstN, Wrap
<1>2. gate.n \in Nat /\ now[t] \in Nat /\ pass \in BOOLEAN /\ Len(decided) \in Nat
  BY <1>1, GateFields, LenProperties DEF Types
<1>3. PICK n \in Nat : n = Len(decided) + 1
  BY <1>2
<1> HIDE DEF pass
<1>4. /\ decided' \in Seq(Decision) /\ Len(decided') = n /\ decided'[n].pass = pass
      /\ \A j \in 1 .. Len(decided) : decided'[j] = decided[j]
      /\ pc' \in [Threads -> {"idle", "tick", "cas", "emit"}]
      /\ \A u \in Threads : pc'[u] = "cas" => pc[u] = "cas"
      /\ Len(decided') + Cardinality(Ticking') <= MaxCalls
      /\ PassedInRound(n)' = {j \in All : (j - 1) \div Wrap = Len(decided) \div Wrap}
      /\ \A i \in 1 .. Len(decided) : Right(i)' <=> Right(i)
  BY <1>1, <1>2, <1>3, Decided
<1>5. CountInv' /\ count' \in 0 .. Wrap - 1
  <2>1. decided'[Len(decided) + 1].pass <=> Passes(count)
    BY <1>1, <1>3, <1>4 DEF Passes, pass
  <2> QED BY <1>1, <1>3, <1>4, <2>1, Counted DEF Counting
<1>6. Types'
  BY <1>1, <1>4, <1>5 DEF Types, Wrap
<1>7. Bounds' /\ TimeInv' /\ BurstInv'
  BY <1>1, <1>4 DEF Bounds, Capacity, TimeInv, BurstInv
<1>8. Right(n)'
  <2>1. PICK s : s = Len(decided) - count
    OBVIOUS
  <2>2. /\ s \in Nat /\ count \in Nat /\ s + count = Len(decided)
        /\ \A j \in 1 .. Len(decided) :
             /\ (j - 1) \div Wrap = Len(decided) \div Wrap <=> j - 1 >= s
             /\ j - 1 >= s => (decided[j].pass <=> Passes((j - 1) - s))
    BY <1>1, <2>1, Round DEF Counting
  <2> DEFINE m == IF count < gate.n THEN count ELSE gate.n
  <2>3. m \in Nat /\ m <= count /\ m <= gate.n /\ (m = count \/ m = gate.n)
    BY <1>2, <2>2
  <2>4. m < gate.n <=> pass
    BY <1>2, <2>2 DEF pass
  <2> HIDE DEF m
  <2>5. PassedInRound(n)' = s + 1 .. s + m
    <3>1. ASSUME NEW j \in PassedInRound(n)' PROVE j \in s + 1 .. s + m
      <4>1. /\ j \in 1 .. Len(decided) /\ decided[j].pass
            /\ (j - 1) \div Wrap = Len(decided) \div Wrap
        BY <1>4 DEF All
      <4>2. j - 1 >= s /\ (j - 1) - s < gate.n
        BY <1>1, <2>2, <4>1 DEF Passes
      <4>3. s \in Nat /\ count \in Nat /\ s + count = Len(decided)
        BY <2>2
      <4>4. (j - 1) - s < count
        BY <4>1, <4>3
      <4>5. (j - 1) - s < m
        BY <2>3, <4>2, <4>4
      <4> QED BY <2>3, <4>1, <4>2, <4>3, <4>5
    <3>2. ASSUME NEW j \in s + 1 .. s + m PROVE j \in PassedInRound(n)'
      <4>1. j \in 1 .. Len(decided) /\ j - 1 >= s /\ (j - 1) - s < gate.n
        <5>1. s \in Nat /\ count \in Nat /\ s + count = Len(decided)
          BY <2>2
        <5> QED BY <1>2, <2>3, <5>1
      <4>2. decided[j].pass /\ (j - 1) \div Wrap = Len(decided) \div Wrap
        BY <1>1, <2>2, <4>1 DEF Passes
      <4> QED BY <1>4, <4>1, <4>2 DEF All
    <3> QED BY <3>1, <3>2
  <2>6. Cardinality(s + 1 .. s + m) = m
    <3>1. s + 1 \in Int /\ s + m \in Int
      BY <2>2, <2>3
    <3>2. Cardinality(s + 1 .. s + m) = IF s + 1 > s + m THEN 0 ELSE (s + m) - (s + 1) + 1
      BY <3>1, FS_Interval
    <3>3. s + 1 > s + m <=> m = 0
      BY <2>2, <2>3
    <3>4. (s + m) - (s + 1) + 1 = m
      BY <2>2, <2>3
    <3> QED BY <3>2, <3>3, <3>4
  <2>7. PromisedFirstN(n)' <=> m < gate.n
    BY <1>1, <2>5, <2>6 DEF PromisedFirstN
  <2> QED BY <1>1, <1>4, <2>4, <2>7 DEF Right
<1>9. \A i \in 1 .. Len(decided') : Right(i)'
  <2>1. \A i \in 1 .. Len(decided') : i \in 1 .. Len(decided) \/ i = n
    BY <1>2, <1>3, <1>4
  <2> QED BY <1>1, <1>4, <1>8, <2>1
<1> QED BY <1>5, <1>6, <1>7, <1>9 DEF IInv

\* SAMPLED draws, and promises nothing of a single decision.
LEMMA SampledStep ==
  ASSUME IInv, NEW t \in Threads, Sampled(t)
  PROVE  IInv'
<1>1. PICK pass \in BOOLEAN : Decide(t, pass, now[t])
  BY DEF Sampled
<1>2. /\ Types /\ Bounds /\ \A i \in 1 .. Len(decided) : Right(i)
      /\ pc[t] = "tick" /\ gate.kind = "sampled"
      /\ UNCHANGED <<gate, clock, enabled, count, next_ns, bucket, now, expected>>
  BY DEF IInv, Sampled
<1>3. now[t] \in Nat /\ Len(decided) \in Nat
  BY <1>2, LenProperties DEF Types
<1>4. PICK n \in Nat : n = Len(decided) + 1
  BY <1>3
<1>5. /\ decided' \in Seq(Decision) /\ Len(decided') = n
      /\ pc' \in [Threads -> {"idle", "tick", "cas", "emit"}]
      /\ \A u \in Threads : pc'[u] = "cas" => pc[u] = "cas"
      /\ Len(decided') + Cardinality(Ticking') <= MaxCalls
      /\ \A i \in 1 .. Len(decided) : Right(i)' <=> Right(i)
  BY <1>1, <1>2, <1>3, <1>4, Decided
<1>6. Types'
  BY <1>2, <1>5 DEF Types, Wrap
<1>7. Bounds' /\ TimeInv' /\ BurstInv' /\ CountInv'
  BY <1>2, <1>5 DEF Bounds, Capacity, TimeInv, BurstInv, CountInv, Counting
<1>8. \A i : Right(i)'
  BY <1>2 DEF Right
<1> QED BY <1>6, <1>7, <1>8 DEF IInv

-----------------------------------------------------------------------------
(* EVERY_N_SEC and EVERY_N_MS                                              *)

\* A reading before next_ns as the thread knows it is before next_ns, and so less
\* than a period after a reading that let a call pass.
LEMMA TooEarlyStep ==
  ASSUME IInv, NEW t \in Threads, TooEarly(t)
  PROVE  IInv'
<1>1. /\ Types /\ Bounds /\ TimeInv /\ \A i \in 1 .. Len(decided) : Right(i)
      /\ pc[t] = "cas" /\ gate.kind = "every_time" /\ now[t] < expected[t]
      /\ Decide(t, FALSE, now[t])
      /\ UNCHANGED <<gate, clock, enabled, count, next_ns, bucket, now, expected>>
  BY DEF IInv, TooEarly, Bounds
<1>2. /\ now[t] \in Nat /\ expected[t] \in Nat /\ expected[t] <= next_ns /\ next_ns \in Nat
      /\ gate.period \in Nat /\ Len(decided) \in Nat
  BY <1>1, GateFields, LenProperties DEF Types, Bounds
<1>3. PICK n \in Nat : n = Len(decided) + 1
  BY <1>2
<1>4. /\ decided' \in Seq(Decision) /\ Len(decided') = n /\ decided'[n].pass = FALSE
      /\ decided'[n].at = now[t]
      /\ \A j \in 1 .. Len(decided) : decided'[j] = decided[j]
      /\ pc' \in [Threads -> {"idle", "tick", "cas", "emit"}]
      /\ \A u \in Threads : pc'[u] = "cas" => pc[u] = "cas"
      /\ Len(decided') + Cardinality(Ticking') <= MaxCalls
      /\ All' = All /\ Passed(n)' = All
      /\ \A i \in 1 .. Len(decided) : Right(i)' <=> Right(i)
  <2> DEFINE pass == FALSE
  <2>1. /\ pass \in BOOLEAN /\ Decide(t, pass, now[t]) /\ pc[t] \in {"tick", "cas"} /\ ~pass
        /\ Types /\ Bounds /\ UNCHANGED gate
    BY <1>1
  <2> HIDE DEF pass
  <2>2. /\ decided' \in Seq(Decision) /\ Len(decided') = n /\ decided'[n].pass = pass
        /\ decided'[n].at = now[t]
        /\ \A j \in 1 .. Len(decided) : decided'[j] = decided[j]
        /\ pc' \in [Threads -> {"idle", "tick", "cas", "emit"}]
        /\ \A u \in Threads : pc'[u] = "cas" => pc[u] = "cas"
        /\ Len(decided') + Cardinality(Ticking') <= MaxCalls
        /\ All' = (IF pass THEN All \cup {n} ELSE All) /\ Passed(n)' = All
        /\ \A i \in 1 .. Len(decided) : Right(i)' <=> Right(i)
    <3>1. now[t] \in Nat /\ n \in Nat /\ n = Len(decided) + 1
      BY <1>2, <1>3
    <3> QED BY <2>1, <3>1, Decided
  <2> QED BY <2>1, <2>2 DEF pass
<1>5. \A j \in All : j \in 1 .. Len(decided) /\ decided'[j] = decided[j] /\ decided[j].at \in Nat
  BY <1>1, <1>4, Decisions DEF Types
<1>6. Types'
  BY <1>1, <1>4 DEF Types, Wrap
<1>7. Bounds' /\ CountInv' /\ BurstInv'
  BY <1>1, <1>4 DEF Bounds, Capacity, CountInv, Counting, BurstInv
<1>8. TimeInv'
  BY <1>1, <1>4, <1>5 DEF TimeInv
<1>9. Right(n)'
  <2>1. PICK j \in All : decided[j].at + gate.period = next_ns
    BY <1>1, <1>2 DEF TimeInv
  <2>2. ~(now[t] - decided[j].at >= gate.period)
    <3>1. decided[j].at \in Nat
      BY <1>5
    <3>2. now[t] < decided[j].at + gate.period
      BY <1>1, <1>2, <2>1, <3>1
    <3> QED BY <1>2, <3>1, <3>2
  <2>3. ~PromisedEveryTime(n)'
    BY <1>1, <1>4, <1>5, <2>2 DEF PromisedEveryTime
  <2> QED BY <1>1, <1>4, <2>3 DEF Right
<1>10. \A i \in 1 .. Len(decided') : Right(i)'
  <2>1. \A i \in 1 .. Len(decided') : i \in 1 .. Len(decided) \/ i = n
    BY <1>2, <1>3, <1>4
  <2> QED BY <1>1, <1>4, <1>9, <2>1
<1> QED BY <1>6, <1>7, <1>8, <1>10 DEF IInv

\* The exchange succeeds on the value the thread has compared its reading with, so
\* the reading is a period after all that let a call pass.
LEMMA ExchangeStep ==
  ASSUME IInv, NEW t \in Threads, Exchange(t)
  PROVE  IInv'
<1>1. /\ Types /\ Bounds /\ TimeInv /\ \A i \in 1 .. Len(decided) : Right(i)
      /\ pc[t] = "cas" /\ gate.kind = "every_time" /\ now[t] >= expected[t]
      /\ next_ns = expected[t] /\ next_ns' = now[t] + gate.period
      /\ Decide(t, TRUE, now[t])
      /\ UNCHANGED <<gate, clock, enabled, count, bucket, now, expected>>
  BY DEF IInv, Exchange, Exchanges, Bounds
<1>2. /\ now[t] \in Nat /\ next_ns \in Nat /\ gate.period \in Nat /\ Len(decided) \in Nat
      /\ next_ns' \in Nat /\ next_ns <= next_ns' /\ next_ns <= now[t]
  BY <1>1, GateFields, LenProperties DEF Types
<1>3. PICK n \in Nat : n = Len(decided) + 1
  BY <1>2
<1>4. /\ decided' \in Seq(Decision) /\ Len(decided') = n /\ decided'[n].pass = TRUE
      /\ decided'[n].at = now[t]
      /\ \A j \in 1 .. Len(decided) : decided'[j] = decided[j]
      /\ pc' \in [Threads -> {"idle", "tick", "cas", "emit"}]
      /\ \A u \in Threads : pc'[u] = "cas" => pc[u] = "cas"
      /\ Len(decided') + Cardinality(Ticking') <= MaxCalls
      /\ All' = All \cup {n} /\ Passed(n)' = All
      /\ \A i \in 1 .. Len(decided) : Right(i)' <=> Right(i)
  <2> DEFINE pass == TRUE
  <2>1. /\ pass \in BOOLEAN /\ Decide(t, pass, now[t]) /\ pc[t] \in {"tick", "cas"} /\ pass
        /\ Types /\ Bounds /\ UNCHANGED gate
    BY <1>1
  <2> HIDE DEF pass
  <2>2. /\ decided' \in Seq(Decision) /\ Len(decided') = n /\ decided'[n].pass = pass
        /\ decided'[n].at = now[t]
        /\ \A j \in 1 .. Len(decided) : decided'[j] = decided[j]
        /\ pc' \in [Threads -> {"idle", "tick", "cas", "emit"}]
        /\ \A u \in Threads : pc'[u] = "cas" => pc[u] = "cas"
        /\ Len(decided') + Cardinality(Ticking') <= MaxCalls
        /\ All' = (IF pass THEN All \cup {n} ELSE All) /\ Passed(n)' = All
        /\ \A i \in 1 .. Len(decided) : Right(i)' <=> Right(i)
    <3>1. now[t] \in Nat /\ n \in Nat /\ n = Len(decided) + 1
      BY <1>2, <1>3
    <3> QED BY <2>1, <3>1, Decided
  <2> QED BY <2>1, <2>2 DEF pass
<1>5. \A j \in All : j \in 1 .. Len(decided) /\ decided'[j] = decided[j] /\ decided[j].at \in Nat
  BY <1>1, <1>4, Decisions DEF Types
<1>6. Types'
  BY <1>1, <1>2, <1>4 DEF Types, Wrap
<1>7. Bounds'
  <2>1. \A u \in Threads : expected[u] \in Nat /\ expected[u] <= next_ns
    BY <1>1 DEF Types, Bounds
  <2>2. \A u \in Threads : expected[u] <= next_ns'
    BY <1>2, <2>1
  <2> QED BY <1>1, <1>4, <2>2 DEF Bounds, Capacity
<1>8. CountInv' /\ BurstInv'
  BY <1>1 DEF CountInv, Counting, BurstInv
<1>9. \A j \in All : decided[j].at + gate.period <= next_ns
  BY <1>1 DEF TimeInv
<1>10. TimeInv'
  <2>1. ASSUME NEW j \in All PROVE decided'[j].at + gate.period <= next_ns'
    <3>1. decided[j].at \in Nat /\ decided[j].at + gate.period <= next_ns
      BY <1>5, <1>9
    <3>2. decided[j].at + gate.period <= next_ns'
      BY <1>2, <3>1
    <3> QED BY <1>5, <3>2
  <2> QED BY <1>1, <1>2, <1>4, <2>1 DEF TimeInv
<1>11. Right(n)'
  <2>1. ASSUME NEW j \in All PROVE now[t] - decided[j].at >= gate.period
    <3>1. decided[j].at \in Nat /\ decided[j].at + gate.period <= next_ns
      BY <1>5, <1>9
    <3> QED BY <1>2, <3>1
  <2>2. PromisedEveryTime(n)'
    BY <1>1, <1>4, <1>5, <2>1 DEF PromisedEveryTime
  <2> QED BY <1>1, <1>4, <2>2 DEF Right
<1>12. \A i \in 1 .. Len(decided') : Right(i)'
  <2>1. \A i \in 1 .. Len(decided') : i \in 1 .. Len(decided) \/ i = n
    BY <1>2, <1>3, <1>4
  <2> QED BY <1>1, <1>4, <1>11, <2>1
<1> QED BY <1>6, <1>7, <1>8, <1>10, <1>12 DEF IInv

-----------------------------------------------------------------------------
(* BURST                                                                   *)

\* The refilled bucket still holds what is left of a full one.
LEMMA RefillKeeps ==
  ASSUME Types, Bounds, BurstInv, gate.kind = "burst", NEW at \in Nat, at <= clock,
         NEW b, b = Refilled(at)
  PROVE  /\ b \in [tokens : Nat, last_ns : Nat, initialized : BOOLEAN] /\ b.initialized
         /\ b.last_ns <= clock /\ b.tokens <= Capacity
         /\ \A j \in 1 .. Len(decided) : decided[j].at <= b.last_ns
         /\ \A j \in All : b.tokens <= Left(j, b.last_ns) /\ Left(j, b.last_ns) \in Int
         /\ b.tokens = Capacity \/ \E j \in All : b.tokens = Left(j, b.last_ns)
<1>1. /\ gate.burst \in Nat /\ gate.refill \in Nat /\ Token \in Nat /\ Capacity \in Nat
      /\ Capacity = gate.burst * Token
      /\ bucket \in [tokens : Nat, last_ns : Nat, initialized : BOOLEAN]
      /\ bucket.last_ns <= clock /\ bucket.tokens <= Capacity /\ clock \in Nat
  BY GateFields, Constants DEF Types, Bounds, Capacity
<1>2. \A j \in All : /\ j \in 1 .. Len(decided) /\ decided[j].at \in Nat
                     /\ Cardinality(PassedSince(j)) \in Nat
  BY Decisions DEF Types
<1>3. ASSUME NEW j \in All, NEW x \in Nat
      PROVE  Left(j, x) \in Int
  <2>1. x - decided[j].at \in Int /\ gate.refill \in Int /\ Token \in Int /\ Capacity \in Int
        /\ Cardinality(PassedSince(j)) \in Int
    <3>1. gate.refill \in Nat /\ Token \in Nat /\ Capacity \in Nat
      BY <1>1
    <3>2. decided[j].at \in Nat /\ Cardinality(PassedSince(j)) \in Nat
      BY <1>2
    <3> QED BY <3>1, <3>2
  <2>2. \A v, w \in Int : v * w \in Int
    OBVIOUS
  <2>3. (x - decided[j].at) * gate.refill \in Int /\ Cardinality(PassedSince(j)) * Token \in Int
    BY <2>1, <2>2
  <2> QED BY <2>1, <2>3 DEF Left
<1>4. CASE ~bucket.initialized
  <2>1. b = [tokens |-> gate.burst * Token, last_ns |-> at, initialized |-> TRUE]
    BY <1>4 DEF Refilled
  <2>2. 1 .. Len(decided) = {} /\ All = {}
    BY <1>4 DEF BurstInv, All
  <2> QED BY <1>1, <2>1, <2>2
<1>5. CASE bucket.initialized /\ at <= bucket.last_ns
  <2>1. b = bucket
    BY <1>5 DEF Refilled
  <2> QED BY <1>1, <1>3, <1>5, <2>1 DEF BurstInv
<1>6. CASE bucket.initialized /\ ~(at <= bucket.last_ns)
  <2> DEFINE more == bucket.tokens + (at - bucket.last_ns) * gate.refill
  <2>1. b = [bucket EXCEPT !.tokens = IF more > gate.burst * Token
                                      THEN gate.burst * Token ELSE more,
                           !.last_ns = at]
    BY <1>6 DEF Refilled
  <2>2. (at - bucket.last_ns) * gate.refill \in Nat
    <3>1. at - bucket.last_ns \in Nat
      BY <1>1, <1>6
    <3> QED BY <1>1, <3>1
  <2>3. more \in Nat
    BY <1>1, <2>2
  <2>4. /\ b.initialized /\ b.last_ns = at /\ b.tokens = (IF more > Capacity THEN Capacity ELSE more)
        /\ b \in [tokens : Nat, last_ns : Nat, initialized : BOOLEAN]
    <3> HIDE DEF more
    <3>1. (IF more > Capacity THEN Capacity ELSE more) \in Nat
      BY <1>1, <2>3
    <3> QED BY <1>1, <1>6, <2>1, <3>1
  <2>5. \A j \in 1 .. Len(decided) : decided[j].at <= at
    <3>1. \A j \in 1 .. Len(decided) : decided[j].at <= bucket.last_ns /\ decided[j].at \in Nat
      BY Decisions DEF Types, BurstInv
    <3> QED BY <1>1, <1>6, <3>1
  <2>6. ASSUME NEW j \in All
        PROVE  Left(j, at) = Left(j, bucket.last_ns) + (at - bucket.last_ns) * gate.refill
    <3> DEFINE x == decided[j].at
               y == bucket.last_ns
               f == gate.refill
               z == Cardinality(PassedSince(j)) * Token
    <3>1. x \in Int /\ y \in Int /\ f \in Int /\ z \in Int /\ at \in Int /\ Capacity \in Int
      BY <1>1, <1>2
    <3>2. /\ Left(j, at) = Capacity + (at - x) * f - z
          /\ Left(j, bucket.last_ns) = Capacity + (y - x) * f - z
      BY DEF Left
    <3> HIDE DEF x, y, f, z
    <3>3. (at - x) * f = (y - x) * f + (at - y) * f
      BY <3>1
    <3>4. (at - x) * f \in Int /\ (y - x) * f \in Int /\ (at - y) * f \in Int
      BY <3>1
    <3>5. Left(j, at) = Left(j, bucket.last_ns) + (at - y) * f
      BY <3>1, <3>2, <3>3, <3>4
    <3> QED BY <3>5 DEF y, f
  <2>7. \A j \in All : bucket.tokens <= Left(j, bucket.last_ns) /\ Left(j, bucket.last_ns) \in Int
    BY <1>1, <1>3, <1>6 DEF BurstInv
  <2>8. \A j \in All : more <= Left(j, at)
    BY <1>1, <2>2, <2>6, <2>7
  <2>9. \A j \in All : bucket.tokens = Left(j, bucket.last_ns) => more = Left(j, at)
    BY <2>6
  <2> HIDE DEF more
  <2>10. b.tokens <= Capacity /\ b.tokens <= more /\ b.tokens \in Nat
    BY <1>1, <2>3, <2>4
  <2>11. \A j \in All : b.tokens <= Left(j, b.last_ns) /\ Left(j, b.last_ns) \in Int
    BY <1>3, <2>3, <2>4, <2>8, <2>10
  <2>12. b.tokens = Capacity \/ \E j \in All : b.tokens = Left(j, b.last_ns)
    <3>1. CASE more > Capacity
      BY <2>4, <3>1
    <3>2. CASE ~(more > Capacity) /\ bucket.tokens = Capacity
      <4>1. more >= bucket.tokens
        BY <1>1, <2>2 DEF more
      <4> QED BY <1>1, <2>3, <2>4, <3>2, <4>1
    <3>3. CASE ~(more > Capacity) /\ \E j \in All : bucket.tokens = Left(j, bucket.last_ns)
      BY <2>4, <2>9, <3>3
    <3> QED BY <1>6, <3>1, <3>2, <3>3 DEF BurstInv
  <2> QED BY <2>4, <2>5, <2>10, <2>11, <2>12
<1> QED BY <1>4, <1>5, <1>6

\* A call takes its token out of everything that is left.
LEMMA BurstStep ==
  ASSUME IInv, NEW t \in Threads, Burst(t)
  PROVE  IInv'
<1>1. PICK b : b = Refilled(now[t])
  OBVIOUS
<1> DEFINE pass == b.tokens >= Token
<1>2. /\ Types /\ Bounds /\ BurstInv /\ \A i \in 1 .. Len(decided) : Right(i)
      /\ pc[t] = "tick" /\ gate.kind = "burst"
      /\ bucket' = (IF pass THEN [b EXCEPT !.tokens = @ - Token] ELSE b)
      /\ Decide(t, pass, b.last_ns)
      /\ UNCHANGED <<gate, clock, enabled, count, next_ns, now, expected>>
  BY <1>1 DEF IInv, Burst
<1>3. /\ now[t] \in Nat /\ now[t] <= clock /\ Len(decided) \in Nat
      /\ gate.burst \in Nat /\ gate.refill \in Nat /\ Token \in Nat \ {0} /\ Capacity \in Nat
      /\ Capacity' = Capacity
  BY <1>2, GateFields, Constants, LenProperties DEF Types, Bounds, Capacity
<1>4. /\ b \in [tokens : Nat, last_ns : Nat, initialized : BOOLEAN] /\ b.initialized
      /\ b.last_ns <= clock /\ b.tokens <= Capacity
      /\ \A j \in 1 .. Len(decided) : decided[j].at <= b.last_ns
      /\ \A j \in All : b.tokens <= Left(j, b.last_ns) /\ Left(j, b.last_ns) \in Int
      /\ b.tokens = Capacity \/ \E j \in All : b.tokens = Left(j, b.last_ns)
  BY <1>1, <1>2, <1>3, RefillKeeps
<1>5. b.tokens \in Nat /\ b.last_ns \in Nat /\ pass \in BOOLEAN
  BY <1>4
<1>6. PICK n \in Nat : n = Len(decided) + 1
  BY <1>3
<1>7. /\ decided' \in Seq(Decision) /\ Len(decided') = n /\ decided'[n].pass = pass
      /\ decided'[n].at = b.last_ns
      /\ \A j \in 1 .. Len(decided) : decided'[j] = decided[j]
      /\ pc' \in [Threads -> {"idle", "tick", "cas", "emit"}]
      /\ \A u \in Threads : pc'[u] = "cas" => pc[u] = "cas"
      /\ Len(decided') + Cardinality(Ticking') <= MaxCalls
      /\ All' = (IF pass THEN All \cup {n} ELSE All) /\ Passed(n)' = All
      /\ \A i \in 1 .. Len(decided) : Right(i)' <=> Right(i)
  <2> HIDE DEF pass
  <2> QED BY <1>2, <1>5, <1>6, Decided
<1>8. /\ bucket' \in [tokens : Nat, last_ns : Nat, initialized : BOOLEAN]
      /\ bucket'.initialized /\ bucket'.last_ns = b.last_ns
      /\ bucket'.tokens = IF pass THEN b.tokens - Token ELSE b.tokens
  <2>1. CASE pass
    <3>1. b.tokens - Token \in Nat
      BY <1>3, <1>5, <2>1
    <3> QED BY <1>2, <1>4, <2>1, <3>1
  <2>2. CASE ~pass
    BY <1>2, <1>4, <2>2
  <2> QED BY <2>1, <2>2
<1>9. \A j \in All : /\ j \in 1 .. Len(decided) /\ decided'[j] = decided[j]
                     /\ decided[j].at \in Nat /\ j # n /\ j <= n /\ j \in Nat
                     /\ IsFiniteSet(PassedSince(j)) /\ Cardinality(PassedSince(j)) \in Nat
  <2>1. \A j \in All : /\ j \in 1 .. Len(decided) /\ decided[j].at \in Nat
                       /\ IsFiniteSet(PassedSince(j)) /\ Cardinality(PassedSince(j)) \in Nat
    BY <1>2, Decisions DEF Types
  <2>2. \A j \in 1 .. Len(decided) : j # n /\ j <= n /\ j \in Nat
    BY <1>3, <1>6
  <2> QED BY <1>7, <2>1, <2>2
<1> HIDE DEF pass
<1>10. Types'
  BY <1>2, <1>7, <1>8 DEF Types, Wrap
<1>11. Bounds'
  <2>1. bucket'.tokens <= Capacity
    BY <1>3, <1>4, <1>5, <1>8
  <2> QED BY <1>2, <1>3, <1>4, <1>7, <1>8, <2>1 DEF Bounds
<1>12. CountInv' /\ TimeInv'
  BY <1>2 DEF CountInv, Counting, TimeInv
<1>13. ASSUME pass, NEW j \in All
       PROVE  Left(j, b.last_ns)' = Left(j, b.last_ns) - Token
  <2>1. PassedSince(j)' = PassedSince(j) \cup {n} /\ n \notin PassedSince(j)
    BY <1>7, <1>9, <1>13 DEF PassedSince
  <2>2. Cardinality(PassedSince(j)') = Cardinality(PassedSince(j)) + 1 /\ Cardinality(PassedSince(j)) \in Nat
    BY <1>9, <2>1, FS_AddElement
  <2> DEFINE c == Cardinality(PassedSince(j))
             k == Cardinality(PassedSince(j)')
             r == (b.last_ns - decided[j].at) * gate.refill
  <2>3. /\ Left(j, b.last_ns)' = Capacity + r - k * Token
        /\ Left(j, b.last_ns) = Capacity + r - c * Token
    BY <1>2, <1>3, <1>9 DEF Left
  <2>4. r \in Int
    BY <1>3, <1>5, <1>9
  <2>5. k = c + 1 /\ c \in Nat
    BY <2>2
  <2> HIDE DEF c, k, r
  <2>6. k * Token = c * Token + Token /\ c * Token \in Nat
    BY <1>3, <2>5
  <2> QED BY <1>3, <2>3, <2>4, <2>6
<1>14. ASSUME pass
       PROVE  Left(n, b.last_ns)' = Capacity - Token
  <2>1. PassedSince(n)' = {n}
    <3>1. \A k \in All : ~(k >= n)
      BY <1>6, <1>9
    <3>2. All' = All \cup {n} /\ n >= n
      BY <1>7, <1>14
    <3>3. PassedSince(n)' = {k \in All' : k >= n}
      BY DEF PassedSince
    <3> QED BY <3>1, <3>2, <3>3
  <2>2. Cardinality(PassedSince(n)') = 1
    BY <2>1, FS_Singleton
  <2>3. Left(n, b.last_ns)' = Capacity + (b.last_ns - b.last_ns) * gate.refill - 1 * Token
    BY <1>2, <1>3, <1>7, <2>2 DEF Left
  <2> QED BY <1>3, <1>5, <2>3
<1>15. ASSUME ~pass, NEW j \in All
       PROVE  Left(j, b.last_ns)' = Left(j, b.last_ns)
  <2>1. PassedSince(j)' = PassedSince(j)
    BY <1>7, <1>15 DEF PassedSince
  <2> QED BY <1>2, <1>3, <1>9, <2>1 DEF Left
<1>16. BurstInv'
  <2>1. \A j \in 1 .. Len(decided') : bucket'.initialized /\ decided'[j].at <= bucket'.last_ns
    <3>1. \A j \in 1 .. Len(decided') : j \in 1 .. Len(decided) \/ j = n
      BY <1>3, <1>6, <1>7
    <3> QED BY <1>4, <1>5, <1>7, <1>8, <3>1
  <2>2. CASE pass
    <3>1. All' = All \cup {n} /\ bucket'.tokens = b.tokens - Token
      BY <1>7, <1>8, <2>2
    <3>2. ASSUME NEW j \in All'
          PROVE  bucket'.tokens <= Left(j, b.last_ns)'
      <4>1. CASE j \in All
        <5>1. b.tokens <= Left(j, b.last_ns) /\ Left(j, b.last_ns) \in Int
          BY <1>4, <4>1
        <5>2. b.tokens - Token <= Left(j, b.last_ns) - Token
          BY <1>3, <1>5, <5>1
        <5> QED BY <1>13, <2>2, <3>1, <4>1, <5>2
      <4>2. CASE j = n
        <5>1. b.tokens - Token <= Capacity - Token
          BY <1>3, <1>4, <1>5
        <5> QED BY <1>14, <2>2, <3>1, <4>2, <5>1
      <4> QED BY <3>1, <4>1, <4>2
    <3>3. \E j \in All' : bucket'.tokens = Left(j, b.last_ns)'
      <4>1. CASE b.tokens = Capacity
        BY <1>14, <2>2, <3>1, <4>1
      <4>2. CASE \E j \in All : b.tokens = Left(j, b.last_ns)
        BY <1>13, <2>2, <3>1, <4>2
      <4> QED BY <1>4, <4>1, <4>2
    <3> QED BY <1>8, <2>1, <3>2, <3>3 DEF BurstInv
  <2>3. CASE ~pass
    <3>1. All' = All /\ bucket'.tokens = b.tokens
      BY <1>7, <1>8, <2>3
    <3>2. \A j \in All' : bucket'.tokens <= Left(j, b.last_ns)'
      BY <1>4, <1>15, <2>3, <3>1
    <3>3. bucket'.tokens = Capacity' \/ \E j \in All' : bucket'.tokens = Left(j, b.last_ns)'
      BY <1>3, <1>4, <1>15, <2>3, <3>1
    <3> QED BY <1>8, <2>1, <3>2, <3>3 DEF BurstInv
  <2> QED BY <2>2, <2>3
<1>17. Right(n)'
  <2>1. \A j \in All : {k \in Passed(n)' : k >= j} = PassedSince(j)
    BY <1>7 DEF PassedSince
  <2>2. PromisedBurst(n)' <=>
          /\ gate.burst > 0
          /\ \A j \in All : (Cardinality(PassedSince(j)) + 1) * Token
                               <= gate.burst * Token + (b.last_ns - decided[j].at) * gate.refill
    BY <1>2, <1>7, <1>9, <2>1 DEF PromisedBurst, Refill
  <2>3. Capacity = gate.burst * Token
    BY <1>2 DEF Capacity
  <2>4. ASSUME NEW j \in All
        PROVE  (Cardinality(PassedSince(j)) + 1) * Token
                  <= gate.burst * Token + (b.last_ns - decided[j].at) * gate.refill
               <=> Token <= Left(j, b.last_ns)
    <3> DEFINE c == Cardinality(PassedSince(j))
               r == (b.last_ns - decided[j].at) * gate.refill
    <3>1. r \in Int /\ c \in Nat
      BY <1>3, <1>5, <1>9
    <3>2. Left(j, b.last_ns) = Capacity + r - c * Token
      BY DEF Left
    <3> SUFFICES (c + 1) * Token <= Capacity + r <=> Token <= Left(j, b.last_ns)
      BY <2>3
    <3> HIDE DEF c, r
    <3>3. (c + 1) * Token = c * Token + Token /\ c * Token \in Nat
      BY <1>3, <3>1
    <3> QED BY <1>3, <3>1, <3>2, <3>3
  <2>5. gate.burst > 0 <=> Token <= Capacity
    <3>1. CASE gate.burst = 0
      BY <1>3, <2>3, <3>1
    <3>2. CASE gate.burst # 0
      <4>1. PICK m \in Nat : gate.burst = m + 1
        <5>1. gate.burst - 1 \in Nat /\ gate.burst = (gate.burst - 1) + 1
          BY <1>3, <3>2
        <5> QED BY <5>1
      <4>2. (m + 1) * Token = m * Token + Token /\ m * Token \in Nat
        BY <1>3
      <4> QED BY <1>3, <2>3, <4>1, <4>2
    <3> QED BY <3>1, <3>2
  <2>6. pass <=> Token <= Capacity /\ \A j \in All : Token <= Left(j, b.last_ns)
    <3>1. ASSUME pass PROVE Token <= Capacity /\ \A j \in All : Token <= Left(j, b.last_ns)
      <4>1. Token <= b.tokens
        BY <1>3, <1>5, <3>1 DEF pass
      <4>2. Token <= Capacity
        BY <1>3, <1>4, <1>5, <4>1
      <4>3. ASSUME NEW j \in All PROVE Token <= Left(j, b.last_ns)
        <5>1. b.tokens <= Left(j, b.last_ns) /\ Left(j, b.last_ns) \in Int
          BY <1>4
        <5> QED BY <1>3, <1>5, <4>1, <5>1
      <4> QED BY <4>2, <4>3
    <3>2. ASSUME Token <= Capacity, \A j \in All : Token <= Left(j, b.last_ns) PROVE pass
      <4>1. Token <= b.tokens
        BY <1>4, <3>2
      <4> QED BY <1>3, <1>5, <4>1 DEF pass
    <3> QED BY <3>1, <3>2
  <2>7. pass <=> PromisedBurst(n)'
    BY <2>2, <2>4, <2>5, <2>6
  <2> QED BY <1>2, <1>7, <2>7 DEF Right
<1>18. \A i \in 1 .. Len(decided') : Right(i)'
  <2>1. \A i \in 1 .. Len(decided') : i \in 1 .. Len(decided) \/ i = n
    BY <1>3, <1>6, <1>7
  <2> QED BY <1>2, <1>7, <1>17, <2>1
<1> QED BY <1>10, <1>11, <1>12, <1>16, <1>18 DEF IInv

-----------------------------------------------------------------------------
(* The steps that decide nothing, and the theorems                         *)

\* The threads inside tick(), seen by the others.
LEMMA TickingFinite ==
  IsFiniteSet(Ticking) /\ Cardinality(Ticking) \in Nat
BY ConstantsAssumption, FS_Subset, FS_CardinalityType DEF Ticking

\* A statement begins, is emitted, or looks at next_ns; the clock or the logger's
\* level moves.
LEMMA SilentStep ==
  ASSUME IInv,
         \/ \E t \in Threads : Begin(t) \/ Emit(t) \/ Load(t) \/ Retry(t)
         \/ Advance \/ SetLevel
  PROVE  IInv'
<1>1. /\ Types /\ Bounds /\ Len(decided) + Cardinality(Ticking) <= MaxCalls
      /\ \A t \in Threads : /\ now[t] \in Nat /\ now[t] <= clock
                            /\ expected[t] \in Nat /\ expected[t] <= next_ns
      /\ clock \in Nat /\ next_ns \in Nat /\ next_ns <= next_ns /\ clock <= clock
      /\ Len(decided) \in Nat
  BY LenProperties DEF IInv, Bounds, Types
<1>2. ASSUME NEW t \in Threads, Begin(t) PROVE IInv'
  <2>1. /\ pc[t] = "idle" /\ now' = [now EXCEPT ![t] = clock]
        /\ pc' = [pc EXCEPT ![t] = "tick"]
        /\ UNCHANGED <<gate, clock, enabled, count, next_ns, bucket, expected, decided>>
    BY <1>2 DEF Begin
  <2>2. Types'
    BY <1>1, <2>1 DEF Types, Wrap
  <2>3. /\ Ticking' = Ticking \cup {t} /\ t \notin Ticking
        /\ {u \in Busy : pc[u] # "emit"} = Ticking
    BY <1>1, <2>1 DEF Types, Ticking, Busy
  <2>4. Len(decided) + Cardinality(Ticking) < MaxCalls /\ MaxCalls \in Nat
    BY <1>2, <2>3, ConstantsAssumption DEF Begin
  <2>5. Cardinality(Ticking') = Cardinality(Ticking) + 1 /\ Cardinality(Ticking) \in Nat
    BY <2>3, TickingFinite, FS_AddElement
  <2>6. Len(decided) + Cardinality(Ticking') <= MaxCalls
    BY <1>1, <2>4, <2>5
  <2>7. \A u \in Threads : /\ now'[u] <= clock' /\ expected'[u] <= next_ns
                           /\ pc'[u] = "cas" => gate.kind = "every_time"
    BY <1>1, <2>1 DEF Types, Bounds
  <2> QED BY <1>1, <2>1, <2>2, <2>6, <2>7, Undecided
<1>3. ASSUME NEW t \in Threads, Emit(t) PROVE IInv'
  <2>1. /\ pc[t] = "emit" /\ pc' = [pc EXCEPT ![t] = "idle"]
        /\ UNCHANGED <<gate, clock, enabled, count, next_ns, bucket, now, expected, decided>>
    BY <1>3 DEF Emit
  <2>2. Types'
    BY <1>1, <2>1 DEF Types, Wrap
  <2>3. Ticking' = Ticking
    BY <1>1, <2>1 DEF Types, Ticking
  <2>4. \A u \in Threads : /\ now'[u] <= clock' /\ expected'[u] <= next_ns
                           /\ pc'[u] = "cas" => gate.kind = "every_time"
    BY <1>1, <2>1 DEF Types, Bounds
  <2> QED BY <1>1, <2>1, <2>2, <2>3, <2>4, Undecided
<1>4. ASSUME NEW t \in Threads, Load(t) \/ Retry(t) PROVE IInv'
  <2>1. /\ pc[t] \in {"tick", "cas"} /\ gate.kind = "every_time"
        /\ expected' = [expected EXCEPT ![t] = next_ns]
        /\ pc' = pc \/ pc' = [pc EXCEPT ![t] = "cas"]
        /\ UNCHANGED <<gate, clock, enabled, count, next_ns, bucket, now, decided>>
    BY <1>1, <1>4 DEF Load, Retry, Bounds
  <2>2. Types'
    BY <1>1, <2>1 DEF Types, Wrap
  <2>3. Ticking' = Ticking
    BY <1>1, <2>1 DEF Types, Ticking
  <2>4. \A u \in Threads : /\ now'[u] <= clock' /\ expected'[u] <= next_ns
                           /\ pc'[u] = "cas" => gate.kind = "every_time"
    BY <1>1, <2>1 DEF Types
  <2> QED BY <1>1, <2>1, <2>2, <2>3, <2>4, Undecided
<1>5. CASE Advance
  <2>1. PICK c \in clock + 1 .. MaxClock : clock' = c
    BY <1>5 DEF Advance
  <2>2. UNCHANGED <<gate, enabled, count, next_ns, bucket, pc, now, expected, decided>>
    BY <1>5 DEF Advance
  <2>3. MaxClock \in Nat
    BY ConstantsAssumption
  <2>4. clock' \in 1 .. MaxClock /\ clock' >= clock
    BY <1>1, <2>1, <2>3
  <2>5. Types'
    BY <1>1, <2>2, <2>4 DEF Types, Wrap
  <2>6. Ticking' = Ticking
    BY <2>2 DEF Ticking
  <2>7. \A u \in Threads : now'[u] <= clock'
    BY <1>1, <2>2, <2>3, <2>4
  <2>8. \A u \in Threads : /\ expected'[u] <= next_ns
                           /\ pc'[u] = "cas" => gate.kind = "every_time"
    BY <1>1, <2>2 DEF Bounds
  <2> QED BY <1>1, <2>2, <2>4, <2>5, <2>6, <2>7, <2>8, Undecided
<1>6. CASE SetLevel
  <2>1. /\ enabled' = ~enabled
        /\ UNCHANGED <<gate, clock, count, next_ns, bucket, pc, now, expected, decided>>
    BY <1>6 DEF SetLevel
  <2>2. Types'
    BY <1>1, <2>1 DEF Types, Wrap
  <2>3. Ticking' = Ticking
    BY <2>1 DEF Ticking
  <2>4. \A u \in Threads : /\ now'[u] <= clock' /\ expected'[u] <= next_ns
                           /\ pc'[u] = "cas" => gate.kind = "every_time"
    BY <1>1, <2>1 DEF Bounds
  <2> QED BY <1>1, <2>1, <2>2, <2>3, <2>4, Undecided
<1> QED BY <1>2, <1>3, <1>4, <1>5, <1>6

\* The statement has not been executed yet.
LEMMA Initially == Init => IInv
<1> SUFFICES ASSUME Init PROVE IInv
  OBVIOUS
<1>1. /\ Wrap \in Nat \ {0} /\ MaxCalls \in Nat /\ MaxClock \in Nat \ {0}
  BY Constants, ConstantsAssumption
<1>2. decided = <<>> /\ Len(decided) = 0 /\ All = {} /\ 1 .. Len(decided) = {}
  BY DEF Init, All
<1>3. Types
  <2>1. 0 \in 0 .. Wrap - 1 /\ 1 \in 1 .. MaxClock
    BY <1>1
  <2> QED BY <1>2, <2>1 DEF Init, Types
<1>4. Capacity \in Nat
  BY <1>3, GateFields DEF Types
<1>5. Bounds
  <2>1. Ticking = {}
    BY DEF Init, Ticking
  <2>2. Cardinality(Ticking) = 0
    BY <2>1, FS_EmptySet
  <2> QED BY <1>1, <1>2, <1>4, <2>2 DEF Init, Bounds
<1>6. CountInv
  <2>1. 0 % Wrap = 0
    BY <1>1
  <2> QED BY <1>2, <2>1 DEF Init, CountInv
<1>7. TimeInv /\ BurstInv
  BY <1>2 DEF Init, TimeInv, BurstInv
<1> QED BY <1>2, <1>3, <1>5, <1>6, <1>7 DEF IInv

\* Every step keeps the invariant.
LEMMA Preservation == IInv /\ [Next]_vars => IInv'
<1> SUFFICES ASSUME IInv, [Next]_vars PROVE IInv'
  OBVIOUS
<1>1. ASSUME NEW t \in Threads, EveryN(t) PROVE IInv'
  BY <1>1, EveryNStep
<1>2. ASSUME NEW t \in Threads, FirstN(t) PROVE IInv'
  BY <1>2, FirstNStep
<1>3. ASSUME NEW t \in Threads, Sampled(t) PROVE IInv'
  BY <1>3, SampledStep
<1>4. ASSUME NEW t \in Threads, TooEarly(t) PROVE IInv'
  BY <1>4, TooEarlyStep
<1>5. ASSUME NEW t \in Threads, Exchange(t) PROVE IInv'
  BY <1>5, ExchangeStep
<1>6. ASSUME NEW t \in Threads, Burst(t) PROVE IInv'
  BY <1>6, BurstStep
<1>7. CASE \/ \E t \in Threads : Begin(t) \/ Emit(t) \/ Load(t) \/ Retry(t)
           \/ Advance \/ SetLevel
  BY <1>7, SilentStep
<1>8. CASE UNCHANGED vars
  <2>1. UNCHANGED <<gate, clock, enabled, count, next_ns, bucket, pc, now, expected, decided>>
    BY <1>8 DEF vars
  <2>2. Types' /\ Ticking' = Ticking /\ clock \in Nat /\ clock' >= clock
    BY <2>1 DEF IInv, Types, Wrap, Ticking
  <2>3. \A u \in Threads : /\ now'[u] <= clock' /\ expected'[u] <= next_ns
                           /\ pc'[u] = "cas" => gate.kind = "every_time"
    BY <2>1 DEF IInv, Bounds
  <2>4. Len(decided) + Cardinality(Ticking) <= MaxCalls
    BY DEF IInv, Bounds
  <2> QED BY <2>1, <2>2, <2>3, <2>4, Undecided
<1> QED BY <1>1, <1>2, <1>3, <1>4, <1>5, <1>6, <1>7, <1>8 DEF Next, Step, Quiet

\* The inductive invariant holds in every reachable state.
THEOREM Invariance == Spec => []IInv
BY Initially, Preservation, PTL DEF Spec

\* The variables stay in their ranges: counters wrap within their width, a bucket
\* never holds more than a full one or less than nothing, whatever the threads do.
THEOREM TypeCorrect == Spec => []TypeOK
<1>1. ASSUME IInv PROVE TypeOK
  <2>1. /\ Types /\ Bounds /\ Capacity \in Nat /\ Len(decided) \in Nat /\ MaxCalls \in Nat
        /\ Cardinality(Ticking) \in Nat
    BY <1>1, GateFields, LenProperties, TickingFinite, ConstantsAssumption DEF IInv, Types
  <2>2. Len(decided) <= MaxCalls
    <3>1. Len(decided) + Cardinality(Ticking) <= MaxCalls
      BY <2>1 DEF Bounds
    <3> QED BY <2>1, <3>1
  <2>3. bucket.tokens \in 0 .. Capacity
    BY <2>1 DEF Types, Bounds
  <2> QED BY <2>1, <2>2, <2>3 DEF TypeOK, Types, Bounds, Wrap, Capacity
<1> QED BY <1>1, Invariance, PTL

\* A gate lets a call pass exactly when its promise allows it, for every statement,
\* any interleaving of the threads, and readings of the clock of any age: EVERY_N
\* the multiples of n, FIRST_N the first n, EVERY_N_SEC and _MS what is a period
\* later, BURST what the refilled bucket has a token for.
THEOREM PromisesKept == Spec => []DecisionsAsPromised
<1>1. ASSUME IInv PROVE DecisionsAsPromised
  <2>1. DOMAIN decided = 1 .. Len(decided)
    BY <1>1, LenProperties DEF IInv, Types
  <2> QED BY <1>1, <2>1 DEF IInv, Right, DecisionsAsPromised
<1> QED BY <1>1, Invariance, PTL

-----------------------------------------------------------------------------
(***************************************************************************)
(* The activations of a statement and its pool                             *)
(***************************************************************************)
Sequence(s) == \E D : s \in Seq(D)

\* An activation has the fields of one; what Rendered puts into them is open.
Fields == {"st", "sec", "pos", "pro", "slots", "pool", "prev", "sink", "nested", "dirty"}
Shape(f) == f = [x \in Fields |-> f[x]]

Shapes ==
    /\ Sequence(frames)
    /\ \A d \in 1 .. Depth : /\ Shape(frames[d]) /\ Sequence(frames[d].slots)
                             /\ frames[d].st \in First \cup Nested

\* c is the innermost of the first n activations that has a pool up, or 0.
Innermost(c, n) ==
    /\ c \in {0} \cup Drawing /\ c <= n
    /\ \A d \in Drawing : d <= n => d <= c

\* What each pool will leave behind when it is given back is the innermost of
\* those below it.
PoolInv ==
    /\ Innermost(ctx, Depth)
    /\ \A d \in Drawing : Innermost(frames[d].prev, d - 1)

\* StatementTypeOK without what PoolInv says of the pointer.
StatementTypes ==
    /\ cachedSec \in Secs \cup {-1} /\ cachedStr = cachedSec
    /\ ops \in 0 .. MaxOps
    /\ \A d \in 1 .. Depth : /\ frames[d].sink \in 0 .. Sinks
                             /\ frames[d].pool \in 0 .. PoolSize(frames[d].st)
                             /\ Len(frames[d].slots) \in 0 .. Len(frames[d].st.args)

StatementInv == Shapes /\ StatementTypes /\ PoolInv

\* Pushing, replacing the last one, and popping.
LEMMA Pushed ==
  ASSUME NEW s, NEW x, Sequence(s)
  PROVE  /\ Sequence(Append(s, x)) /\ Len(s) \in Nat
         /\ Len(Append(s, x)) = Len(s) + 1
         /\ \A d \in 1 .. Len(s) : Append(s, x)[d] = s[d]
         /\ Append(s, x)[Len(s) + 1] = x
<1>1. PICK D : s \in Seq(D) BY DEF Sequence
<1>2. s \in Seq(D \cup {x}) BY <1>1
<1>3. /\ Append(s, x) \in Seq(D \cup {x}) /\ Len(s) \in Nat
      /\ Len(Append(s, x)) = Len(s) + 1
      /\ \A d \in 1 .. Len(s) : Append(s, x)[d] = s[d]
      /\ Append(s, x)[Len(s) + 1] = x
  BY <1>2, AppendProperties, LenProperties
<1> QED BY <1>3 DEF Sequence

Updated(s, k, x) == [s EXCEPT ![k] = x]

LEMMA Replaced ==
  ASSUME NEW s, NEW x, NEW k \in 1 .. Len(s), Sequence(s)
  PROVE  /\ Sequence(Updated(s, k, x)) /\ Len(s) \in Nat /\ Len(Updated(s, k, x)) = Len(s)
         /\ \A d \in 1 .. Len(s) : Updated(s, k, x)[d] = IF d = k THEN x ELSE s[d]
<1>1. PICK D : s \in Seq(D) BY DEF Sequence
<1>2. s \in Seq(D \cup {x}) BY <1>1
<1>3. /\ Updated(s, k, x) \in Seq(D \cup {x}) /\ Len(s) \in Nat
      /\ Len(Updated(s, k, x)) = Len(s)
      /\ \A d \in 1 .. Len(s) : Updated(s, k, x)[d] = IF d = k THEN x ELSE s[d]
  BY <1>2, ExceptSeq, LenProperties DEF Updated
<1> QED BY <1>3 DEF Sequence

LEMMA Popped ==
  ASSUME NEW s, Sequence(s), NEW n \in 0 .. Len(s)
  PROVE  /\ Sequence(SubSeq(s, 1, n)) /\ Len(SubSeq(s, 1, n)) = n
         /\ \A d \in 1 .. n : SubSeq(s, 1, n)[d] = s[d]
<1>1. PICK D : s \in Seq(D) BY DEF Sequence
<1>2. Len(s) \in Nat /\ \A d \in 1 .. n : s[d] \in D BY <1>1, LenProperties
<1>3. /\ SubSeq(s, 1, n) \in Seq(D) /\ Len(SubSeq(s, 1, n)) = IF 1 <= n THEN n - 1 + 1 ELSE 0
      /\ \A d \in 1 .. n - 1 + 1 : SubSeq(s, 1, n)[d] = s[1 + d - 1]
  BY <1>2, SubSeqProperties
<1> QED BY <1>2, <1>3 DEF Sequence

-----------------------------------------------------------------------------
(* What the steps do to the invariant                                      *)

LEMMA StatementInitially == StatementInit => StatementInv
<1> SUFFICES ASSUME StatementInit PROVE StatementInv OBVIOUS
<1>1. Sequence(frames) /\ Depth = 0
  <2>1. <<>> \in Seq({}) /\ Len(<<>>) = 0 OBVIOUS
  <2> QED BY <2>1 DEF Sequence, StatementInit, Depth
<1>2. Drawing = {} /\ ctx = 0 BY <1>1 DEF Drawing, StatementInit
<1>3. MaxOps \in Nat BY StatementAssumption
<1> QED BY <1>1, <1>2, <1>3 DEF StatementInv, Shapes, StatementTypes, PoolInv, Innermost,
                                StatementInit

\* A step that leaves each activation its statement and its place.
LEMMA SameActivations ==
  ASSUME StatementInv, Sequence(frames'), Len(frames') = Depth,
         \A d \in 1 .. Depth :
           /\ Shape(frames'[d]) /\ Sequence(frames'[d].slots)
           /\ frames'[d].st = frames[d].st /\ frames'[d].prev = frames[d].prev
           /\ frames'[d].sink \in 0 .. Sinks
           /\ (frames'[d].sink = 0) = (frames[d].sink = 0)
           /\ Len(frames'[d].slots) \in 0 .. Len(frames[d].st.args)
           /\ frames'[d].pool \in 0 .. PoolSize(frames[d].st),
         ctx' = ctx, cachedSec' = cachedSec, cachedStr' = cachedStr, ops' = ops
  PROVE  StatementInv'
<1>1. Depth' = Depth BY DEF Depth
<1>2. Drawing' = Drawing BY <1>1 DEF Drawing
<1>3. Shapes' BY <1>1 DEF StatementInv, Shapes
<1>4. StatementTypes' BY <1>1 DEF StatementInv, StatementTypes
<1>5. \A d \in Drawing : d \in 1 .. Depth BY DEF Drawing
<1>6. PoolInv' BY <1>1, <1>2, <1>5 DEF StatementInv, PoolInv, Innermost
<1> QED BY <1>3, <1>4, <1>6 DEF StatementInv

LEMMA EnterKeeps ==
  ASSUME StatementInv, NEW st \in First \cup Nested, Enter(st), ops' \in 0 .. MaxOps
  PROVE  StatementInv'
<1>1. PICK sec, f :
        /\ sec \in Secs /\ cachedSec' = sec /\ cachedStr' = SecShown(sec)
        /\ ctx' = IF Packs(st) THEN Depth + 1 ELSE ctx
        /\ frames' = Append(frames, f)
        /\ f.st = st /\ f.slots = <<>> /\ f.pool = 0 /\ f.prev = ctx /\ f.sink = 0
        /\ Shape(f)
  BY DEF Enter, Shape, Fields
<1>2. /\ Sequence(frames') /\ Depth \in Nat /\ Depth' = Depth + 1
      /\ \A d \in 1 .. Depth : frames'[d] = frames[d]
      /\ frames'[Depth + 1] = f
  BY <1>1, Pushed DEF StatementInv, Shapes, Depth
<1>3. Depth + 1 \in 1 .. Depth' /\ \A d \in 1 .. Depth' : d \in 1 .. Depth \/ d = Depth + 1
  BY <1>2
<1>4. \A d \in 1 .. Depth : d \in 1 .. Depth' /\ d # Depth + 1 BY <1>2
<1>5. Shapes'
  <2>1. Sequence(<<>>) BY DEF Sequence
  <2>2. ASSUME NEW d \in 1 .. Depth'
        PROVE  (/\ Shape(frames[d]) /\ Sequence(frames[d].slots)
                /\ frames[d].st \in First \cup Nested)'
    BY <1>1, <1>2, <1>3, <2>1 DEF StatementInv, Shapes, Shape
  <2> QED BY <1>2, <2>2 DEF Shapes
<1>6. StatementTypes'
  <2>1. Len(<<>>) = 0 /\ Len(st.args) \in Nat /\ Sinks \in Nat /\ PackMax \in Nat
    BY StatementAssumption
  <2>2. PoolSize(st) \in Nat BY <2>1 DEF PoolSize
  <2>3. cachedSec' \in Secs \cup {-1} /\ cachedStr' = cachedSec'
    BY <1>1 DEF StatementInv, StatementTypes, SecShown
  <2>4. ASSUME NEW d \in 1 .. Depth'
        PROVE  (/\ frames[d].sink \in 0 .. Sinks
                /\ frames[d].pool \in 0 .. PoolSize(frames[d].st)
                /\ Len(frames[d].slots) \in 0 .. Len(frames[d].st.args))'
    <3>1. CASE d \in 1 .. Depth
      BY <1>2, <3>1 DEF StatementInv, StatementTypes, PoolSize
    <3>2. CASE d = Depth + 1
      <4>1. frames'[d] = f BY <1>2, <3>2
      <4> QED BY <1>1, <2>1, <2>2, <4>1 DEF PoolSize
    <3> QED BY <1>3, <3>1, <3>2
  <2> QED BY <2>3, <2>4 DEF StatementTypes
<1>7. Drawing' = Drawing \cup (IF Packs(st) THEN {Depth + 1} ELSE {})
  <2>1. \A d \in 1 .. Depth : d \in Drawing' <=> d \in Drawing
    BY <1>2, <1>4 DEF Drawing
  <2>2. Depth + 1 \in Drawing' <=> Packs(st)
    BY <1>1, <1>2, <1>3 DEF Drawing
  <2>3. Drawing' \subseteq 1 .. Depth' /\ Drawing \subseteq 1 .. Depth BY DEF Drawing
  <2> QED BY <1>3, <1>4, <2>1, <2>2, <2>3
<1>8. \A d \in Drawing : d \in 1 .. Depth /\ d # Depth + 1 BY <1>4 DEF Drawing
<1>9. PoolInv'
  <2>1. ctx \in Nat /\ ctx <= Depth BY <1>2, <1>8 DEF StatementInv, PoolInv, Innermost
  <2>2. Innermost(ctx, Depth)'
    BY <1>1, <1>2, <1>7, <1>8, <2>1 DEF StatementInv, PoolInv, Innermost
  <2>3. ASSUME NEW d \in Drawing' PROVE Innermost(frames[d].prev, d - 1)'
    <3>1. CASE d \in Drawing
      BY <1>2, <1>7, <1>8, <3>1 DEF StatementInv, PoolInv, Innermost
    <3>2. CASE d = Depth + 1
      <4>1. frames'[d] = f BY <1>2, <3>2
      <4>2. frames'[d].prev = ctx BY <1>1, <4>1
      <4>3. d - 1 = Depth BY <1>2, <3>2
      <4>4. Innermost(ctx, Depth) BY DEF StatementInv, PoolInv
      <4> QED BY <1>2, <1>7, <1>8, <2>1, <4>2, <4>3, <4>4 DEF Innermost
    <3> QED BY <1>7, <1>8, <3>1, <3>2
  <2> QED BY <2>2, <2>3 DEF PoolInv
<1> QED BY <1>5, <1>6, <1>9 DEF StatementInv

\* Setting a field leaves the others.
LEMMA FieldSet ==
  ASSUME NEW f, Shape(f), NEW n \in Fields, NEW y
  PROVE  /\ Shape(Updated(f, n, y))
         /\ \A x \in Fields : Updated(f, n, y)[x] = IF x = n THEN y ELSE f[x]
<1>1. DOMAIN f = Fields BY DEF Shape
<1>2. Updated(f, n, y) = [x \in Fields |-> IF x = n THEN y ELSE f[x]] BY <1>1 DEF Updated
<1> QED BY <1>2 DEF Shape

\* An activation whose cursor and slots have moved on.
Extended(f, p, iovs) ==
    Updated(Updated(f, "pos", p), "slots", Append(f.slots, iovs))

LEMMA ExtendedFields ==
  ASSUME NEW f, Shape(f), NEW p, NEW iovs
  PROVE  /\ Shape(Extended(f, p, iovs)) /\ Extended(f, p, iovs).st = f.st
         /\ Extended(f, p, iovs).prev = f.prev /\ Extended(f, p, iovs).sink = f.sink
         /\ Extended(f, p, iovs).pool = f.pool
         /\ Extended(f, p, iovs).slots = Append(f.slots, iovs)
<1> DEFINE g == Updated(f, "pos", p)
<1>0. "pos" \in Fields /\ "slots" \in Fields BY DEF Fields
<1>1. Shape(g) /\ \A x \in Fields : g[x] = IF x = "pos" THEN p ELSE f[x]
  BY <1>0, FieldSet
<1> HIDE DEF g
<1>2. /\ Shape(Updated(g, "slots", Append(f.slots, iovs)))
      /\ \A x \in Fields : Updated(g, "slots", Append(f.slots, iovs))[x] =
                             IF x = "slots" THEN Append(f.slots, iovs) ELSE g[x]
  BY <1>0, <1>1, FieldSet
<1>3. Extended(f, p, iovs) = Updated(g, "slots", Append(f.slots, iovs)) BY DEF Extended, g
<1> QED BY <1>1, <1>2, <1>3 DEF Fields

LEMMA TopIsThere ==
  ASSUME StatementInv, frames # <<>>
  PROVE  /\ Depth \in 1 .. Depth /\ Shape(Top) /\ Sequence(Top.slots)
         /\ Top.st \in First \cup Nested
         /\ Top.sink \in 0 .. Sinks /\ Len(Top.slots) \in 0 .. Len(Top.st.args)
<1>1. PICK D : frames \in Seq(D) BY DEF StatementInv, Shapes, Sequence
<1>2. Depth \in Nat /\ Depth # 0 BY <1>1, EmptySeq, LenProperties DEF Depth
<1>3. Depth \in 1 .. Depth BY <1>2
<1> QED BY <1>3 DEF StatementInv, Shapes, StatementTypes, Top

\* An argument has been rendered; pools is frames with what has been drawn.
LEMMA StoreKeeps ==
  ASSUME StatementInv, Rendering, NEW m, NEW iovs, NEW pools, Store(m, iovs, pools),
         Sequence(pools), Len(pools) = Depth,
         \A d \in 1 .. Depth :
           /\ Shape(pools[d]) /\ pools[d].slots = frames[d].slots
           /\ pools[d].st = frames[d].st /\ pools[d].prev = frames[d].prev
           /\ pools[d].sink = frames[d].sink
           /\ pools[d].pool \in 0 .. PoolSize(frames[d].st)
  PROVE  StatementInv'
<1>1. /\ Depth \in 1 .. Depth /\ Sequence(Top.slots)
      /\ Len(Top.slots) \in 0 .. Len(Top.st.args) /\ Top.st \in First \cup Nested
      /\ Len(Top.slots) < Len(Top.st.args)
  BY TopIsThere DEF Rendering
<1> DEFINE t   == pools[Depth]
           new == Extended(t, m.pos, iovs)
<1>2. Shape(t) /\ t.slots = Top.slots /\ t.st = Top.st BY <1>1 DEF Top
<1>3. /\ Shape(new) /\ new.st = t.st /\ new.prev = t.prev /\ new.sink = t.sink
      /\ new.pool = t.pool /\ new.slots = Append(t.slots, iovs)
  BY <1>2, ExtendedFields
<1>4. frames' = Updated(pools, Depth, new) BY DEF Store, Updated, Extended
<1>5. /\ Sequence(frames') /\ Len(frames') = Depth
      /\ \A d \in 1 .. Depth : frames'[d] = IF d = Depth THEN new ELSE pools[d]
  <2> HIDE DEF new
  <2>1. Depth \in 1 .. Len(pools) BY <1>1
  <2>2. /\ Sequence(frames') /\ Len(frames') = Len(pools)
        /\ \A d \in 1 .. Len(pools) : frames'[d] = IF d = Depth THEN new ELSE pools[d]
    BY <1>4, <2>1, Replaced
  <2> QED BY <2>2
<1>6. /\ Sequence(new.slots)
      /\ Len(new.slots) \in 0 .. Len(Top.st.args)
  <2>1. Len(Top.st.args) \in Nat BY <1>1, StatementAssumption
  <2>2. Sequence(Append(Top.slots, iovs)) /\ Len(Append(Top.slots, iovs)) = Len(Top.slots) + 1
    BY <1>1, Pushed
  <2>3. new.slots = Append(Top.slots, iovs) BY <1>2, <1>3
  <2> HIDE DEF new
  <2> QED BY <1>1, <2>1, <2>2, <2>3
<1>7. ASSUME NEW d \in 1 .. Depth
      PROVE  /\ Shape(frames'[d]) /\ Sequence(frames'[d].slots)
             /\ frames'[d].st = frames[d].st /\ frames'[d].prev = frames[d].prev
             /\ frames'[d].sink = frames[d].sink
             /\ Len(frames'[d].slots) \in 0 .. Len(frames[d].st.args)
             /\ frames'[d].pool \in 0 .. PoolSize(frames[d].st)
  <2> HIDE DEF new
  <2>1. CASE d = Depth BY <1>1, <1>3, <1>5, <1>6, <2>1 DEF Top
  <2>2. CASE d # Depth BY <1>5, <2>2 DEF StatementInv, Shapes, StatementTypes
  <2> QED BY <2>1, <2>2
<1>8. \A d \in 1 .. Depth : frames[d].sink \in 0 .. Sinks
  BY DEF StatementInv, StatementTypes
<1> HIDE DEF new
<1> QED BY <1>5, <1>7, <1>8, SameActivations DEF Store

\* One activation gets another value in one field.
Altered(k, n, y) == Updated(frames, k, Updated(frames[k], n, y))

LEMMA OneField ==
  ASSUME StatementInv, NEW k \in 1 .. Depth, NEW n \in Fields, NEW y
  PROVE  /\ Sequence(Altered(k, n, y)) /\ Len(Altered(k, n, y)) = Depth
         /\ \A d \in 1 .. Depth :
              /\ Shape(Altered(k, n, y)[d])
              /\ \A x \in Fields :
                   Altered(k, n, y)[d][x] = IF d = k /\ x = n THEN y ELSE frames[d][x]
<1> DEFINE g == Updated(frames[k], n, y)
<1>1. Shape(g) /\ \A x \in Fields : g[x] = IF x = n THEN y ELSE frames[k][x]
  BY FieldSet DEF StatementInv, Shapes
<1> HIDE DEF g
<1>2. /\ Sequence(Updated(frames, k, g)) /\ Len(Updated(frames, k, g)) = Depth
      /\ \A d \in 1 .. Depth : Updated(frames, k, g)[d] = IF d = k THEN g ELSE frames[d]
  BY Replaced DEF Depth, StatementInv, Shapes
<1>3. Altered(k, n, y) = Updated(frames, k, g) BY DEF g, Altered
<1> QED BY <1>1, <1>2, <1>3 DEF StatementInv, Shapes

LEMMA RenderArgKeeps ==
  ASSUME StatementInv, RenderArg
  PROVE  StatementInv'
<1>1. PICK r : Store(r.m, <<r.iov>>, frames)
  BY DEF RenderArg
<1>2. Sequence(frames) /\ Len(frames) = Depth
  BY DEF StatementInv, Shapes, Depth
<1>3. \A d \in 1 .. Depth : Shape(frames[d]) /\ frames[d].pool \in 0 .. PoolSize(frames[d].st)
  BY DEF StatementInv, Shapes, StatementTypes
<1> QED BY <1>1, <1>2, <1>3, StoreKeeps DEF RenderArg

\* While its arguments are rendered a statement with a pack owns the pool in use.
LEMMA OwnPool ==
  ASSUME StatementInv, Rendering, Packs(Top.st)
  PROVE  ctx = Depth
<1>1. Depth \in 1 .. Depth BY TopIsThere DEF Rendering
<1>2. Depth \in Drawing BY <1>1 DEF Rendering, Drawing, Top
<1>3. ctx <= Depth /\ Depth <= ctx BY <1>1, <1>2 DEF StatementInv, PoolInv, Innermost
<1>4. ctx \in Int BY <1>1 DEF StatementInv, PoolInv, Innermost, Drawing
<1> QED BY <1>1, <1>3, <1>4

\* The argument that is next is one of the statement's.
LEMMA ArgIsThere ==
  ASSUME StatementInv, Rendering
  PROVE  /\ Len(Top.slots) + 1 \in DOMAIN Top.st.args
         /\ Arg.kind = "pack" => Packs(Top.st) /\ Len(Arg.parts) \in Nat
         /\ Arg.kind = "logs" => Arg.stmt \in Nested
<1>1. /\ Top.st \in First \cup Nested /\ Len(Top.slots) \in 0 .. Len(Top.st.args)
      /\ Len(Top.slots) < Len(Top.st.args)
  BY TopIsThere DEF Rendering
<1>2. Len(Top.slots) + 1 \in DOMAIN Top.st.args BY <1>1, StatementAssumption
<1> QED BY <1>1, <1>2, StatementAssumption DEF Arg, Packs

LEMMA RenderPackKeeps ==
  ASSUME StatementInv, RenderPack
  PROVE  StatementInv'
<1> DEFINE n == Len(Arg.parts)
<1>1. Rendering /\ Packs(Top.st) /\ n \in Nat BY ArgIsThere DEF RenderPack
<1>2. ctx = Depth /\ Depth \in 1 .. Depth BY <1>1, OwnPool, TopIsThere DEF Rendering
<1>3. Sequence(frames) /\ Len(frames) = Depth
  BY DEF StatementInv, Shapes, Depth
<1>4. \A d \in 1 .. Depth : Shape(frames[d]) /\ frames[d].pool \in 0 .. PoolSize(frames[d].st)
  BY DEF StatementInv, Shapes, StatementTypes
<1>5. CASE \E m, iovs : Store(m, iovs, frames)
  BY <1>1, <1>3, <1>4, <1>5, StoreKeeps
<1>6. ASSUME NEW m, NEW iovs, Allocates(n),
             Store(m, iovs, [frames EXCEPT ![ctx].pool = @ + n])
      PROVE  StatementInv'
  <2> DEFINE r == [frames EXCEPT ![ctx].pool = @ + n]
             y == frames[Depth].pool + n
  <2>1. r = Altered(Depth, "pool", y) BY <1>2 DEF Altered, Updated
  <2>2. y \in 0 .. PoolSize(frames[Depth].st)
    <3>1. frames[Depth].pool \in Nat /\ y <= PoolSize(frames[Depth].st)
      BY <1>2, <1>4, <1>6 DEF Allocates
    <3> QED BY <1>1, <1>4, <3>1
  <2>3. "pool" \in Fields BY DEF Fields
  <2> HIDE DEF r, y, n
  <2>4. /\ Sequence(r) /\ Len(r) = Depth
        /\ \A d \in 1 .. Depth :
             /\ Shape(r[d])
             /\ \A x \in Fields : r[d][x] = IF d = Depth /\ x = "pool" THEN y ELSE frames[d][x]
    BY <1>2, <2>1, <2>3, OneField
  <2>5. \A d \in 1 .. Depth :
          /\ Shape(r[d]) /\ r[d].slots = frames[d].slots /\ r[d].st = frames[d].st
          /\ r[d].prev = frames[d].prev /\ r[d].sink = frames[d].sink
          /\ r[d].pool \in 0 .. PoolSize(frames[d].st)
    BY <1>4, <2>2, <2>4 DEF Fields
  <2>6. Store(m, iovs, r) BY <1>6 DEF r, n
  <2> QED BY <1>1, <2>4, <2>5, <2>6, StoreKeeps
<1> QED BY <1>5, <1>6 DEF RenderPack

LEMMA RenderAfterLoggingKeeps ==
  ASSUME StatementInv, RenderAfterLogging
  PROVE  StatementInv'
<1>1. PICK m, iovs : Store(m, iovs, Altered(Depth, "nested", FALSE))
  BY DEF RenderAfterLogging, Altered, Updated
<1> DEFINE no == FALSE
           r  == Altered(Depth, "nested", no)
<1>2. Rendering /\ Depth \in 1 .. Depth BY TopIsThere DEF RenderAfterLogging, Rendering
<1>3. "nested" \in Fields BY DEF Fields
<1> HIDE DEF no
<1>4. /\ Sequence(r) /\ Len(r) = Depth
      /\ \A d \in 1 .. Depth :
           /\ Shape(r[d])
           /\ \A x \in Fields : r[d][x] = IF d = Depth /\ x = "nested" THEN no ELSE frames[d][x]
  BY <1>2, <1>3, OneField
<1>5. \A d \in 1 .. Depth : frames[d].pool \in 0 .. PoolSize(frames[d].st)
  BY DEF StatementInv, StatementTypes
<1>6. \A d \in 1 .. Depth :
        /\ Shape(r[d]) /\ r[d].slots = frames[d].slots /\ r[d].st = frames[d].st
        /\ r[d].prev = frames[d].prev /\ r[d].sink = frames[d].sink
        /\ r[d].pool \in 0 .. PoolSize(frames[d].st)
  <2> HIDE DEF r
  <2> QED BY <1>4, <1>5 DEF Fields
<1> HIDE DEF r
<1> QED BY <1>1, <1>2, <1>4, <1>6, StoreKeeps DEF r, no

\* The pool is given back: what was innermost below it is innermost again.
LEMMA AssembleKeeps ==
  ASSUME StatementInv, Assemble
  PROVE  StatementInv'
<1> DEFINE r == Altered(Depth, "sink", 1)
<1>1. frames' = r BY DEF Assemble, Altered, Updated
<1>2. Depth \in 1 .. Depth /\ Top.sink = 0 BY TopIsThere DEF Assemble
<1>3. "sink" \in Fields BY DEF Fields
<1>4. /\ Sequence(r) /\ Len(r) = Depth
      /\ \A d \in 1 .. Depth :
           /\ Shape(r[d])
           /\ \A x \in Fields : r[d][x] = IF d = Depth /\ x = "sink" THEN 1 ELSE frames[d][x]
  BY <1>2, <1>3, OneField
<1> HIDE DEF r
<1>5. Sequence(frames') /\ Depth' = Depth BY <1>1, <1>4 DEF Depth
<1>6. \A d \in 1 .. Depth :
        /\ Shape(frames'[d]) /\ frames'[d].slots = frames[d].slots
        /\ frames'[d].st = frames[d].st /\ frames'[d].prev = frames[d].prev
        /\ frames'[d].pool = frames[d].pool
        /\ frames'[d].sink = IF d = Depth THEN 1 ELSE frames[d].sink
  BY <1>1, <1>4 DEF Fields
<1>7. Shapes' BY <1>5, <1>6 DEF StatementInv, Shapes
<1>8. StatementTypes'
  BY <1>5, <1>6, StatementAssumption DEF StatementInv, StatementTypes, Assemble
<1>9. Drawing' = Drawing \ {Depth}
  BY <1>2, <1>5, <1>6 DEF Drawing
<1>10. Packs(Top.st) <=> Depth \in Drawing
  BY <1>2 DEF Drawing, Top
<1>11. \A d \in Drawing : d \in 1 .. Depth BY DEF Drawing
<1>12. PoolInv'
  <2>1. Innermost(ctx, Depth)'
    <3>1. CASE Packs(Top.st)
      <4>1. ctx' = frames[Depth].prev BY <3>1 DEF Assemble, Restored, Top
      <4>2. Innermost(frames[Depth].prev, Depth - 1)
        BY <1>10, <3>1 DEF StatementInv, PoolInv
      <4> QED BY <1>2, <1>5, <1>9, <1>11, <4>1, <4>2 DEF Innermost
    <3>2. CASE ~Packs(Top.st)
      <4>1. ctx' = ctx /\ Drawing' = Drawing BY <1>9, <1>10, <3>2 DEF Assemble
      <4> QED BY <1>5, <4>1 DEF StatementInv, PoolInv, Innermost
    <3> QED BY <3>1, <3>2
  <2>2. ASSUME NEW d \in Drawing' PROVE Innermost(frames[d].prev, d - 1)'
    <3>1. d \in Drawing /\ d # Depth /\ d \in 1 .. Depth BY <1>9, <1>11
    <3>2. Innermost(frames[d].prev, d - 1) BY <3>1 DEF StatementInv, PoolInv
    <3>3. frames'[d].prev = frames[d].prev BY <1>6, <3>1
    <3> QED BY <1>2, <1>9, <1>11, <3>1, <3>2, <3>3 DEF Innermost
  <2> QED BY <2>1, <2>2 DEF PoolInv
<1> QED BY <1>7, <1>8, <1>12 DEF StatementInv

\* A step that leaves the open pools and the pointer alone.
LEMMA SamePools ==
  ASSUME StatementInv, Drawing' = Drawing, ctx' = ctx, Depth' \in Nat, ctx <= Depth',
         \A d \in Drawing : d <= Depth' /\ frames'[d].prev = frames[d].prev
  PROVE  PoolInv'
<1>1. \A d \in Drawing : d \in 1 .. Depth BY DEF Drawing
<1>2. Innermost(ctx, Depth)' BY <1>1 DEF StatementInv, PoolInv, Innermost
<1>3. ASSUME NEW d \in Drawing PROVE Innermost(frames[d].prev, d - 1)'
  BY <1>1 DEF StatementInv, PoolInv, Innermost
<1> QED BY <1>2, <1>3 DEF PoolInv

LEMMA SinkReadsKeeps ==
  ASSUME StatementInv, SinkReads
  PROVE  StatementInv'
<1>1. /\ Depth \in 1 .. Depth /\ Top.sink \in 1 .. Sinks /\ ctx' = ctx
      /\ cachedSec' = cachedSec /\ cachedStr' = cachedStr /\ ops' = ops /\ Sinks \in Nat
  BY TopIsThere, StatementAssumption DEF SinkReads
<1>2. \A d \in Drawing : d \in 1 .. Depth /\ d # Depth BY <1>1 DEF Drawing, Top
<1>3. ctx \in Nat /\ ctx <= Depth - 1
  BY <1>1, <1>2 DEF StatementInv, PoolInv, Innermost
<1>4. CASE Top.sink < Sinks
  <2> DEFINE y == Top.sink + 1
             r == Altered(Depth, "sink", y)
  <2>1. frames' = r BY <1>4 DEF SinkReads, Altered, Updated, Top
  <2>2. "sink" \in Fields /\ y \in 1 .. Sinks BY <1>1, <1>4 DEF Fields
  <2> HIDE DEF y
  <2>3. /\ Sequence(r) /\ Len(r) = Depth
        /\ \A d \in 1 .. Depth :
             /\ Shape(r[d])
             /\ \A x \in Fields : r[d][x] = IF d = Depth /\ x = "sink" THEN y ELSE frames[d][x]
    BY <1>1, <2>2, OneField
  <2> HIDE DEF r
  <2>4. \A d \in 1 .. Depth :
          /\ Shape(frames'[d]) /\ frames'[d].slots = frames[d].slots
          /\ frames'[d].st = frames[d].st /\ frames'[d].prev = frames[d].prev
          /\ frames'[d].pool = frames[d].pool
          /\ frames'[d].sink = IF d = Depth THEN y ELSE frames[d].sink
    BY <2>1, <2>3 DEF Fields
  <2>5. \A d \in 1 .. Depth :
          /\ Sequence(frames[d].slots) /\ frames[d].sink \in 0 .. Sinks
          /\ Len(frames[d].slots) \in 0 .. Len(frames[d].st.args)
          /\ frames[d].pool \in 0 .. PoolSize(frames[d].st)
    BY DEF StatementInv, Shapes, StatementTypes
  <2>6. ASSUME NEW d \in 1 .. Depth
        PROVE  /\ frames'[d].sink \in 0 .. Sinks
               /\ (frames'[d].sink = 0) = (frames[d].sink = 0)
    <3>1. CASE d = Depth
      <4>1. frames'[d].sink = y /\ frames[d].sink = Top.sink BY <2>4, <3>1 DEF Top
      <4>2. y \in 0 .. Sinks /\ y # 0 /\ Top.sink # 0 BY <1>1, <2>2
      <4> QED BY <4>1, <4>2
    <3>2. CASE d # Depth BY <2>4, <2>5, <3>2
    <3> QED BY <3>1, <3>2
  <2> QED BY <1>1, <2>1, <2>3, <2>4, <2>5, <2>6, SameActivations
<1>5. CASE ~(Top.sink < Sinks) /\ Depth = 1
  <2>1. frames' = <<>> BY <1>5 DEF SinkReads, Leave
  <2>2. Sequence(frames') /\ Depth' = 0
    <3>1. <<>> \in Seq({}) /\ Len(<<>>) = 0 OBVIOUS
    <3> QED BY <2>1, <3>1 DEF Sequence, Depth
  <2>3. Drawing = {} /\ Drawing' = {} BY <1>2, <1>5, <2>2 DEF Drawing
  <2>4. PoolInv' BY <1>1, <1>3, <1>5, <2>2, <2>3, SamePools
  <2> QED BY <1>1, <2>2, <2>4 DEF StatementInv, Shapes, StatementTypes
<1>6. CASE ~(Top.sink < Sinks) /\ Depth # 1
  <2> DEFINE low == SubSeq(frames, 1, Depth - 1)
             k   == Depth - 1
             yes == TRUE
             g   == Updated(low[k], "nested", yes)
             y   == Max2(g.dirty, Extent(Top))
             h   == Updated(g, "dirty", y)
  <2>1. k \in 1 .. Depth /\ k \in 1 .. k /\ k \in 0 .. Depth BY <1>1, <1>6
  <2>2. /\ Sequence(low) /\ Len(low) = k /\ \A d \in 1 .. k : low[d] = frames[d]
    BY <2>1, Popped DEF StatementInv, Shapes, Depth
  <2>3. frames' = Updated(low, k, h)
    BY <1>6, <2>1, <2>2 DEF SinkReads, Leave, Updated
  <2>4. /\ Shape(h) /\ h.slots = low[k].slots /\ h.st = low[k].st /\ h.prev = low[k].prev
        /\ h.pool = low[k].pool /\ h.sink = low[k].sink
    <3>1. "nested" \in Fields /\ "dirty" \in Fields BY DEF Fields
    <3>2. Shape(low[k]) BY <2>1, <2>2 DEF StatementInv, Shapes
    <3> HIDE DEF yes, low, k
    <3>3. Shape(g) /\ \A x \in Fields : g[x] = IF x = "nested" THEN yes ELSE low[k][x]
      BY <3>1, <3>2, FieldSet
    <3> HIDE DEF g, y
    <3>4. Shape(h) /\ \A x \in Fields : h[x] = IF x = "dirty" THEN y ELSE g[x]
      BY <3>1, <3>3, FieldSet
    <3> HIDE DEF h
    <3> QED BY <3>3, <3>4 DEF Fields
  <2> HIDE DEF h, low
  <2>5. /\ Sequence(frames') /\ Depth' = k
        /\ \A d \in 1 .. k : frames'[d] = IF d = k THEN h ELSE low[d]
    BY <2>1, <2>2, <2>3, Replaced DEF Depth
  <2>6. ASSUME NEW d \in 1 .. k
        PROVE  /\ d \in 1 .. Depth /\ Shape(frames'[d]) /\ frames'[d].slots = frames[d].slots
               /\ frames'[d].st = frames[d].st /\ frames'[d].prev = frames[d].prev
               /\ frames'[d].pool = frames[d].pool /\ frames'[d].sink = frames[d].sink
    <3>1. d \in 1 .. Depth /\ low[d] = frames[d] BY <1>1, <2>2
    <3>2. CASE d = k
      <4>1. frames'[d] = h /\ low[k] = frames[d] BY <2>5, <3>1, <3>2
      <4> QED BY <2>4, <3>1, <4>1
    <3>3. CASE d # k
      <4>1. frames'[d] = frames[d] BY <2>5, <3>1, <3>3
      <4> QED BY <3>1, <4>1 DEF StatementInv, Shapes
    <3> QED BY <3>2, <3>3
  <2>7. Shapes' BY <2>5, <2>6 DEF StatementInv, Shapes
  <2>8. StatementTypes' BY <1>1, <2>5, <2>6 DEF StatementInv, StatementTypes
  <2>9. \A d \in Drawing : d \in 1 .. k BY <1>1, <1>2
  <2>10. Drawing' = Drawing BY <2>5, <2>6, <2>9 DEF Drawing
  <2>11. PoolInv' BY <1>1, <1>3, <2>1, <2>5, <2>6, <2>9, <2>10, SamePools
  <2> QED BY <2>7, <2>8, <2>11 DEF StatementInv
<1> QED BY <1>4, <1>5, <1>6

LEMMA StatementKept == StatementInv /\ [StatementNext]_statementVars => StatementInv'
<1> SUFFICES ASSUME StatementInv, [StatementNext]_statementVars PROVE StatementInv' OBVIOUS
<1>1. ASSUME NEW st \in First \cup Nested, Log(st) PROVE StatementInv'
  <2>1. ops' \in 0 .. MaxOps
    BY <1>1, StatementAssumption DEF Log, StatementInv, StatementTypes
  <2> QED BY <1>1, <2>1, EnterKeeps DEF Log
<1>2. ASSUME NEW st \in First \cup Nested, LogDisabled(st) PROVE StatementInv'
  <2>1. ops' \in 0 .. MaxOps
    BY <1>2, StatementAssumption DEF LogDisabled, StatementInv, StatementTypes
  <2> QED BY <1>2, <2>1 DEF LogDisabled, StatementInv, Shapes, StatementTypes, PoolInv, Innermost,
                           Drawing, Depth
<1>3. ASSUME RendererLogs PROVE StatementInv'
  <2>1. Arg.stmt \in First \cup Nested BY <1>3, ArgIsThere DEF RendererLogs
  <2>2. ops' \in 0 .. MaxOps BY <1>3 DEF RendererLogs, StatementInv, StatementTypes
  <2> QED BY <1>3, <2>1, <2>2, EnterKeeps DEF RendererLogs
<1>4. ASSUME NEW st \in Nested, SinkLogs(st) PROVE StatementInv'
  <2>1. ops' \in 0 .. MaxOps BY <1>4 DEF SinkLogs, StatementInv, StatementTypes
  <2> QED BY <1>4, <2>1, EnterKeeps DEF SinkLogs
<1>5. CASE UNCHANGED statementVars
  BY <1>5 DEF statementVars, StatementInv, Shapes, StatementTypes, PoolInv, Innermost, Drawing, Depth
<1> QED BY <1>1, <1>2, <1>3, <1>4, <1>5, RenderArgKeeps, RenderPackKeeps, RenderAfterLoggingKeeps,
           AssembleKeeps, SinkReadsKeeps DEF StatementNext, Done

\* The invariant holds in every reachable state, whatever the renderers do to
\* memory and cursor.
THEOREM StatementInvariance == StatementSpec => []StatementInv
BY StatementInitially, StatementKept, PTL DEF StatementSpec

\* The thread's pool pointer never refers to a statement that is over, or to one
\* that is not the innermost with a pool up: emit_f() gives the pointer back as it
\* found it, in every nesting of renderers and sinks that log.
THEOREM PoolPointerSound == StatementSpec => []PoolOfInnermost
<1>1. ASSUME StatementInv PROVE PoolOfInnermost
  <2>1. \A d \in Drawing : d <= Depth BY DEF Drawing
  <2> QED BY <1>1, <2>1 DEF StatementInv, PoolInv, Innermost, PoolOfInnermost
<1> QED BY <1>1, StatementInvariance, PTL

\* No statement fills more slots than it has arguments or draws more of its pool
\* than the pool has, with any statements nested to any depth, and the pool in use
\* is the innermost.
THEOREM StatementTypeCorrect == StatementSpec => []StatementTypeOK
<1>1. StatementInv /\ PoolOfInnermost => StatementTypeOK
  BY DEF StatementInv, StatementTypes, StatementTypeOK
<1> QED BY <1>1, StatementInvariance, PoolPointerSound, PTL

=============================================================================
