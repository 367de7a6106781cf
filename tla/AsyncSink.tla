------------------------------ MODULE AsyncSink ------------------------------
(***************************************************************************)
(* The asynchronous sink of src/examples/async_sink_skeleton.cpp: a        *)
(* bounded queue, a worker thread that replays it to the inner sink, two   *)
(* condition variables and the destructor.                                 *)
(*                                                                         *)
(* One action is one critical section of mu_, one notification, or one     *)
(* call of the inner sink.  A thread that waits for a condition variable   *)
(* stands at "sleep" until it is notified.  Spurious wake-ups only repeat  *)
(* the test of the predicate and are left out.                             *)
(*                                                                         *)
(* Who destroys the sink: the owner of its logger ("scoped"), or nobody,   *)
(* when it was added to default_logger() as main() of the example does     *)
(* ("leaked"); then the worker dies with the process.                      *)
(***************************************************************************)
EXTENDS Naturals, Sequences, FiniteSets, SequencesExt

CONSTANTS
    Threads,    \* threads that log to the sink or flush it
    Cap,        \* queue_cap
    Owners,     \* subset of {"scoped", "leaked"}
    MaxWrites,  \* bound: write() calls
    MaxFlushes, \* bound: flush() calls
    NULL        \* no item

ASSUME ConstantsAssumption ==
    /\ Cap \in Nat \ {0}
    /\ Owners \subseteq {"scoped", "leaked"}
    /\ MaxWrites \in Nat /\ MaxFlushes \in Nat
    /\ NULL \notin Nat

VARIABLES
    owner,      \* who destroys the sink
    q,          \* q_
    stop,       \* stop_
    dropped,    \* dropped_
    pc,         \* pc[t]: thread t in write() or flush()
    worker,     \* the worker thread in run()
    hand,       \* the item the worker has popped, or NULL
    life,       \* the sink: "used", then its destructor, then "gone" or "exited"
    writes,     \* write() calls so far; the number of a call is its line
    flushes,    \* flush() calls so far
    begun,      \* history: begun[t], lines accepted before t's flush() began
    accepted,   \* history: the lines that entered the queue
    delivered,  \* history: the lines written to the inner sink
    covered     \* history: how many accepted lines a returned flush() covers

history == <<writes, flushes, begun, accepted, delivered, covered>>
vars == <<owner, q, stop, dropped, pc, worker, hand, life, history>>

Init ==
    /\ owner \in Owners
    /\ q = <<>> /\ stop = FALSE /\ dropped = 0
    /\ pc = [t \in Threads |-> "idle"]
    /\ worker = "test" /\ hand = NULL
    /\ life = "used"
    /\ writes = 0 /\ flushes = 0
    /\ begun = [t \in Threads |-> 0]
    /\ accepted = <<>> /\ delivered = <<>> /\ covered = 0

Ended == {"gone", "exited"}

-----------------------------------------------------------------------------
(* A definition named after a fault, placed before the one it deviates     *)
(* from, is that definition with a plausible bug; nothing here uses it.    *)
(* The threads that use the sink                                           *)

FullIgnored == FALSE
FullEarly == Len(q) >= Cap - 1
Full == Len(q) >= Cap

\* write(): the line is flattened into a string of its own, then queued or
\* dropped under the mutex.
Write(t) ==
    /\ life = "used" /\ pc[t] = "idle"
    /\ writes < MaxWrites
    /\ writes' = writes + 1
    /\ IF Full
       THEN dropped' = dropped + 1 /\ UNCHANGED <<q, accepted, pc>>
       ELSE /\ q' = Append(q, writes + 1)
            /\ accepted' = Append(accepted, writes + 1)
            /\ pc' = [pc EXCEPT ![t] = "notify"]
            /\ UNCHANGED dropped
    /\ UNCHANGED <<owner, stop, worker, hand, life, flushes, begun, delivered, covered>>

\* cv_.notify_one() or notify_all(): the worker is the only one that waits.
WokenNever == worker
Woken == IF worker = "sleep" THEN "test" ELSE worker

Notify(t) ==
    /\ pc[t] = "notify"
    /\ worker' = Woken
    /\ pc' = [pc EXCEPT ![t] = "idle"]
    /\ UNCHANGED <<owner, q, stop, dropped, hand, life, history>>

Flush(t) ==
    /\ life = "used" /\ pc[t] = "idle"
    /\ flushes < MaxFlushes
    /\ flushes' = flushes + 1
    /\ begun' = [begun EXCEPT ![t] = Len(accepted)]
    /\ pc' = [pc EXCEPT ![t] = "flush"]
    /\ UNCHANGED <<owner, q, stop, dropped, worker, hand, life, writes, accepted,
                   delivered, covered>>

\* The predicate flush() waits for.
FlushableAlways == TRUE
Flushable == q = <<>>

\* The test of the predicate and, when it holds, the flush of the inner sink.
TestFlush(t) ==
    /\ pc[t] = "flush"
    /\ pc' = [pc EXCEPT ![t] = IF Flushable THEN "idle" ELSE "sleep"]
    /\ covered' = IF Flushable THEN Max({covered, begun[t]}) ELSE covered
    /\ UNCHANGED <<owner, q, stop, dropped, worker, hand, life, writes, flushes,
                   begun, accepted, delivered>>

-----------------------------------------------------------------------------
(* The worker                                                              *)

\* The loop of run() leaves when it is told to stop and has nothing left.
LeavesNever == FALSE
Leaves == q = <<>> /\ stop

Take ==
    /\ worker = "test"
    /\ IF Leaves THEN worker' = "ended" /\ UNCHANGED <<q, hand>>
       ELSE IF q = <<>> THEN worker' = "sleep" /\ UNCHANGED <<q, hand>>
       ELSE /\ hand' = Head(q)
            /\ q' = Tail(q)
            /\ worker' = IF Tail(q) = <<>> THEN "writelast" ELSE "write"
    /\ UNCHANGED <<owner, stop, dropped, pc, life, history>>

\* The write to the inner sink, outside of the mutex.
Replay ==
    /\ worker \in {"write", "writelast"}
    /\ delivered' = Append(delivered, hand)
    /\ hand' = NULL
    /\ worker' = IF worker = "writelast" THEN "done" ELSE "test"
    /\ UNCHANGED <<owner, q, stop, dropped, pc, life, writes, flushes, begun,
                   accepted, covered>>

\* cv_done_.notify_all(), when the queue was empty after the pop.
NotifyDone ==
    /\ worker = "done"
    /\ worker' = "test"
    /\ pc' = [t \in Threads |-> IF pc[t] = "sleep" THEN "flush" ELSE pc[t]]
    /\ UNCHANGED <<owner, q, stop, dropped, hand, life, history>>

-----------------------------------------------------------------------------
(* The end of the sink                                                     *)

\* The destructor may begin when no thread uses the sink any more.
Stop ==
    /\ life = "used" /\ owner = "scoped"
    /\ \A t \in Threads : pc[t] = "idle"
    /\ stop' = TRUE
    /\ life' = "stopping"
    /\ UNCHANGED <<owner, q, dropped, pc, worker, hand, history>>

NotifyStop ==
    /\ life = "stopping"
    /\ worker' = Woken
    /\ life' = "joining"
    /\ UNCHANGED <<owner, q, stop, dropped, pc, hand, history>>

\* join() returns when the worker has ended; drain() writes what is left.
Drained == delivered \o q
Join ==
    /\ life = "joining" /\ worker = "ended"
    /\ delivered' = Drained
    /\ q' = <<>>
    /\ life' = "gone"
    /\ UNCHANGED <<owner, stop, dropped, pc, worker, hand, writes, flushes, begun,
                   accepted, covered>>

\* main() returns and nobody destroys the sink.
Exit ==
    /\ life = "used" /\ owner = "leaked"
    /\ \A t \in Threads : pc[t] = "idle"
    /\ life' = "exited"
    /\ UNCHANGED <<owner, q, stop, dropped, pc, worker, hand, history>>

Over == life \in Ended /\ UNCHANGED vars

RunWorker == life # "exited" /\ (Take \/ Replay \/ NotifyDone)
Return(t) == Notify(t) \/ TestFlush(t)
End == Stop \/ NotifyStop \/ Join \/ Exit

Next ==
    \/ \E t \in Threads : Write(t) \/ Flush(t) \/ Return(t)
    \/ RunWorker \/ End \/ Over

Spec == Init /\ [][Next]_vars

\* The scheduler runs the worker and every thread inside a call; the program
\* ends.
FairSpec ==
    /\ Spec
    /\ WF_vars(RunWorker) /\ WF_vars(End)
    /\ \A t \in Threads : WF_vars(Return(t))

-----------------------------------------------------------------------------
(* Properties                                                              *)

\* Type invariant; the queue keeps its capacity and the worker its item.
TypeOK ==
    /\ owner \in Owners
    /\ q \in Seq(1 .. MaxWrites) /\ Len(q) <= Cap
    /\ stop \in BOOLEAN /\ (stop <=> life \in {"stopping", "joining", "gone"})
    /\ dropped \in 0 .. MaxWrites
    /\ pc \in [Threads -> {"idle", "notify", "flush", "sleep"}]
    /\ worker \in {"test", "sleep", "write", "writelast", "done", "ended"}
    /\ hand # NULL <=> worker \in {"write", "writelast"}
    /\ life \in {"used", "stopping", "joining"} \cup Ended
    /\ writes = Len(accepted) + dropped
    /\ covered <= Len(accepted)

\* The sink is a lossy queue: a line is dropped only when Cap lines wait, each
\* accepted one reaches the inner sink once and in the order of acceptance,
\* through worker or drain(), and only the end of the process loses any.
InHand == IF hand = NULL THEN <<>> ELSE <<hand>>
Queue == INSTANCE LossyQueue WITH
            Lines <- 1 .. MaxWrites,
            Room <- Cap,
            waiting <- IF life = "exited" THEN <<>> ELSE InHand \o q,
            refused <- dropped,
            alive <- life # "exited"
QueueSpec == Queue!Spec

\* What a returned flush() guarantees: every line accepted before the call has
\* been written to the inner sink, except the one the worker may hold in its
\* hands; the guarantee is no stronger because the worker writes outside of
\* the mutex, and it survives an exit of the process.
FlushLagsByOne == Len(delivered) >= covered - 1

\* No wake-up is lost: a flush() returns once the threads stop refilling the
\* queue, whichever of them notifies, empties and tests in which order.
FlushReturns == \A t \in Threads : pc[t] = "flush" ~> pc[t] = "idle"

\* An orderly end delivers: the destructor of an owned sink returns, and then
\* every accepted line has been written.
EndsDelivered ==
    owner = "scoped" => <>(life = "gone" /\ delivered = accepted)

=============================================================================
