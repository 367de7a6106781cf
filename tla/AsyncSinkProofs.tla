--------------------------- MODULE AsyncSinkProofs ---------------------------
(***************************************************************************)
(* Theorems about AsyncSink for any threads, capacity and number of calls. *)
(* Everything rests on one balance: what was accepted is what has been     *)
(* delivered, then the item in the worker's hands, then the queue.         *)
(***************************************************************************)
EXTENDS AsyncSink, SequenceLemmas

Lines == 1 .. MaxWrites

\* The ranges TypeOK does not name.
Shapes ==
    /\ hand \in Lines \cup {NULL}
    /\ writes \in 0 .. MaxWrites
    /\ flushes \in Nat /\ covered \in Nat
    /\ begun \in [Threads -> Nat]
    /\ accepted \in Seq(Lines) /\ delivered \in Seq(Lines)

\* Nothing accepted is lost, doubled or reordered between queue and inner sink.
Balance == accepted = delivered \o InHand \o q

\* The destructor and the exit of the process find no thread in a call, and the
\* worker ends only when nothing is left.
EndInv ==
    /\ life # "used" => \A t \in Threads : pc[t] = "idle"
    /\ worker = "ended" => stop /\ q = <<>>
    /\ life = "gone" => worker = "ended"

\* A flush() covers no more than was accepted when it began.
FlushInv == \A t \in Threads : begun[t] <= Len(accepted)

IInv == TypeOK /\ Shapes /\ Balance /\ EndInv /\ FlushInv /\ FlushLagsByOne

-----------------------------------------------------------------------------

\* The greater of two numbers.
LEMMA MaxOfTwo ==
  ASSUME NEW a \in Nat, NEW b \in Nat
  PROVE  Max({a, b}) = IF a >= b THEN a ELSE b
BY DEF Max

\* What the worker holds is a sequence of at most one line.
LEMMA InHandType ==
  ASSUME hand \in Lines \cup {NULL}
  PROVE  InHand \in Seq(Lines) /\ Len(InHand) <= 1
<1>1. CASE hand = NULL
  BY <1>1 DEF InHand
<1>2. CASE hand \in Lines /\ hand # NULL
  BY <1>2 DEF InHand
<1> QED BY <1>1, <1>2

\* The invariant holds before the first call, the worker waiting.
LEMMA Initially == Init => IInv
<1> SUFFICES ASSUME Init PROVE IInv OBVIOUS
<1> USE ConstantsAssumption DEF Init
<1>1. TypeOK
  <2>1. stop \in BOOLEAN /\ (stop <=> life \in {"stopping", "joining", "gone"}) OBVIOUS
  <2>2. hand # NULL <=> worker \in {"write", "writelast"} OBVIOUS
  <2>3. /\ q \in Seq(1 .. MaxWrites) /\ Len(q) <= Cap
        /\ dropped \in 0 .. MaxWrites
        /\ writes = Len(accepted) + dropped
        /\ covered <= Len(accepted)
    OBVIOUS
  <2> QED BY <2>1 DEF TypeOK
<1>2. Shapes BY DEF Shapes, Lines
<1>3. Balance BY DEF Balance, InHand
<1>4. EndInv BY DEF EndInv
<1>5. FlushInv BY DEF FlushInv
<1>6. FlushLagsByOne BY DEF FlushLagsByOne
<1> QED BY <1>1, <1>2, <1>3, <1>4, <1>5, <1>6 DEF IInv

\* What waits, the item in the worker's hands first: a line that write() accepts
\* joins it at the end.
LEMMA AcceptEffect ==
  ASSUME IInv, NEW t \in Threads, Write(t), ~Full
  PROVE  /\ InHand' \o q' = Append(InHand \o q, writes + 1)
         /\ accepted' = Append(accepted, writes + 1)
         /\ writes + 1 \in Lines
<1>1. writes + 1 \in Lines
  BY ConstantsAssumption DEF IInv, Write, Shapes, Lines
<1>2. InHand \in Seq(Lines) /\ q \in Seq(Lines) /\ <<writes + 1>> \in Seq(Lines)
  BY <1>1, InHandType DEF IInv, TypeOK, Shapes, Lines
<1>3. InHand' = InHand /\ q' = Append(q, writes + 1) /\ accepted' = Append(accepted, writes + 1)
  BY DEF Write, InHand
<1>4. q' = q \o <<writes + 1>>
  BY <1>3
<1>5. Append(InHand \o q, writes + 1) = (InHand \o q) \o <<writes + 1>>
  BY <1>1
<1>6. (InHand \o q) \o <<writes + 1>> = InHand \o (q \o <<writes + 1>>)
  BY <1>2, ConcatAssociative
<1> QED BY <1>1, <1>3, <1>4, <1>5, <1>6

\* Taking the front item out of the queue leaves what waits as it is.
LEMMA TakeEffect ==
  ASSUME IInv, Take
  PROVE  InHand' \o q' = InHand \o q
<1>1. hand = NULL /\ InHand = <<>> /\ q \in Seq(Lines)
  BY DEF IInv, Take, TypeOK, InHand, Lines
<1>2. CASE q' = q /\ hand' = hand
  BY <1>2 DEF InHand
<1>3. CASE q # <<>> /\ hand' = Head(q) /\ q' = Tail(q)
  <2>1. Head(q) \in Lines /\ <<Head(q)>> \o Tail(q) = q
    BY <1>1, <1>3
  <2>2. InHand' = <<Head(q)>>
    BY <1>3, <2>1, ConstantsAssumption DEF InHand, Lines
  <2> QED BY <1>1, <1>3, <2>2
<1> QED BY <1>2, <1>3 DEF Take

\* The call of the inner sink delivers the first of what waits.
LEMMA ReplayEffect ==
  ASSUME IInv, Replay
  PROVE  /\ InHand \o q # <<>>
         /\ hand = Head(InHand \o q)
         /\ InHand' \o q' = Tail(InHand \o q)
         /\ delivered' = Append(delivered, hand)
<1>1. /\ hand \in Lines /\ q \in Seq(Lines) /\ q' = q
      /\ InHand = <<hand>> /\ InHand' = <<>> /\ delivered' = Append(delivered, hand)
  BY DEF IInv, Replay, TypeOK, Shapes, InHand, Lines
<1>2. \A x \in Lines : Head(<<x>> \o q) = x /\ Tail(<<x>> \o q) = q /\ <<x>> \o q # <<>>
  BY <1>1, ConsProperties
<1> QED BY <1>1

\* write().
LEMMA WriteStep ==
  ASSUME IInv, NEW t \in Threads, Write(t)
  PROVE  IInv'
<1>0. writes \in Nat /\ writes' = writes + 1 /\ writes + 1 \in Lines /\ MaxWrites \in Nat
  BY ConstantsAssumption DEF IInv, Write, Shapes, Lines
<1>1. TypeOK'
  <2>1. CASE Full
    <3>1. dropped' = dropped + 1 /\ UNCHANGED <<q, accepted, pc>>
      BY <2>1 DEF Write
    <3> QED BY <1>0, <3>1 DEF IInv, Write, TypeOK
  <2>2. CASE ~Full
    <3>1. Len(q) + 1 <= Cap /\ Len(q) \in Nat
      BY <2>2, ConstantsAssumption DEF Full
    <3>2. q' \in Seq(Lines) /\ Len(q') = Len(q) + 1
      <4>1. q \in Seq(Lines) BY DEF IInv, TypeOK, Lines
      <4>2. Append(q, writes + 1) \in Seq(Lines) /\ Len(Append(q, writes + 1)) = Len(q) + 1
        BY <1>0, <4>1
      <4> QED BY <2>2, <4>2 DEF Write
    <3>3. Len(accepted') = Len(accepted) + 1 /\ dropped' = dropped /\ Len(accepted) \in Nat
      BY <2>2 DEF Write
    <3>4. covered' <= Len(accepted')
      BY DEF IInv, Write, TypeOK, Shapes
    <3>5. q' \in Seq(1 .. MaxWrites) /\ Len(q') <= Cap
      BY <3>1, <3>2 DEF Lines
    <3>6. writes' = Len(accepted') + dropped' /\ dropped' \in 0 .. MaxWrites
      BY <1>0, <3>3 DEF IInv, TypeOK
    <3>7. pc' \in [Threads -> {"idle", "notify", "flush", "sleep"}]
      BY DEF IInv, Write, TypeOK
    <3> QED BY <3>4, <3>5, <3>6 DEF IInv, Write, TypeOK
  <2> QED BY <2>1, <2>2
<1>2. Shapes'
  <2>1. accepted' \in Seq(Lines)
    <3>1. Append(accepted, writes + 1) \in Seq(Lines)
      BY <1>0 DEF IInv, Shapes
    <3> QED BY <3>1 DEF IInv, Write, Shapes
  <2> QED BY <1>0, <2>1 DEF IInv, Write, Shapes
<1>3. Balance'
  <2>1. CASE Full
    BY <2>1 DEF IInv, Write, Balance, InHand
  <2>2. CASE ~Full
    <3>1. delivered \in Seq(Lines) /\ InHand \in Seq(Lines) /\ q \in Seq(Lines)
      BY InHandType DEF IInv, TypeOK, Shapes, Lines
    <3>2. <<writes + 1>> \in Seq(Lines) /\ delivered \o InHand \in Seq(Lines)
      BY <1>0, <3>1
    <3>3. Append(q, writes + 1) = q \o <<writes + 1>>
      BY <1>0
    <3>4. Append(accepted, writes + 1) = accepted \o <<writes + 1>>
      BY <1>0
    <3>5. ((delivered \o InHand) \o q) \o <<writes + 1>>
            = (delivered \o InHand) \o (q \o <<writes + 1>>)
      BY <3>1, <3>2, ConcatAssociative
    <3> QED BY <3>3, <3>4, <3>5 DEF IInv, Write, Balance, InHand
  <2> QED BY <2>1, <2>2
<1>4. EndInv'
  BY DEF IInv, Write, EndInv, TypeOK
<1>5. FlushInv'
  BY ConstantsAssumption DEF IInv, Lines, history, Write, Full, FlushInv, TypeOK, Shapes
<1>6. FlushLagsByOne'
  BY DEF IInv, Write, FlushLagsByOne
<1> QED BY <1>1, <1>2, <1>3, <1>4, <1>5, <1>6 DEF IInv

\* write() notifies the worker.
LEMMA NotifyStep ==
  ASSUME IInv, NEW t \in Threads, Notify(t)
  PROVE  IInv'
<1>1. TypeOK'
  BY DEF IInv, history, Notify, Woken, TypeOK
<1>2. Shapes'
  BY DEF IInv, history, Notify, Shapes
<1>3. Balance'
  BY DEF IInv, history, Notify, Balance, InHand
<1>4. EndInv'
  BY DEF IInv, Notify, Woken, EndInv
<1>5. FlushInv'
  BY DEF IInv, history, Notify, FlushInv
<1>6. FlushLagsByOne'
  BY DEF IInv, history, Notify, FlushLagsByOne
<1> QED BY <1>1, <1>2, <1>3, <1>4, <1>5, <1>6 DEF IInv

\* flush() begins.
LEMMA FlushStep ==
  ASSUME IInv, NEW t \in Threads, Flush(t)
  PROVE  IInv'
<1>1. TypeOK'
  BY DEF IInv, Flush, TypeOK
<1>2. Shapes'
  BY DEF IInv, Flush, Shapes
<1>3. Balance'
  BY DEF IInv, Flush, Balance, InHand
<1>4. EndInv'
  BY DEF IInv, Flush, EndInv
<1>5. FlushInv'
  BY DEF IInv, Flush, FlushInv
<1>6. FlushLagsByOne'
  BY DEF IInv, Flush, FlushLagsByOne
<1> QED BY <1>1, <1>2, <1>3, <1>4, <1>5, <1>6 DEF IInv

\* flush() tests its predicate.
LEMMA TestFlushStep ==
  ASSUME IInv, NEW t \in Threads, TestFlush(t)
  PROVE  IInv'
<1>0. Max({covered, begun[t]}) = IF covered >= begun[t] THEN covered ELSE begun[t]
  <2>1. covered \in Nat /\ begun[t] \in Nat
    BY DEF IInv, Shapes
  <2> QED BY <2>1, MaxOfTwo
<1>1. TypeOK'
  BY <1>0 DEF IInv, TestFlush, TypeOK, FlushInv
<1>2. Shapes'
  BY <1>0 DEF IInv, TestFlush, Shapes
<1>3. Balance'
  BY DEF IInv, TestFlush, Balance, InHand
<1>4. EndInv'
  BY DEF IInv, TestFlush, EndInv
<1>5. FlushInv'
  BY DEF IInv, TestFlush, FlushInv
<1>6. FlushLagsByOne'
  <2>1. CASE Flushable
    <3>1. Len(accepted) <= Len(delivered) + 1
      <4>1. delivered \in Seq(Lines) /\ InHand \in Seq(Lines) /\ Len(InHand) <= 1
        BY InHandType DEF IInv, Shapes
      <4>2. accepted = delivered \o InHand
        BY <2>1 DEF IInv, Balance, Flushable
      <4> QED BY <4>1, <4>2
    <3>2. Len(accepted) \in Nat /\ Len(delivered) \in Nat
      BY DEF IInv, Shapes
    <3> QED BY <1>0, <3>1 DEF IInv, TestFlush, FlushLagsByOne, FlushInv, Shapes
  <2>2. CASE ~Flushable
    BY <2>2 DEF IInv, TestFlush, FlushLagsByOne
  <2> QED BY <2>1, <2>2
<1> QED BY <1>1, <1>2, <1>3, <1>4, <1>5, <1>6 DEF IInv

\* The worker takes the next line.
LEMMA TakeStep ==
  ASSUME IInv, Take
  PROVE  IInv'
<1>0. q # <<>> => /\ <<Head(q)>> \o Tail(q) = q
                  /\ Head(q) \in Lines /\ Tail(q) \in Seq(Lines)
                  /\ Len(Tail(q)) = Len(q) - 1 /\ Len(q) \in Nat
  BY HeadThenTail, LenProperties DEF IInv, TypeOK, Lines
<1>1. TypeOK'
  <2>1. q' \in Seq(1 .. MaxWrites) /\ Len(q') <= Cap
    <3>1. CASE q' = q
      BY <3>1 DEF IInv, TypeOK
    <3>2. CASE q # <<>> /\ q' = Tail(q)
      BY <3>2, ConstantsAssumption DEF IInv, TypeOK
    <3> QED BY <3>1, <3>2 DEF Take
  <2>2. hand' # NULL <=> worker' \in {"write", "writelast"}
    BY <1>0, ConstantsAssumption DEF IInv, Take, TypeOK
  <2> QED BY <2>1, <2>2 DEF IInv, Take, TypeOK, history
<1>2. Shapes'
  BY <1>0 DEF IInv, Take, Shapes, history
<1>3. Balance'
  <2>1. hand = NULL
    BY DEF IInv, Take, TypeOK
  <2>2. CASE q' = q /\ hand' = hand
    BY <2>2 DEF IInv, Take, Balance, InHand, history
  <2>3. CASE q # <<>> /\ hand' = Head(q) /\ q' = Tail(q)
    <3>1. delivered \in Seq(Lines) /\ q \in Seq(Lines)
      BY DEF IInv, TypeOK, Shapes, Lines
    <3>2. delivered \o (<<Head(q)>> \o Tail(q)) = delivered \o <<Head(q)>> \o Tail(q)
      BY <2>3, ConcatAssociative
    <3>3. accepted = delivered \o q
      BY <2>1 DEF IInv, Balance, InHand
    <3>4. InHand' = <<Head(q)>>
      BY <1>0, <2>3, ConstantsAssumption DEF InHand, Lines
    <3> QED BY <1>0, <2>3, <3>2, <3>3, <3>4 DEF Take, Balance, history
  <2> QED BY <2>2, <2>3 DEF Take
<1>4. EndInv'
  BY DEF IInv, Take, Leaves, EndInv
<1>5. FlushInv'
  BY DEF IInv, history, Take, FlushInv
<1>6. FlushLagsByOne'
  BY DEF IInv, history, Take, FlushLagsByOne
<1> QED BY <1>1, <1>2, <1>3, <1>4, <1>5, <1>6 DEF IInv

\* The worker writes the line to the inner sink.
LEMMA ReplayStep ==
  ASSUME IInv, Replay
  PROVE  IInv'
<1>1. TypeOK'
  BY DEF IInv, Replay, TypeOK
<1>2. Shapes'
  BY DEF IInv, Replay, Shapes, TypeOK
<1>3. Balance'
  <2>1. hand \in Lines /\ InHand = <<hand>> /\ InHand' = <<>>
    BY DEF IInv, Replay, TypeOK, Shapes, InHand
  <2> QED BY <2>1, MoveOne DEF IInv, Replay, TypeOK, Shapes, Balance, Lines
<1>4. EndInv'
  BY DEF IInv, Replay, EndInv
<1>5. FlushInv'
  BY DEF IInv, Replay, FlushInv
<1>6. FlushLagsByOne'
  BY DEF IInv, Replay, FlushLagsByOne, Shapes
<1> QED BY <1>1, <1>2, <1>3, <1>4, <1>5, <1>6 DEF IInv

\* The worker notifies flush().
LEMMA NotifyDoneStep ==
  ASSUME IInv, NotifyDone
  PROVE  IInv'
<1>1. TypeOK'
  BY DEF IInv, history, NotifyDone, TypeOK
<1>2. Shapes'
  BY DEF IInv, history, NotifyDone, Shapes
<1>3. Balance'
  BY DEF IInv, history, NotifyDone, Balance, InHand
<1>4. EndInv'
  BY DEF IInv, NotifyDone, EndInv
<1>5. FlushInv'
  BY DEF IInv, history, NotifyDone, FlushInv
<1>6. FlushLagsByOne'
  BY DEF IInv, history, NotifyDone, FlushLagsByOne
<1> QED BY <1>1, <1>2, <1>3, <1>4, <1>5, <1>6 DEF IInv

\* The end of the sink, but for join().
LEMMA EndStep ==
  ASSUME IInv, Stop \/ NotifyStop \/ Exit
  PROVE  IInv'
<1>1. TypeOK'
  <2>1. stop' \in BOOLEAN /\ (stop' <=> life' \in {"stopping", "joining", "gone"})
    <3>1. CASE Stop
      BY <3>1 DEF Stop
    <3>2. CASE NotifyStop
      BY <3>2 DEF IInv, NotifyStop, TypeOK
    <3>3. CASE Exit
      BY <3>3 DEF IInv, Exit, TypeOK
    <3> QED BY <3>1, <3>2, <3>3
  <2>2. hand' # NULL <=> worker' \in {"write", "writelast"}
    BY DEF IInv, Stop, NotifyStop, Exit, Woken, TypeOK
  <2> QED BY <2>1 DEF IInv, Stop, NotifyStop, Exit, Woken, history, TypeOK, Ended
<1>2. Shapes'
  BY DEF IInv, history, Stop, NotifyStop, Exit, Shapes
<1>3. Balance'
  BY DEF IInv, history, Stop, NotifyStop, Exit, Balance, InHand
<1>4. EndInv'
  BY DEF IInv, Stop, NotifyStop, Exit, Woken, EndInv
<1>5. FlushInv'
  BY DEF IInv, history, Stop, NotifyStop, Exit, FlushInv
<1>6. FlushLagsByOne'
  BY DEF IInv, history, Stop, NotifyStop, Exit, FlushLagsByOne
<1> QED BY <1>1, <1>2, <1>3, <1>4, <1>5, <1>6 DEF IInv

\* join() and drain().
LEMMA JoinStep ==
  ASSUME IInv, Join
  PROVE  IInv'
<1>1. TypeOK'
  BY ConstantsAssumption DEF IInv, Join, TypeOK, Ended
<1>2. Shapes'
  BY DEF IInv, Lines, Join, Drained, Shapes, TypeOK
<1>3. Balance'
  BY DEF IInv, Join, Drained, Balance, InHand, TypeOK
<1>4. EndInv'
  BY DEF IInv, Join, EndInv
<1>5. FlushInv'
  BY DEF IInv, Join, FlushInv
<1>6. FlushLagsByOne'
  BY DEF IInv, Join, Drained, FlushLagsByOne, Shapes
<1> QED BY <1>1, <1>2, <1>3, <1>4, <1>5, <1>6 DEF IInv

-----------------------------------------------------------------------------

\* Every step of a thread, the worker, the destructor or the exit keeps the invariant.
LEMMA Preservation == IInv /\ [Next]_vars => IInv'
<1> SUFFICES ASSUME IInv, [Next]_vars PROVE IInv' OBVIOUS
<1>1. CASE UNCHANGED vars
  BY <1>1 DEF vars, history, IInv, TypeOK, Shapes, Balance, InHand, EndInv, FlushInv,
     FlushLagsByOne
<1>2. CASE \E t \in Threads : Write(t) \/ Flush(t) \/ Return(t)
  BY <1>2, WriteStep, FlushStep, NotifyStep, TestFlushStep DEF Return
<1>3. CASE RunWorker
  BY <1>3, TakeStep, ReplayStep, NotifyDoneStep DEF RunWorker
<1>4. CASE End
  BY <1>4, EndStep, JoinStep DEF End
<1> QED BY <1>1, <1>2, <1>3, <1>4 DEF Next, Over

\* The inductive invariant holds in every reachable state.
LEMMA Invariance == Spec => []IInv
<1> QED BY Initially, Preservation, PTL DEF Spec

\* For any threads, capacity and number of calls: the queue never exceeds its
\* capacity, the worker has an item exactly while it writes one, and every
\* write() is either accepted or counted as dropped.
THEOREM TypeCorrect == Spec => []TypeOK
<1>1. IInv => TypeOK BY DEF IInv
<1> QED BY <1>1, Invariance, PTL

\* Whatever a returned flush() covers has been written to the inner sink, but for
\* the one line in the worker's hands.
THEOREM FlushGuarantee == Spec => []FlushLagsByOne
<1>1. IInv => FlushLagsByOne BY DEF IInv
<1> QED BY <1>1, Invariance, PTL

\* What the destructor owes, liveness apart.
Delivered == life = "gone" => delivered = accepted

\* When the destructor is through, every accepted line has been written to the
\* inner sink once and in order.
THEOREM GoneIsDelivered == Spec => []Delivered
<1>1. ASSUME IInv, life = "gone" PROVE delivered = accepted
  <2>1. q = <<>> /\ InHand = <<>> /\ delivered \in Seq(Lines)
    BY <1>1 DEF IInv, EndInv, TypeOK, Shapes, InHand
  <2> QED BY <1>1, <2>1 DEF IInv, Balance
<1> QED BY <1>1, Invariance, PTL DEF Delivered

\* The sink implements the lossy queue: each step is one of the queue's, with the
\* item in the worker's hands counted among those that wait, or invisible to it.
THEOREM ImplementsQueue == Spec => QueueSpec
<1>1. Init => Queue!Init
  BY DEF Init, InHand, Queue!Init
<1> DEFINE Kept == IF life = "exited" THEN <<>> ELSE InHand \o q
           Queued == <<Kept, delivered, dropped, life # "exited">>
<1>2. ASSUME IInv, [Next]_vars PROVE [Queue!Next]_Queued
  <2> USE <1>2 DEF IInv
  <2>1. ASSUME NEW t \in Threads, Write(t) PROVE Queue!Next
    <3>1. life = "used" /\ life' = life
      BY <2>1 DEF Write
    <3>2. CASE Full
      <4>1. InHand \in Seq(Lines) /\ q \in Seq(Lines) /\ Len(q) >= Cap
        BY <3>2, InHandType DEF TypeOK, Shapes, Lines, Full
      <4>2. Len(InHand \o q) >= Cap
        BY <4>1, ConstantsAssumption
      <4>3. Kept' = Kept /\ delivered' = delivered /\ dropped' = dropped + 1
        BY <2>1, <3>2 DEF Write, InHand
      <4> QED BY <3>1, <4>2, <4>3 DEF Queue!Next, Queue!Refuse
    <3>3. CASE ~Full
      <4>1. Kept' = Append(Kept, writes + 1) /\ writes + 1 \in 1 .. MaxWrites
        BY <2>1, <3>1, <3>3, AcceptEffect DEF Lines
      <4>2. delivered' = delivered /\ dropped' = dropped
        BY <2>1, <3>3 DEF Write
      <4> QED BY <3>1, <4>1, <4>2 DEF Queue!Next, Queue!Accept
    <3> QED BY <3>2, <3>3
  <2>2. ASSUME Replay, life # "exited" PROVE Queue!Next
    <3>1. life' = life /\ dropped' = dropped
      BY <2>2 DEF Replay
    <3> QED BY <2>2, <3>1, ReplayEffect DEF Queue!Next, Queue!Deliver
  <2>3. ASSUME Exit PROVE Queue!Next
    BY <2>3 DEF Exit, Queue!Next, Queue!Die, history
  <2>4. ASSUME NEW t \in Threads, Flush(t) \/ Return(t) PROVE UNCHANGED Queued
    BY <2>4 DEF Flush, Return, Notify, TestFlush, history, InHand
  <2>5. ASSUME Take PROVE UNCHANGED Queued
    BY <2>5, TakeEffect DEF Take, history
  <2>6. ASSUME NotifyDone \/ Stop \/ NotifyStop PROVE UNCHANGED Queued
    BY <2>6 DEF NotifyDone, Stop, NotifyStop, history, InHand
  <2>7. ASSUME Join PROVE UNCHANGED Queued
    <3>1. q = <<>> /\ delivered \in Seq(Lines)
      BY <2>7 DEF Join, EndInv, Shapes
    <3> QED BY <2>7, <3>1 DEF Join, Drained, InHand
  <2>8. ASSUME UNCHANGED vars PROVE UNCHANGED Queued
    BY <2>8 DEF vars, history, InHand
  <2> HIDE DEF Queued, Kept
  <2> QED BY <2>1, <2>2, <2>3, <2>4, <2>5, <2>6, <2>7, <2>8 DEF Next, RunWorker, End, Over
<1> QED BY <1>1, <1>2, Invariance, PTL DEF Spec, QueueSpec, Queue!Spec

=============================================================================
