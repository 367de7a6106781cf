----------------------------- MODULE DedupProofs -----------------------------
(***************************************************************************)
(* Theorems about Dedup for any number of threads, call sites, loggers and *)
(* operations.  The inductive invariant IInv says where a thread's pc,     *)
(* its statement, the registry mutex and the counters must agree; the      *)
(* properties that the runs check follow from it.                          *)
(***************************************************************************)
EXTENDS Dedup, TLAPS

\* The points of tick(); flush_summary() may belong to tick() or flush_all().
TickPCs == {"construct", "gate", "check", "suppress", "swap", "emit"}
SummaryPCs == {"take", "summarize"}

\* A thread executes a statement exactly while it has a call.
CallInv ==
    \A t \in Threads :
        /\ pc[t] \in TickPCs => call[t] # NULL
        /\ pc[t] \in {"idle", "loop", "clear", "loggerflush"} => call[t] = NULL
        /\ t \in storing => pc[t] \in {"check", "suppress", "swap"}

\* The registry mutex is held exactly inside flush_all().
MutexInv ==
    \A t \in Threads :
        /\ pc[t] \in {"loop", "clear"} => mu = t
        /\ pc[t] \in SummaryPCs => (mu = t <=> call[t] = NULL)
        /\ mu = t => pc[t] \in {"loop", "clear"} \cup SummaryPCs

\* flush_summary() works on one victim, and holds a count of it only between
\* exchange(0) and the summary line.
SummaryInv ==
    \A t \in Threads :
        /\ victim[t] # NULL <=> pc[t] \in SummaryPCs
        /\ taken[t] # {} <=> pc[t] = "summarize"
        /\ \A c \in taken[t] : c.site = victim[t]

\* A counter counts calls of its own site only.
OwnSite == \A s \in Sites : \A c \in suppressed[s] : c.site = s

\* Executions of statements are distinct.
Distinct ==
    /\ nops <= MaxOps
    /\ \A c \in made : c.id < nops
    /\ \A t, u \in Threads : call[t] = call[u] /\ call[t] # NULL => t = u

\* Only registered sites are past their construction or hold a count.
RegisteredInv ==
    /\ \A t \in Threads : call[t] # NULL /\ pc[t] # "construct" => Site(t) \in registered
    /\ \A s \in Sites : suppressed[s] # {} => s \in registered

\* The exit handler runs alone, and visits every site that holds a count.
ExitInv ==
    /\ phase # "running" => \A t \in Threads : pc[t] # "idle" => mu = t
    /\ phase = "exited" => \A t \in Threads : pc[t] = "idle"
    /\ phase = "exiting" => mu # NULL
    /\ phase = "exiting" =>
         \A s \in Sites : suppressed[s] # {} =>
             s \in todo[mu] \/ (pc[mu] = "take" /\ victim[mu] = s)
    /\ phase = "exited" => \A s \in Sites : suppressed[s] = {}
    /\ \A t \in Threads : pc[t] = "clear" => todo[t] = {}

IInv == TypeOK /\ CallInv /\ MutexInv /\ SummaryInv /\ OwnSite /\ Distinct
          /\ RegisteredInv /\ ExitInv /\ Accounting

\* The identity of an initialized site is visible or still being stored, and
\* every site with a count is initialized.
IdentityInv ==
    /\ \A s \in Sites : initialized[s] => \/ captured[s] # NULL
                                          \/ \E u \in storing : Site(u) = s
    /\ \A t \in Threads : pc[t] \in {"check", "suppress", "swap"} => initialized[Site(t)]
    /\ \A s \in Sites : suppressed[s] # {} => initialized[s]
    /\ \A t \in Threads : pc[t] = "summarize" => initialized[victim[t]]

\* g_last_dedup names a site whose line is out or on its way.
LeadInv ==
    /\ last # NULL => Leads(last)
    /\ \A t \in Threads : pc[t] = "suppress" => Leads(Site(t))

-----------------------------------------------------------------------------
(* Types                                                                   *)

\* Types: every action stores values of the right kind; flush_summary() has a
\* victim whenever it runs.
LEMMA TypeStep ==
    ASSUME TypeOK, CallInv, SummaryInv, [Next]_vars
    PROVE  TypeOK'
  <1> USE ConstantsAssumption DEF TypeOK, CallInv, SummaryInv, PCs, TickPCs, SummaryPCs
  <1>1. ASSUME NEW t \in Threads, NEW s \in Sites, NEW l \in Loggers, Log(t, s, l)
        PROVE  TypeOK'
    BY <1>1 DEF Log, shared, history, Site, Call
  <1>2. ASSUME NEW t \in Threads, Construct(t)
        PROVE  TypeOK'
    BY <1>2 DEF Construct, shared, history, Site, Call
  <1>3. ASSUME NEW t \in Threads, Gate(t)
        PROVE  TypeOK'
    BY <1>3 DEF Gate, shared, history, Site, Call
  <1>4. ASSUME NEW t \in Threads, Publish(t)
        PROVE  TypeOK'
    BY <1>4 DEF Publish, Identity, shared, history, Site, Call
  <1>5. ASSUME NEW t \in Threads, Check(t)
        PROVE  TypeOK'
    BY <1>5 DEF Check, Hit, shared, history, Site, Call
  <1>6. ASSUME NEW t \in Threads, Suppress(t)
        PROVE  TypeOK'
    BY <1>6 DEF Suppress, shared, history, Site, Call
  <1>7. ASSUME NEW t \in Threads, Swap(t)
        PROVE  TypeOK'
    BY <1>7 DEF Swap, Displaces, shared, history, Site, Call
  <1>8. ASSUME NEW t \in Threads, Emit(t)
        PROVE  TypeOK'
    BY <1>8 DEF Emit, shared, history, Site, Call
  <1>9. ASSUME NEW t \in Threads, Take(t)
        PROVE  TypeOK'
    BY <1>9 DEF Take, ReturnPC, shared, history, Site, Call
  <1>10. ASSUME NEW t \in Threads, Summarize(t)
        PROVE  TypeOK'
    BY <1>10 DEF Summarize, Renders, ReturnPC, shared, history, Site, Call
  <1>11. ASSUME NEW t \in Threads, FlushDedup(t)
        PROVE  TypeOK'
    BY <1>11 DEF FlushDedup, LockRegistry, shared, history, Site, Call
  <1>12. ASSUME NEW t \in Threads, Loop(t)
        PROVE  TypeOK'
    BY <1>12 DEF Loop, Left, shared, history, Site, Call
  <1>13. ASSUME NEW t \in Threads, Clear(t)
        PROVE  TypeOK'
    BY <1>13 DEF Clear, shared, history, Site, Call
  <1>14. ASSUME NEW t \in Threads, Exit(t)
        PROVE  TypeOK'
    BY <1>14 DEF Exit, HandlerInstalled, LockRegistry, shared, history, Site, Call
  <1>15. ASSUME NEW t \in Threads, NEW l \in Loggers, NEW v \in Levels, SetLevel(t, l, v)
        PROVE  TypeOK'
    BY <1>15 DEF SetLevel, shared, history, Site, Call
  <1>16. ASSUME NEW t \in Threads, LoggerFlush(t)
        PROVE  TypeOK'
    BY <1>16 DEF LoggerFlush, shared, history, Site, Call
  <1>17. ASSUME NEW t \in Threads, LoggerFlushReturn(t)
        PROVE  TypeOK'
    BY <1>17 DEF LoggerFlushReturn, shared, history, Site, Call
  <1>18. CASE UNCHANGED vars
    BY <1>18 DEF vars, history, shared, shared, history, Site, Call
  <1> QED
    BY <1>1, <1>2, <1>3, <1>4, <1>5, <1>6, <1>7, <1>8, <1>9, <1>10, <1>11, <1>12, <1>13, <1>14, <1>15, <1>16, <1>17, <1>18 DEF Next, Step, Begin, Done

(* Control: pc, statement, mutex, victim                                   *)

\* Where a thread stands agrees with the statement it executes, the registry
\* mutex and the state whose summary it flushes.
LEMMA ControlStep ==
    ASSUME TypeOK, CallInv, MutexInv, SummaryInv, OwnSite, [Next]_vars
    PROVE  CallInv' /\ MutexInv' /\ SummaryInv'
  <1> USE ConstantsAssumption DEF TypeOK, CallInv, MutexInv, SummaryInv, OwnSite, TickPCs, SummaryPCs
  <1>1. ASSUME NEW t \in Threads, NEW s \in Sites, NEW l \in Loggers, Log(t, s, l)
        PROVE  CallInv' /\ MutexInv' /\ SummaryInv'
    BY <1>1 DEF Log, shared, history, Site, Call
  <1>2. ASSUME NEW t \in Threads, Construct(t)
        PROVE  CallInv' /\ MutexInv' /\ SummaryInv'
    BY <1>2 DEF Construct, shared, history, Site, Call
  <1>3. ASSUME NEW t \in Threads, Gate(t)
        PROVE  CallInv' /\ MutexInv' /\ SummaryInv'
    BY <1>3 DEF Gate, shared, history, Site, Call
  <1>4. ASSUME NEW t \in Threads, Publish(t)
        PROVE  CallInv' /\ MutexInv' /\ SummaryInv'
    BY <1>4 DEF Publish, Identity, shared, history, Site, Call
  <1>5. ASSUME NEW t \in Threads, Check(t)
        PROVE  CallInv' /\ MutexInv' /\ SummaryInv'
    BY <1>5 DEF Check, Hit, shared, history, Site, Call
  <1>6. ASSUME NEW t \in Threads, Suppress(t)
        PROVE  CallInv' /\ MutexInv' /\ SummaryInv'
    BY <1>6 DEF Suppress, shared, history, Site, Call
  <1>7. ASSUME NEW t \in Threads, Swap(t)
        PROVE  CallInv' /\ MutexInv' /\ SummaryInv'
    BY <1>7 DEF Swap, Displaces, shared, history, Site, Call
  <1>8. ASSUME NEW t \in Threads, Emit(t)
        PROVE  CallInv' /\ MutexInv' /\ SummaryInv'
    BY <1>8 DEF Emit, shared, history, Site, Call
  <1>9. ASSUME NEW t \in Threads, Take(t)
        PROVE  CallInv' /\ MutexInv' /\ SummaryInv'
    BY <1>9 DEF Take, ReturnPC, shared, history, Site, Call
  <1>10. ASSUME NEW t \in Threads, Summarize(t)
        PROVE  CallInv' /\ MutexInv' /\ SummaryInv'
    BY <1>10 DEF Summarize, Renders, ReturnPC, shared, history, Site, Call
  <1>11. ASSUME NEW t \in Threads, FlushDedup(t)
        PROVE  CallInv' /\ MutexInv' /\ SummaryInv'
    BY <1>11 DEF FlushDedup, LockRegistry, shared, history, Site, Call
  <1>12. ASSUME NEW t \in Threads, Loop(t)
        PROVE  CallInv' /\ MutexInv' /\ SummaryInv'
    BY <1>12 DEF Loop, Left, shared, history, Site, Call
  <1>13. ASSUME NEW t \in Threads, Clear(t)
        PROVE  CallInv' /\ MutexInv' /\ SummaryInv'
    BY <1>13 DEF Clear, shared, history, Site, Call
  <1>14. ASSUME NEW t \in Threads, Exit(t)
        PROVE  CallInv' /\ MutexInv' /\ SummaryInv'
    BY <1>14 DEF Exit, HandlerInstalled, LockRegistry, shared, history, Site, Call
  <1>15. ASSUME NEW t \in Threads, NEW l \in Loggers, NEW v \in Levels, SetLevel(t, l, v)
        PROVE  CallInv' /\ MutexInv' /\ SummaryInv'
    BY <1>15 DEF SetLevel, shared, history, Site, Call
  <1>16. ASSUME NEW t \in Threads, LoggerFlush(t)
        PROVE  CallInv' /\ MutexInv' /\ SummaryInv'
    BY <1>16 DEF LoggerFlush, shared, history, Site, Call
  <1>17. ASSUME NEW t \in Threads, LoggerFlushReturn(t)
        PROVE  CallInv' /\ MutexInv' /\ SummaryInv'
    BY <1>17 DEF LoggerFlushReturn, shared, history, Site, Call
  <1>18. CASE UNCHANGED vars
    BY <1>18 DEF vars, history, shared, shared, history, Site, Call
  <1> QED
    BY <1>1, <1>2, <1>3, <1>4, <1>5, <1>6, <1>7, <1>8, <1>9, <1>10, <1>11, <1>12, <1>13, <1>14, <1>15, <1>16, <1>17, <1>18 DEF Next, Step, Begin, Done

(* Counters                                                                *)

\* Counters and counts in hand hold calls of their own site, statements stay
\* distinct, and only registered sites count.
LEMMA CountStep ==
    ASSUME TypeOK, CallInv, MutexInv, SummaryInv, OwnSite, Distinct,
           RegisteredInv, Accounting, [Next]_vars
    PROVE  OwnSite' /\ Distinct' /\ RegisteredInv'
  <1> USE ConstantsAssumption DEF TypeOK, CallInv, MutexInv, SummaryInv, OwnSite, Distinct, RegisteredInv, TickPCs, SummaryPCs
  <1>1. ASSUME NEW t \in Threads, NEW s \in Sites, NEW l \in Loggers, Log(t, s, l)
        PROVE  OwnSite' /\ Distinct' /\ RegisteredInv'
    BY <1>1 DEF Log, shared, history, Site, Call, Accounting, Open
  <1>2. ASSUME NEW t \in Threads, Construct(t)
        PROVE  OwnSite' /\ Distinct' /\ RegisteredInv'
    BY <1>2 DEF Construct, shared, history, Site, Call
  <1>3. ASSUME NEW t \in Threads, Gate(t)
        PROVE  OwnSite' /\ Distinct' /\ RegisteredInv'
    BY <1>3 DEF Gate, shared, history, Site, Call
  <1>4. ASSUME NEW t \in Threads, Publish(t)
        PROVE  OwnSite' /\ Distinct' /\ RegisteredInv'
    BY <1>4 DEF Publish, Identity, shared, history, Site, Call
  <1>5. ASSUME NEW t \in Threads, Check(t)
        PROVE  OwnSite' /\ Distinct' /\ RegisteredInv'
    BY <1>5 DEF Check, Hit, shared, history, Site, Call
  <1>6. ASSUME NEW t \in Threads, Suppress(t)
        PROVE  OwnSite' /\ Distinct' /\ RegisteredInv'
    BY <1>6 DEF Suppress, shared, history, Site, Call
  <1>7. ASSUME NEW t \in Threads, Swap(t)
        PROVE  OwnSite' /\ Distinct' /\ RegisteredInv'
    BY <1>7 DEF Swap, Displaces, shared, history, Site, Call
  <1>8. ASSUME NEW t \in Threads, Emit(t)
        PROVE  OwnSite' /\ Distinct' /\ RegisteredInv'
    BY <1>8 DEF Emit, shared, history, Site, Call
  <1>9. ASSUME NEW t \in Threads, Take(t)
        PROVE  OwnSite' /\ Distinct' /\ RegisteredInv'
    <2>1. OwnSite'
      BY <1>9 DEF Take
    <2>2. Distinct'
      BY <1>9 DEF Take, history
    <2>3. RegisteredInv'
      BY <1>9 DEF Take, ReturnPC, Site
    <2> QED
      BY <2>1, <2>2, <2>3
  <1>10. ASSUME NEW t \in Threads, Summarize(t)
        PROVE  OwnSite' /\ Distinct' /\ RegisteredInv'
    <2>1. OwnSite'
      BY <1>10 DEF Summarize, shared
    <2>2. Distinct'
      BY <1>10 DEF Summarize
    <2>3. RegisteredInv'
      BY <1>10 DEF Summarize, Renders, ReturnPC, Site, shared
    <2> QED
      BY <2>1, <2>2, <2>3
  <1>11. ASSUME NEW t \in Threads, FlushDedup(t)
        PROVE  OwnSite' /\ Distinct' /\ RegisteredInv'
    BY <1>11 DEF FlushDedup, LockRegistry, shared, history, Site, Call
  <1>12. ASSUME NEW t \in Threads, Loop(t)
        PROVE  OwnSite' /\ Distinct' /\ RegisteredInv'
    BY <1>12 DEF Loop, Left, shared, history, Site, Call
  <1>13. ASSUME NEW t \in Threads, Clear(t)
        PROVE  OwnSite' /\ Distinct' /\ RegisteredInv'
    BY <1>13 DEF Clear, shared, history, Site, Call
  <1>14. ASSUME NEW t \in Threads, Exit(t)
        PROVE  OwnSite' /\ Distinct' /\ RegisteredInv'
    BY <1>14 DEF Exit, HandlerInstalled, LockRegistry, shared, history, Site, Call
  <1>15. ASSUME NEW t \in Threads, NEW l \in Loggers, NEW v \in Levels, SetLevel(t, l, v)
        PROVE  OwnSite' /\ Distinct' /\ RegisteredInv'
    BY <1>15 DEF SetLevel, shared, history, Site, Call
  <1>16. ASSUME NEW t \in Threads, LoggerFlush(t)
        PROVE  OwnSite' /\ Distinct' /\ RegisteredInv'
    BY <1>16 DEF LoggerFlush, shared, history, Site, Call
  <1>17. ASSUME NEW t \in Threads, LoggerFlushReturn(t)
        PROVE  OwnSite' /\ Distinct' /\ RegisteredInv'
    BY <1>17 DEF LoggerFlushReturn, shared, history, Site, Call
  <1>18. CASE UNCHANGED vars
    BY <1>18 DEF vars, history, shared, shared, history, Site, Call
  <1> QED
    BY <1>1, <1>2, <1>3, <1>4, <1>5, <1>6, <1>7, <1>8, <1>9, <1>10, <1>11, <1>12, <1>13, <1>14, <1>15, <1>16, <1>17, <1>18 DEF Next, Step, Begin, Done

(* The exit handler                                                        *)

\* The atexit handler runs alone and has every counted site still ahead of it.
LEMMA ExitStep ==
    ASSUME TypeOK, CallInv, MutexInv, SummaryInv, RegisteredInv, ExitInv, [Next]_vars
    PROVE  ExitInv'
  <1> USE ConstantsAssumption DEF TypeOK, CallInv, MutexInv, SummaryInv, RegisteredInv, ExitInv, TickPCs, SummaryPCs
  <1>1. ASSUME NEW t \in Threads, NEW s \in Sites, NEW l \in Loggers, Log(t, s, l)
        PROVE  ExitInv'
    BY <1>1 DEF Log, shared, history, Site
  <1>2. ASSUME NEW t \in Threads, Construct(t)
        PROVE  ExitInv'
    BY <1>2 DEF Construct, shared, history, Site
  <1>3. ASSUME NEW t \in Threads, Gate(t)
        PROVE  ExitInv'
    BY <1>3 DEF Gate, shared, history, Site
  <1>4. ASSUME NEW t \in Threads, Publish(t)
        PROVE  ExitInv'
    BY <1>4 DEF Publish, Identity, shared, history, Site
  <1>5. ASSUME NEW t \in Threads, Check(t)
        PROVE  ExitInv'
    BY <1>5 DEF Check, Hit, shared, history, Site
  <1>6. ASSUME NEW t \in Threads, Suppress(t)
        PROVE  ExitInv'
    BY <1>6 DEF Suppress, shared, history, Site
  <1>7. ASSUME NEW t \in Threads, Swap(t)
        PROVE  ExitInv'
    BY <1>7 DEF Swap, Displaces, shared, history, Site
  <1>8. ASSUME NEW t \in Threads, Emit(t)
        PROVE  ExitInv'
    BY <1>8 DEF Emit, shared, history, Site
  <1>9. ASSUME NEW t \in Threads, Take(t)
        PROVE  ExitInv'
    BY <1>9 DEF Take, ReturnPC, shared, history, Site
  <1>10. ASSUME NEW t \in Threads, Summarize(t)
        PROVE  ExitInv'
    BY <1>10 DEF Summarize, Renders, ReturnPC, shared, history, Site
  <1>11. ASSUME NEW t \in Threads, FlushDedup(t)
        PROVE  ExitInv'
    BY <1>11 DEF FlushDedup, LockRegistry, shared, history, Site
  <1>12. ASSUME NEW t \in Threads, Loop(t)
        PROVE  ExitInv'
    BY <1>12 DEF Loop, Left, shared, history, Site
  <1>13. ASSUME NEW t \in Threads, Clear(t)
        PROVE  ExitInv'
    BY <1>13 DEF Clear, shared, history, Site
  <1>14. ASSUME NEW t \in Threads, Exit(t)
        PROVE  ExitInv'
    BY <1>14 DEF Exit, HandlerInstalled, LockRegistry, shared, history, Site
  <1>15. ASSUME NEW t \in Threads, NEW l \in Loggers, NEW v \in Levels, SetLevel(t, l, v)
        PROVE  ExitInv'
    BY <1>15 DEF SetLevel, shared, history, Site
  <1>16. ASSUME NEW t \in Threads, LoggerFlush(t)
        PROVE  ExitInv'
    BY <1>16 DEF LoggerFlush, shared, history, Site
  <1>17. ASSUME NEW t \in Threads, LoggerFlushReturn(t)
        PROVE  ExitInv'
    BY <1>17 DEF LoggerFlushReturn, shared, history, Site
  <1>18. CASE UNCHANGED vars
    BY <1>18 DEF vars, history, shared, shared, history, Site
  <1> QED
    BY <1>1, <1>2, <1>3, <1>4, <1>5, <1>6, <1>7, <1>8, <1>9, <1>10, <1>11, <1>12, <1>13, <1>14, <1>15, <1>16, <1>17, <1>18 DEF Next, Step, Begin, Done


(* What each action does to the calls in progress, counted and in hand     *)

\* A statement that passes the level check becomes the one new call in progress.
LEMMA LogEffect ==
    ASSUME TypeOK, CallInv, Distinct,
           NEW t \in Threads, NEW s \in Sites, NEW l \in Loggers, Log(t, s, l)
    PROVE  \E c \in Call :
             /\ c \notin made /\ made' = made \cup {c} /\ Open' = Open \cup {c}
             /\ Pending' = Pending /\ InHand' = InHand
             /\ UNCHANGED <<emitted, reported, dropped, taken>>
  <1> DEFINE c == [site |-> s, logger |-> l, id |-> nops]
  <1>1. c \in Call /\ c \notin made /\ c # NULL
    BY ConstantsAssumption DEF Log, Call, Distinct, TypeOK
  <1>2. Open' = Open \cup {c}
    BY <1>1 DEF Log, Open, TypeOK, CallInv
  <1>3. /\ Pending' = Pending /\ InHand' = InHand /\ made' = made \cup {c}
        /\ UNCHANGED <<emitted, reported, dropped, taken>>
    BY DEF Log, Pending, InHand, shared
  <1> QED
    BY <1>1, <1>2, <1>3

\* fetch_add moves the call in progress to the counted ones.
LEMMA SuppressEffect ==
    ASSUME TypeOK, CallInv, Distinct, NEW t \in Threads, Suppress(t)
    PROVE  /\ call[t] \in Open /\ Open' = Open \ {call[t]}
           /\ Pending' = Pending \cup {call[t]} /\ InHand' = InHand
           /\ UNCHANGED <<made, emitted, reported, dropped, taken>>
  <1>1. call[t] \in Open /\ Open' = Open \ {call[t]}
    BY DEF Suppress, Open, TypeOK, CallInv, Distinct, TickPCs
  <1>2. Site(t) \in Sites
    BY DEF Suppress, Site, TypeOK, CallInv, TickPCs, Call
  <1>3. Pending' = Pending \cup {call[t]}
    BY <1>2 DEF Suppress, Pending, TypeOK
  <1>4. InHand' = InHand /\ UNCHANGED <<made, emitted, reported, dropped, taken>>
    BY DEF Suppress, InHand, history
  <1> QED
    BY <1>1, <1>3, <1>4

\* An emitted statement is no longer in progress.
LEMMA EmitEffect ==
    ASSUME TypeOK, CallInv, Distinct, NEW t \in Threads, Emit(t)
    PROVE  /\ call[t] \in Open /\ Open' = Open \ {call[t]}
           /\ Pending' = Pending /\ InHand' = InHand
           /\ emitted' = emitted \cup {call[t]}
           /\ UNCHANGED <<made, reported, dropped, taken>>
  <1>1. call[t] \in Open /\ Open' = Open \ {call[t]}
    BY DEF Emit, Open, TypeOK, CallInv, Distinct, TickPCs
  <1>2. /\ Pending' = Pending /\ InHand' = InHand /\ emitted' = emitted \cup {call[t]}
        /\ UNCHANGED <<made, reported, dropped, taken>>
    BY DEF Emit, Pending, InHand, shared
  <1> QED
    BY <1>1, <1>2

\* exchange(0) moves a count from a DedupState to the thread.
LEMMA TakeEffect ==
    ASSUME TypeOK, SummaryInv, OwnSite, NEW t \in Threads, Take(t)
    PROVE  \E S \in SUBSET Pending :
             /\ Pending' = Pending \ S /\ InHand' = InHand \cup S /\ Open' = Open
             /\ taken' = [taken EXCEPT ![t] = S]
             /\ UNCHANGED history
  <1> DEFINE S == suppressed[victim[t]]
  <1>1. victim[t] \in Sites /\ taken[t] = {}
    BY DEF Take, TypeOK, SummaryInv, SummaryPCs
  <1>2. S \subseteq Pending /\ Pending' = Pending \ S
    BY <1>1 DEF Take, Pending, OwnSite, TypeOK
  <1>3. InHand' = InHand \cup S
    BY <1>1 DEF Take, InHand, TypeOK
  <1>4. taken' = [taken EXCEPT ![t] = S] /\ Open' = Open /\ UNCHANGED history
    BY DEF Take, Open
  <1> QED
    BY <1>2, <1>3, <1>4

\* Rendering or giving up a count takes it out of the hands of the thread.
LEMMA SummarizeEffect ==
    ASSUME TypeOK, Accounting, NEW t \in Threads, Summarize(t)
    PROVE  /\ taken[t] \subseteq InHand /\ InHand' = InHand \ taken[t]
           /\ taken' = [taken EXCEPT ![t] = {}]
           /\ Open' = Open /\ Pending' = Pending
           /\ UNCHANGED <<made, emitted>>
           /\ \/ reported' = reported \cup taken[t] /\ UNCHANGED dropped
              \/ dropped' = dropped \cup taken[t] /\ UNCHANGED reported
  <1>1. taken[t] \subseteq InHand /\ InHand' = InHand \ taken[t]
    BY DEF Summarize, InHand, TypeOK, Accounting
  <1>2. taken' = [taken EXCEPT ![t] = {}] /\ Open' = Open /\ Pending' = Pending
    BY DEF Summarize, Open, Pending, shared
  <1>3. /\ UNCHANGED <<made, emitted>>
        /\ \/ reported' = reported \cup taken[t] /\ UNCHANGED dropped
           \/ dropped' = dropped \cup taken[t] /\ UNCHANGED reported
    BY DEF Summarize
  <1> QED
    BY <1>1, <1>2, <1>3

\* Every other step moves no call.
QuietStep ==
    /\ Open' = Open /\ Pending' = Pending /\ InHand' = InHand
    /\ UNCHANGED <<made, emitted, reported, dropped, taken>>

\* Every step has one of these effects on the calls, or none.
LEMMA NextEffect ==
    ASSUME [Next]_vars
    PROVE  \/ \E t \in Threads : Suppress(t) \/ Emit(t) \/ Take(t) \/ Summarize(t)
           \/ \E t \in Threads, s \in Sites, l \in Loggers : Log(t, s, l)
           \/ QuietStep
  <1>1. ASSUME UNCHANGED <<call, taken, suppressed, made, emitted, reported, dropped>>
        PROVE  QuietStep
    BY <1>1 DEF QuietStep, Open, Pending, InHand
  <1>2. ASSUME NEW t \in Threads,
               \/ Construct(t) \/ Gate(t) \/ Publish(t) \/ Check(t) \/ Swap(t)
               \/ FlushDedup(t) \/ Loop(t) \/ Clear(t) \/ Exit(t) \/ LoggerFlush(t)
               \/ LoggerFlushReturn(t)
               \/ \E l \in Loggers, v \in Levels : SetLevel(t, l, v)
        PROVE  QuietStep
    <2>1. UNCHANGED <<call, taken, suppressed, made, emitted, reported, dropped>>
      BY <1>2 DEF Construct, Gate, Publish, Check, Swap, FlushDedup, Loop, Clear, Exit,
                  LoggerFlush, LoggerFlushReturn, SetLevel, shared, history
    <2> QED
      BY <2>1, <1>1
  <1>3. CASE UNCHANGED vars
    BY <1>1, <1>3 DEF vars, history, shared
  <1> QED
    BY <1>2, <1>3 DEF Next, Step, Begin, Done

(* Every call is accounted for once                                        *)

\* Each of these effects keeps the books balanced.
LEMMA AccountingStep ==
    ASSUME TypeOK, CallInv, SummaryInv, OwnSite, Distinct, Accounting, [Next]_vars
    PROVE  Accounting'
  <1>1. ASSUME NEW t \in Threads, NEW s \in Sites, NEW l \in Loggers, Log(t, s, l)
        PROVE  Accounting'
    BY <1>1, LogEffect DEF Accounting
  <1>2. ASSUME NEW t \in Threads, Suppress(t)
        PROVE  Accounting'
    BY <1>2, SuppressEffect DEF Accounting
  <1>3. ASSUME NEW t \in Threads, Emit(t)
        PROVE  Accounting'
    BY <1>3, EmitEffect DEF Accounting
  <1>4. ASSUME NEW t \in Threads, Take(t)
        PROVE  Accounting'
    <2>1. PICK S \in SUBSET Pending :
             /\ Pending' = Pending \ S /\ InHand' = InHand \cup S /\ Open' = Open
             /\ taken' = [taken EXCEPT ![t] = S]
             /\ UNCHANGED history
      BY <1>4, TakeEffect
    <2>2. \A u \in Threads : taken[u] \subseteq InHand
      BY DEF InHand
    <2>3. \A u, w \in Threads : u # w => taken'[u] \cap taken'[w] = {}
      BY <2>1, <2>2 DEF Accounting, TypeOK
    <2> QED
      BY <2>1, <2>3 DEF Accounting, history
  <1>5. ASSUME NEW t \in Threads, Summarize(t)
        PROVE  Accounting'
    <2>1. \A u, w \in Threads : u # w => taken'[u] \cap taken'[w] = {}
      BY <1>5, SummarizeEffect DEF Accounting, TypeOK
    <2> QED
      BY <1>5, <2>1, SummarizeEffect DEF Accounting
  <1>6. CASE QuietStep
    BY <1>6 DEF QuietStep, Accounting
  <1> QED
    BY <1>1, <1>2, <1>3, <1>4, <1>5, <1>6, NextEffect

-----------------------------------------------------------------------------
(* The theorems                                                            *)

\* At the start nothing is registered, counted or in progress.
LEMMA InitIInv == Init => IInv
  <1> SUFFICES ASSUME Init PROVE IInv
    OBVIOUS
  <1>1. Open = {} /\ Pending = {} /\ InHand = {}
    BY DEF Init, Open, Pending, InHand
  <1>2. TypeOK
    BY ConstantsAssumption DEF Init, TypeOK, PCs
  <1>3. Accounting
    BY <1>1 DEF Init, Accounting
  <1> QED
    BY <1>2, <1>3, ConstantsAssumption
    DEF Init, IInv, CallInv, MutexInv, SummaryInv, OwnSite, Distinct, RegisteredInv,
        ExitInv, TickPCs, SummaryPCs

\* Every step, and every stuttering step, preserves the invariant.
LEMMA StepIInv == IInv /\ [Next]_vars => IInv'
  BY TypeStep, ControlStep, CountStep, ExitStep, AccountingStep DEF IInv

\* The inductive invariant holds in every reachable state of the runtime.
THEOREM Invariance == Spec => []IInv
  BY InitIInv, StepIInv, PTL DEF Spec

\* Type correctness: every variable of the runtime keeps its type.
THEOREM TypeCorrect == Spec => []TypeOK
  <1>1. IInv => TypeOK
    BY DEF IInv
  <1> QED
    BY <1>1, Invariance, PTL

\* Conservation: no call that passed the level check is lost or counted twice,
\* whatever the races of fetch_add, exchange(0) and the two ways to flush.
THEOREM CallsAccountedOnce == Spec => []Accounting
  <1>1. IInv => Accounting
    BY DEF IInv
  <1> QED
    BY <1>1, Invariance, PTL

\* The atexit handler leaves no count behind in any DedupState.
THEOREM ExitLeavesNothing == Spec => []ExitReports
  <1>1. IInv => ExitReports
    <2> SUFFICES ASSUME IInv, phase = "exited" PROVE Pending \cup InHand \cup Open = {}
      BY DEF ExitReports
    <2>1. \A t \in Threads : pc[t] = "idle" /\ call[t] = NULL /\ taken[t] = {}
      BY DEF IInv, ExitInv, CallInv, SummaryInv
    <2>2. \A s \in Sites : suppressed[s] = {}
      BY DEF IInv, ExitInv
    <2> QED
      BY <2>1, <2>2 DEF Pending, InHand, Open
  <1> QED
    BY <1>1, Invariance, PTL

-----------------------------------------------------------------------------
(* Where counts are given up, and what every count stands behind           *)

\* A counted site has its identity visible, or its first user is still storing it.
LEMMA IdentityStep ==
    ASSUME TypeOK, CallInv, MutexInv, SummaryInv, IdentityInv, [Next]_vars
    PROVE  IdentityInv'
  <1> USE ConstantsAssumption DEF TypeOK, CallInv, MutexInv, SummaryInv, IdentityInv, TickPCs, SummaryPCs
  <1>1. ASSUME NEW t \in Threads, NEW s \in Sites, NEW l \in Loggers, Log(t, s, l)
        PROVE  IdentityInv'
    BY <1>1 DEF Log, shared, history, Site, Call
  <1>2. ASSUME NEW t \in Threads, Construct(t)
        PROVE  IdentityInv'
    BY <1>2 DEF Construct, shared, history, Site, Call
  <1>3. ASSUME NEW t \in Threads, Gate(t)
        PROVE  IdentityInv'
    BY <1>3 DEF Gate, shared, history, Site, Call
  <1>4. ASSUME NEW t \in Threads, Publish(t)
        PROVE  IdentityInv'
    BY <1>4 DEF Publish, Identity, shared, history, Site, Call
  <1>5. ASSUME NEW t \in Threads, Check(t)
        PROVE  IdentityInv'
    BY <1>5 DEF Check, Hit, shared, history, Site, Call
  <1>6. ASSUME NEW t \in Threads, Suppress(t)
        PROVE  IdentityInv'
    BY <1>6 DEF Suppress, shared, history, Site, Call
  <1>7. ASSUME NEW t \in Threads, Swap(t)
        PROVE  IdentityInv'
    BY <1>7 DEF Swap, Displaces, shared, history, Site, Call
  <1>8. ASSUME NEW t \in Threads, Emit(t)
        PROVE  IdentityInv'
    BY <1>8 DEF Emit, shared, history, Site, Call
  <1>9. ASSUME NEW t \in Threads, Take(t)
        PROVE  IdentityInv'
    BY <1>9 DEF Take, ReturnPC, shared, history, Site, Call
  <1>10. ASSUME NEW t \in Threads, Summarize(t)
        PROVE  IdentityInv'
    BY <1>10 DEF Summarize, Renders, ReturnPC, shared, history, Site, Call
  <1>11. ASSUME NEW t \in Threads, FlushDedup(t)
        PROVE  IdentityInv'
    BY <1>11 DEF FlushDedup, LockRegistry, shared, history, Site, Call
  <1>12. ASSUME NEW t \in Threads, Loop(t)
        PROVE  IdentityInv'
    BY <1>12 DEF Loop, Left, shared, history, Site, Call
  <1>13. ASSUME NEW t \in Threads, Clear(t)
        PROVE  IdentityInv'
    BY <1>13 DEF Clear, shared, history, Site, Call
  <1>14. ASSUME NEW t \in Threads, Exit(t)
        PROVE  IdentityInv'
    BY <1>14 DEF Exit, HandlerInstalled, LockRegistry, shared, history, Site, Call
  <1>15. ASSUME NEW t \in Threads, NEW l \in Loggers, NEW v \in Levels, SetLevel(t, l, v)
        PROVE  IdentityInv'
    BY <1>15 DEF SetLevel, shared, history, Site, Call
  <1>16. ASSUME NEW t \in Threads, LoggerFlush(t)
        PROVE  IdentityInv'
    BY <1>16 DEF LoggerFlush, shared, history, Site, Call
  <1>17. ASSUME NEW t \in Threads, LoggerFlushReturn(t)
        PROVE  IdentityInv'
    BY <1>17 DEF LoggerFlushReturn, shared, history, Site, Call
  <1>18. CASE UNCHANGED vars
    BY <1>18 DEF vars, history, shared, shared, history, Site, Call
  <1> QED
    BY <1>1, <1>2, <1>3, <1>4, <1>5, <1>6, <1>7, <1>8, <1>9, <1>10, <1>11, <1>12, <1>13, <1>14, <1>15, <1>16, <1>17, <1>18 DEF Next, Step, Begin, Done

\* A site whose line is out or on its way stays so.
LEMMA LeadsStable ==
    ASSUME TypeOK, CallInv, MutexInv, [Next]_vars, NEW s \in Sites, Leads(s)
    PROVE  Leads(s)'
  <1> USE ConstantsAssumption DEF TypeOK, CallInv, MutexInv, Leads, TickPCs, SummaryPCs
  <1>1. ASSUME NEW t \in Threads, NEW r \in Sites, NEW l \in Loggers, Log(t, r, l)
        PROVE  Leads(s)'
    BY <1>1 DEF Log, shared, history
  <1>2. ASSUME NEW t \in Threads, Construct(t)
        PROVE  Leads(s)'
    BY <1>2 DEF Construct, shared, history
  <1>3. ASSUME NEW t \in Threads, Gate(t)
        PROVE  Leads(s)'
    BY <1>3 DEF Gate, shared, history
  <1>4. ASSUME NEW t \in Threads, Publish(t)
        PROVE  Leads(s)'
    BY <1>4 DEF Publish, Identity, shared, history
  <1>5. ASSUME NEW t \in Threads, Check(t)
        PROVE  Leads(s)'
    BY <1>5 DEF Check, Hit, shared, history
  <1>6. ASSUME NEW t \in Threads, Suppress(t)
        PROVE  Leads(s)'
    BY <1>6 DEF Suppress, shared, history
  <1>7. ASSUME NEW t \in Threads, Swap(t)
        PROVE  Leads(s)'
    BY <1>7 DEF Swap, Displaces, shared, history
  <1>8. ASSUME NEW t \in Threads, Emit(t)
        PROVE  Leads(s)'
    BY <1>8 DEF Emit, shared, history
  <1>9. ASSUME NEW t \in Threads, Take(t)
        PROVE  Leads(s)'
    BY <1>9 DEF Take, ReturnPC, shared, history
  <1>10. ASSUME NEW t \in Threads, Summarize(t)
        PROVE  Leads(s)'
    BY <1>10 DEF Summarize, Renders, ReturnPC, shared, history
  <1>11. ASSUME NEW t \in Threads, FlushDedup(t)
        PROVE  Leads(s)'
    BY <1>11 DEF FlushDedup, LockRegistry, shared, history
  <1>12. ASSUME NEW t \in Threads, Loop(t)
        PROVE  Leads(s)'
    BY <1>12 DEF Loop, Left, shared, history
  <1>13. ASSUME NEW t \in Threads, Clear(t)
        PROVE  Leads(s)'
    BY <1>13 DEF Clear, shared, history
  <1>14. ASSUME NEW t \in Threads, Exit(t)
        PROVE  Leads(s)'
    BY <1>14 DEF Exit, HandlerInstalled, LockRegistry, shared, history
  <1>15. ASSUME NEW t \in Threads, NEW l \in Loggers, NEW v \in Levels, SetLevel(t, l, v)
        PROVE  Leads(s)'
    BY <1>15 DEF SetLevel, shared, history
  <1>16. ASSUME NEW t \in Threads, LoggerFlush(t)
        PROVE  Leads(s)'
    BY <1>16 DEF LoggerFlush, shared, history
  <1>17. ASSUME NEW t \in Threads, LoggerFlushReturn(t)
        PROVE  Leads(s)'
    BY <1>17 DEF LoggerFlushReturn, shared, history
  <1>18. CASE UNCHANGED vars
    BY <1>18 DEF vars, history, shared, shared, history
  <1> QED
    BY <1>1, <1>2, <1>3, <1>4, <1>5, <1>6, <1>7, <1>8, <1>9, <1>10, <1>11, <1>12, <1>13, <1>14, <1>15, <1>16, <1>17, <1>18 DEF Next, Step, Begin, Done

\* The statements behind which g_last_dedup lets others hide.
LEMMA LeadStep ==
    ASSUME TypeOK, CallInv, MutexInv, SummaryInv, LeadInv, [Next]_vars
    PROVE  LeadInv'
  <1>1. \A s \in Sites : Leads(s) => Leads(s)'
    BY LeadsStable
  <1>2. \A t \in Threads : pc[t] \in TickPCs => Site(t) \in Sites
    BY DEF TypeOK, CallInv, Site, Call
  <1>3. \A t \in Threads : pc'[t] = "suppress" =>
            /\ call'[t] = call[t] /\ call[t] # NULL
            /\ pc[t] = "suppress" \/ (pc[t] = "check" /\ last = Site(t))
    <2> SUFFICES ASSUME NEW t \in Threads, pc'[t] = "suppress"
                 PROVE  /\ call'[t] = call[t] /\ call[t] # NULL
                        /\ pc[t] = "suppress" \/ (pc[t] = "check" /\ last = Site(t))
      OBVIOUS
    <2>1. CASE UNCHANGED vars
      BY <2>1 DEF vars, CallInv, TickPCs
    <2>2. ASSUME NEW u \in Threads, Step(u)
          PROVE  /\ call'[t] = call[t] /\ call[t] # NULL
                 /\ pc[t] = "suppress" \/ (pc[t] = "check" /\ last = Site(t))
      BY <2>2 DEF Step, Construct, Gate, Publish, Check, Suppress, Swap, Emit, Take,
           Summarize, Loop, Clear, LoggerFlushReturn, ReturnPC, Hit, TypeOK, CallInv, TickPCs
    <2>3. ASSUME NEW u \in Threads, Begin(u) \/ Exit(u)
          PROVE  /\ call'[t] = call[t] /\ call[t] # NULL
                 /\ pc[t] = "suppress" \/ (pc[t] = "check" /\ last = Site(t))
      BY <2>3 DEF Begin, Log, FlushDedup, SetLevel, LoggerFlush, Exit, LockRegistry,
           TypeOK, CallInv, TickPCs
    <2> QED
      BY <2>1, <2>2, <2>3 DEF Next, Done
  <1>4. last' = last \/ last' = NULL \/ \E t \in Threads : Swap(t)
    BY DEF Next, Step, Begin, Done, Log, Construct, Gate, Publish, Check, Suppress, Emit,
           Take, Summarize, FlushDedup, Loop, Clear, Exit, SetLevel, LoggerFlush,
           LoggerFlushReturn, vars, shared
  <1>5. ASSUME NEW t \in Threads, Swap(t)
        PROVE  last' = Site(t) /\ Leads(Site(t))'
    BY <1>5 DEF Swap, Displaces, Leads, Site, TypeOK, CallInv, TickPCs
  <1>6. ASSUME last' # NULL
        PROVE  Leads(last)'
    <2>1. CASE last' = last
      BY <1>1, <1>6, <2>1 DEF LeadInv, TypeOK, Leads
    <2>2. CASE last' # last
      <3>1. PICK t \in Threads : Swap(t)
        BY <1>4, <1>6, <2>2
      <3> QED
        BY <1>5, <3>1 DEF Leads, Swap, Site
    <2> QED
      BY <2>1, <2>2
  <1>7. ASSUME NEW t \in Threads, pc'[t] = "suppress"
        PROVE  Leads(Site(t))'
    <2>1. Leads(Site(t)) /\ Site(t) \in Sites
      BY <1>2, <1>3, <1>7, ConstantsAssumption DEF LeadInv, TickPCs
    <2>2. PICK s \in Sites : s = Site(t) /\ Leads(s)
      BY <2>1
    <2>3. call'[t].site = s
      BY <1>3, <1>7, <2>2 DEF Site
    <2>4. Leads(s)'
      BY <1>1, <2>2
    <2> QED
      BY <2>3, <2>4 DEF Leads, Site
  <1> QED
    BY <1>6, <1>7 DEF LeadInv

\* A call is hidden only behind a line of its site, across all resets of
\* g_last_dedup by concurrent flush_all() calls.
THEOREM HiddenOnlyBehindLine == Spec => []HiddenBehindLine
  <1> DEFINE Inv == IInv /\ LeadInv /\ HiddenBehindLine
             Hidden == Pending \cup InHand \cup reported \cup dropped
  <1>1. Init => Inv
    <2> SUFFICES ASSUME Init PROVE LeadInv /\ HiddenBehindLine
      BY InitIInv
    <2> QED
      BY ConstantsAssumption DEF Init, LeadInv, HiddenBehindLine, Pending, InHand
  <1>2. Inv /\ [Next]_vars => Inv'
    <2> SUFFICES ASSUME Inv, [Next]_vars PROVE Inv'
      OBVIOUS
    <2>1. IInv' /\ LeadInv'
      BY StepIInv, LeadStep DEF IInv
    <2>2. Hidden \subseteq Call
      BY DEF IInv, TypeOK, Pending, InHand
    <2>3. \A c \in Hidden' : c \in Hidden \/ \E t \in Threads : pc[t] = "suppress" /\ c = call[t]
      <3>1. ASSUME NEW t \in Threads, Suppress(t)
            PROVE  Hidden' \subseteq Hidden \cup {call[t]} /\ pc[t] = "suppress"
        BY <3>1, SuppressEffect DEF IInv, Suppress
      <3>2. ASSUME NEW t \in Threads, Emit(t)
            PROVE  Hidden' = Hidden
        BY <3>2, EmitEffect DEF IInv
      <3>3. ASSUME NEW t \in Threads, Take(t)
            PROVE  Hidden' = Hidden
        BY <3>3, TakeEffect DEF IInv, history
      <3>4. ASSUME NEW t \in Threads, Summarize(t)
            PROVE  Hidden' = Hidden
        BY <3>4, SummarizeEffect DEF IInv
      <3>5. ASSUME NEW t \in Threads, NEW s \in Sites, NEW l \in Loggers, Log(t, s, l)
            PROVE  Hidden' = Hidden
        BY <3>5, LogEffect DEF IInv
      <3> QED
        BY <3>1, <3>2, <3>3, <3>4, <3>5, NextEffect DEF QuietStep
    <2>4. \A c \in Hidden' : c.site \in Sites /\ Leads(c.site)
      BY <2>2, <2>3 DEF HiddenBehindLine, LeadInv, Site, IInv, TypeOK, CallInv, TickPCs, Call
    <2>5. \A c \in Hidden' : Leads(c.site)'
      BY <2>4, LeadsStable DEF IInv
    <2> QED
      BY <2>1, <2>5 DEF HiddenBehindLine
  <1>3. Inv => HiddenBehindLine
    OBVIOUS
  <1> QED
    BY <1>1, <1>2, <1>3, PTL DEF Spec

\* A count is given up only when its captured logger has the level disabled,
\* or before the identity stores of the site's first user are visible.
THEOREM DropsAreExplained == Spec => DropsExplained
  <1> DEFINE Explained == \A c \in dropped' \ dropped :
          \/ \E u \in storing : Site(u) = c.site
          \/ captured[c.site] # NULL /\ ~Enabled(captured[c.site], c.site)
  <1>1. Init => IdentityInv
    BY ConstantsAssumption DEF Init, IdentityInv
  <1>2. IInv /\ IdentityInv /\ [Next]_vars => IdentityInv'
    BY IdentityStep DEF IInv
  <1>3. IInv /\ IdentityInv /\ [Next]_vars => [Explained]_vars
    <2> SUFFICES ASSUME IInv, IdentityInv, [Next]_vars PROVE Explained
      OBVIOUS
    <2>1. ASSUME NEW t \in Threads, Summarize(t)
          PROVE  Explained
      <3>1. victim[t] \in Sites /\ initialized[victim[t]]
        BY <2>1 DEF Summarize, IInv, TypeOK, SummaryInv, SummaryPCs, IdentityInv
      <3>2. \A c \in taken[t] : c.site = victim[t]
        BY DEF IInv, SummaryInv
      <3> QED
        BY <2>1, <3>1, <3>2 DEF Summarize, Renders, IdentityInv
    <2>2. (\E t \in Threads : Summarize(t)) \/ UNCHANGED dropped
      BY DEF Next, Step, Begin, Done, Log, Construct, Gate, Publish, Check, Suppress, Swap,
             Emit, Take, FlushDedup, Loop, Clear, Exit, SetLevel, LoggerFlush,
             LoggerFlushReturn, vars, history
    <2> QED
      BY <2>1, <2>2
  <1> QED
    BY <1>1, <1>2, <1>3, Invariance, PTL DEF Spec, DropsExplained

\* The runtime implements the ledger: every step settles, hides or emits calls
\* as DedupLedger allows, or is invisible to it.
THEOREM ImplementsLedger == Spec => LedgerSpec
  <1>1. Init => Ledger!Init
    BY DEF Init, Ledger!Init, Open, Pending, InHand
  <1>2. Init => LeadInv
    BY ConstantsAssumption DEF Init, LeadInv
  <1>3. IInv /\ LeadInv /\ [Next]_vars => LeadInv'
    BY LeadStep DEF IInv
  <1>4. IInv /\ LeadInv /\ [Next]_vars => [Ledger!Next]_(Ledger!vars)
    <2> SUFFICES ASSUME IInv, LeadInv, [Next]_vars
                 PROVE  [Ledger!Next]_(Ledger!vars)
      OBVIOUS
    <2> USE DEF IInv
    <2>1. ASSUME NEW t \in Threads, NEW s \in Sites, NEW l \in Loggers, Log(t, s, l)
          PROVE  \E c \in Call : Ledger!Start(c)
      BY <2>1, LogEffect DEF Ledger!Start, Accounting
    <2>2. ASSUME NEW t \in Threads, Emit(t)
          PROVE  \E c \in Call : Ledger!EmitLine(c)
      <3>1. call[t] \in Call
        BY <2>2, EmitEffect DEF Open, TypeOK
      <3> QED
        BY <2>2, <3>1, EmitEffect DEF Ledger!EmitLine
    <2>3. ASSUME NEW t \in Threads, Suppress(t)
          PROVE  \E c \in Call : Ledger!Hide(c)
      <3>1. call[t] \in Call
        BY <2>3, SuppressEffect DEF Open, TypeOK
      <3>2. Leads(Site(t)) /\ pc[t] = "suppress"
        BY <2>3 DEF LeadInv, Suppress
      <3>3. \E d \in emitted \cup (Open \ {call[t]}) : d.site = call[t].site
        BY <3>2 DEF Leads, Site, Open, TypeOK, Distinct
      <3> QED
        BY <2>3, <3>1, <3>3, SuppressEffect DEF Ledger!Hide
    <2>4. ASSUME NEW t \in Threads, Take(t)
          PROVE  UNCHANGED Ledger!vars
      BY <2>4, TakeEffect DEF Ledger!vars, history
    <2>5. ASSUME NEW t \in Threads, Summarize(t)
          PROVE  \E S \in SUBSET (Pending \cup InHand) : Ledger!Settle(S)
      <3>1. taken[t] # {}
        BY <2>5 DEF Summarize, SummaryInv
      <3>2. Pending \cap InHand = {}
        BY DEF Accounting
      <3>3. \A c, d \in taken[t] : c.site = d.site
        BY DEF SummaryInv
      <3> QED
        BY <2>5, <3>1, <3>2, <3>3, SummarizeEffect DEF Ledger!Settle
    <2>6. CASE QuietStep
      BY <2>6 DEF QuietStep, Ledger!vars
    <2> QED
      BY <2>1, <2>2, <2>3, <2>4, <2>5, <2>6, NextEffect DEF Ledger!Next
  <1> QED
    BY <1>1, <1>2, <1>3, <1>4, Invariance, PTL DEF Spec, LedgerSpec, Ledger!Spec

=============================================================================
