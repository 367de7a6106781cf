-------------------------------- MODULE Dedup --------------------------------
(***************************************************************************)
(* Consecutive-call-site deduplication: the LOG_*_DEDUP macros and their   *)
(* runtime (src/aggregate.cpp, include/elog/macros.hpp).                   *)
(*                                                                         *)
(* Every call site owns a DedupState with a counter of suppressed calls; a *)
(* single global pointer g_last_dedup names the site that was hit last.    *)
(* Threads race on both without a lock; only the registry of sites and the *)
(* explicit flush take a mutex.  One action is one atomic access: every    *)
(* load, exchange or fetch_add another thread can come between.            *)
(*                                                                         *)
(* A counter is modelled by the set of the calls it counts: fetch_add adds *)
(* the call, exchange(0) takes the whole set, and the counter's value is   *)
(* its cardinality.  The properties can thus follow each call to the line  *)
(* that finally accounts for it.                                           *)
(*                                                                         *)
(* The four plain stores of a site's identity (logger, level, file, line)  *)
(* are not ordered with the readers in flush_summary.  They are modelled   *)
(* as the store buffer of the thread that won the CAS: they become visible *)
(* at any time up to that thread's next read-modify-write, and a reader    *)
(* that comes earlier finds a null pointer.                                *)
(***************************************************************************)
EXTENDS Naturals, FiniteSets

CONSTANTS
    Threads,    \* threads that execute LOG_*_DEDUP statements
    Sites,      \* LOG_*_DEDUP statements in the program text, one DedupState each
    Loggers,    \* loggers the statements are used with
    Severity,   \* Severity[s] is the level written in the statement s
    Levels,     \* thresholds that set_level() may install
    MaxOps,     \* bound: API operations (statements, flushes, set_level) in a run
    NULL        \* nullptr, nobody, nothing

\* One execution of a LOG_*_DEDUP statement; id tells repeated executions apart.
Call == [site : Sites, logger : Loggers, id : 0 .. MaxOps]

ASSUME ConstantsAssumption ==
    /\ Threads # {} /\ NULL \notin Threads
    /\ NULL \notin Sites
    /\ NULL \notin Loggers
    /\ NULL \notin Call
    /\ Levels \subseteq Nat
    /\ Severity \in [Sites -> Nat]
    /\ MaxOps \in Nat

VARIABLES
    pc,           \* pc[t]: where thread t stands in tick(), flush_summary() or flush_all()
    call,         \* call[t]: the statement t is executing, NULL outside of one
    victim,       \* victim[t]: the DedupState whose flush_summary() t is executing
    taken,        \* taken[t]: the count t obtained from exchange(0), not yet rendered
    todo,         \* todo[t]: the states flush_all() has still to visit
    registered,   \* DedupRegistry::states
    mu,           \* DedupRegistry::mu: the thread that holds it, or NULL
    last,         \* g_last_dedup
    initialized,  \* DedupState::initialized, per site
    captured,     \* DedupState::logger, per site: NULL until its stores are visible
    storing,      \* threads whose identity stores are still in their store buffer
    suppressed,   \* DedupState::suppressed, per site: the calls it counts
    level,        \* Logger::level_
    phase,        \* the process: "running", "exiting" (in the atexit handler), "exited"
    nops,         \* number of API operations so far
    made,         \* history: the calls that passed the level check
    emitted,      \* history: the calls whose own line was emitted
    reported,     \* history: the calls counted by an emitted summary line
    dropped       \* history: the calls whose count was reset without a summary line

shared == <<registered, last, initialized, captured, storing, suppressed>>
history == <<made, emitted, reported, dropped>>
vars == <<pc, call, victim, taken, todo, registered, mu, last, initialized,
          captured, storing, suppressed, level, phase, nops, made, emitted,
          reported, dropped>>

\* Logger::enabled(lvl) for the level written at site s.
Enabled(l, s) == Severity[s] >= level[l]

Site(t) == call[t].site

Init ==
    /\ pc = [t \in Threads |-> "idle"]
    /\ call = [t \in Threads |-> NULL]
    /\ victim = [t \in Threads |-> NULL]
    /\ taken = [t \in Threads |-> {}]
    /\ todo = [t \in Threads |-> {}]
    /\ registered = {}
    /\ mu = NULL
    /\ last = NULL
    /\ initialized = [s \in Sites |-> FALSE]
    /\ captured = [s \in Sites |-> NULL]
    /\ storing = {}
    /\ suppressed = [s \in Sites |-> {}]
    /\ level \in [Loggers -> Levels]
    /\ phase = "running"
    /\ nops = 0
    /\ made = {}
    /\ emitted = {}
    /\ reported = {}
    /\ dropped = {}

-----------------------------------------------------------------------------
(* A definition named after a fault, placed before the one it deviates     *)
(* from, is that definition with a plausible bug; nothing here uses it.    *)
(* The statement: level check, construction of the static DedupState, tick()*)

\* The level check of the macro; a disabled statement does nothing at all.
Log(t, s, l) ==
    /\ phase = "running" /\ nops < MaxOps
    /\ pc[t] = "idle"
    /\ Enabled(l, s)
    /\ LET c == [site |-> s, logger |-> l, id |-> nops]
       IN  /\ call' = [call EXCEPT ![t] = c]
           /\ made' = made \cup {c}
    /\ pc' = [pc EXCEPT ![t] = "construct"]
    /\ nops' = nops + 1
    /\ UNCHANGED <<victim, taken, todo, mu, shared, level, phase,
                   emitted, reported, dropped>>

\* The function-local static: its first user registers it, under the registry
\* mutex; everybody else finds it constructed.
Construct(t) ==
    /\ pc[t] = "construct"
    /\ Site(t) \in registered \/ mu = NULL
    /\ registered' = registered \cup {Site(t)}
    /\ pc' = [pc EXCEPT ![t] = "gate"]
    /\ UNCHANGED <<call, victim, taken, todo, mu, last, initialized, captured,
                   storing, suppressed, level, phase, nops, history>>

\* The initialized flag: the winner of the CAS owes the identity stores.
Gate(t) ==
    /\ pc[t] = "gate"
    /\ initialized' = [initialized EXCEPT ![Site(t)] = TRUE]
    /\ storing' = IF initialized[Site(t)] THEN storing ELSE storing \cup {t}
    /\ pc' = [pc EXCEPT ![t] = "check"]
    /\ UNCHANGED <<call, victim, taken, todo, registered, mu, last, captured,
                   suppressed, level, phase, nops, history>>

\* What the winner of the CAS stores into the field logger.
Identity(t) == call[t].logger

\* The identity stores of the winner leave its store buffer.
Publish(t) ==
    /\ t \in storing
    /\ captured' = [captured EXCEPT ![Site(t)] = Identity(t)]
    /\ storing' = storing \ {t}
    /\ UNCHANGED <<pc, call, victim, taken, todo, registered, mu, last,
                   initialized, suppressed, level, phase, nops, history>>

\* A statement that follows another one of the same site is a hit.
HitWhenUnset(t) == last \in {NULL, Site(t)}
Hit(t) == last = Site(t)

\* The load of g_last_dedup decides; acting on it is a later step.
Check(t) ==
    /\ pc[t] = "check"
    /\ pc' = [pc EXCEPT ![t] = IF Hit(t) THEN "suppress" ELSE "swap"]
    /\ UNCHANGED <<call, victim, taken, todo, mu, shared, level, phase, nops,
                   history>>

\* suppressed.fetch_add(1); the statement ends without a line.
Suppress(t) ==
    /\ pc[t] = "suppress" /\ t \notin storing
    /\ suppressed' = [suppressed EXCEPT ![Site(t)] = @ \cup {call[t]}]
    /\ pc' = [pc EXCEPT ![t] = "idle"]
    /\ call' = [call EXCEPT ![t] = NULL]
    /\ UNCHANGED <<victim, taken, todo, registered, mu, last, initialized,
                   captured, storing, level, phase, nops, history>>

\* The exchange returned another site.
DisplacesItself(t) == last = Site(t)
Displaces(t) == last \notin {NULL, Site(t)}

\* g_last_dedup.exchange(this); another site found there has to be flushed.
Swap(t) ==
    /\ pc[t] = "swap" /\ t \notin storing
    /\ last' = Site(t)
    /\ IF Displaces(t)
       THEN /\ victim' = [victim EXCEPT ![t] = last]
            /\ pc' = [pc EXCEPT ![t] = "take"]
       ELSE /\ pc' = [pc EXCEPT ![t] = "emit"]
            /\ UNCHANGED victim
    /\ UNCHANGED <<call, taken, todo, registered, mu, initialized, captured,
                   storing, suppressed, level, phase, nops, history>>

\* tick() returned true: the statement's own line goes to emit_f.
Emit(t) ==
    /\ pc[t] = "emit"
    /\ emitted' = emitted \cup {call[t]}
    /\ pc' = [pc EXCEPT ![t] = "idle"]
    /\ call' = [call EXCEPT ![t] = NULL]
    /\ UNCHANGED <<victim, taken, todo, mu, shared, level, phase, nops, made,
                   reported, dropped>>

-----------------------------------------------------------------------------
(* flush_summary(), reached from tick() and from flush_all()               *)

\* Where flush_summary() returns to: the loop of the mutex holder, or tick().
ReturnWithoutLine(t) == IF mu = t THEN "loop" ELSE "idle"
ReturnPC(t) == IF mu = t THEN "loop" ELSE "emit"

\* suppressed.exchange(0), and the early return when it was zero.
Take(t) ==
    /\ pc[t] = "take"
    /\ LET n == suppressed[victim[t]]
       IN  /\ taken' = [taken EXCEPT ![t] = n]
           /\ pc' = [pc EXCEPT ![t] = IF n = {} THEN ReturnPC(t) ELSE "summarize"]
    /\ victim' = IF suppressed[victim[t]] = {} THEN [victim EXCEPT ![t] = NULL] ELSE victim
    /\ suppressed' = [suppressed EXCEPT ![victim[t]] = {}]
    /\ UNCHANGED <<call, todo, registered, mu, last, initialized, captured,
                   storing, level, phase, nops, history>>

\* The null and level checks on the captured identity; the faulty variant
\* never stored the level and compares the default one.
RendersAtDefault(s) == captured[s] # NULL /\ 1 >= level[captured[s]]
Renders(s) == captured[s] # NULL /\ Enabled(captured[s], s)

\* The summary line, or the early returns after the count is already reset.
Summarize(t) ==
    /\ pc[t] = "summarize"
    /\ IF Renders(victim[t])
       THEN reported' = reported \cup taken[t] /\ UNCHANGED dropped
       ELSE dropped' = dropped \cup taken[t] /\ UNCHANGED reported
    /\ taken' = [taken EXCEPT ![t] = {}]
    /\ victim' = [victim EXCEPT ![t] = NULL]
    /\ pc' = [pc EXCEPT ![t] = ReturnPC(t)]
    /\ UNCHANGED <<call, todo, mu, shared, level, phase, nops, made, emitted>>

-----------------------------------------------------------------------------
(* flush_all(), from flush_dedup() or from the atexit handler              *)

\* The lock_guard of flush_all(), and the states its loop will visit: nobody can
\* register one meanwhile.  The faulty variant does not wait for the mutex.
LockRegistryAnyway(t) ==
    /\ mu' = t
    /\ todo' = [todo EXCEPT ![t] = registered]
    /\ pc' = [pc EXCEPT ![t] = "loop"]
LockRegistry(t) ==
    /\ mu = NULL
    /\ mu' = t
    /\ todo' = [todo EXCEPT ![t] = registered]
    /\ pc' = [pc EXCEPT ![t] = "loop"]

\* elog::flush_dedup(), called by the user at any time.
FlushDedup(t) ==
    /\ phase = "running" /\ nops < MaxOps
    /\ pc[t] = "idle"
    /\ LockRegistry(t)
    /\ nops' = nops + 1
    /\ UNCHANGED <<call, victim, taken, shared, level, phase, history>>

\* What the range-for has left after visiting s.
LeftUnchanged(t, s) == todo[t]
Left(t, s) == todo[t] \ {s}

\* The range-for over states.
Loop(t) ==
    /\ pc[t] = "loop"
    /\ \/ \E s \in todo[t] :
            /\ victim' = [victim EXCEPT ![t] = s]
            /\ todo' = [todo EXCEPT ![t] = Left(t, s)]
            /\ pc' = [pc EXCEPT ![t] = "take"]
       \/ /\ todo[t] = {}
          /\ pc' = [pc EXCEPT ![t] = "clear"]
          /\ UNCHANGED <<victim, todo>>
    /\ UNCHANGED <<call, taken, mu, shared, level, phase, nops, history>>

\* g_last_dedup.store(nullptr), then the mutex is released.
Clear(t) ==
    /\ pc[t] = "clear"
    /\ last' = NULL
    /\ mu' = NULL
    /\ pc' = [pc EXCEPT ![t] = "idle"]
    /\ phase' = IF phase = "exiting" THEN "exited" ELSE phase
    /\ UNCHANGED <<call, victim, taken, todo, registered, initialized, captured,
                   storing, suppressed, level, nops, history>>

\* register_dedup() has installed the atexit handler.
HandlerMissing == FALSE
HandlerInstalled == registered # {}

\* Orderly exit: the program has joined its threads and t, the main thread,
\* runs the atexit handler if there is one.  Threads still running
\* when main returns are outside of this model.
Exit(t) ==
    /\ phase = "running"
    /\ \A u \in Threads : pc[u] = "idle"
    /\ IF HandlerInstalled
       THEN phase' = "exiting" /\ LockRegistry(t)
       ELSE phase' = "exited" /\ UNCHANGED <<mu, todo, pc>>
    /\ UNCHANGED <<call, victim, taken, shared, level, nops, history>>

-----------------------------------------------------------------------------
(* The logger's own operations, as far as they matter here                 *)

SetLevel(t, l, v) ==
    /\ phase = "running" /\ nops < MaxOps
    /\ pc[t] = "idle"
    /\ level' = [level EXCEPT ![l] = v]
    /\ nops' = nops + 1
    /\ UNCHANGED <<pc, call, victim, taken, todo, mu, shared, phase, history>>

\* Logger::flush() visits sinks and tied loggers; no DedupState is touched.
LoggerFlush(t) ==
    /\ phase = "running" /\ nops < MaxOps
    /\ pc[t] = "idle"
    /\ pc' = [pc EXCEPT ![t] = "loggerflush"]
    /\ nops' = nops + 1
    /\ UNCHANGED <<call, victim, taken, todo, mu, shared, level, phase, history>>

LoggerFlushReturn(t) ==
    /\ pc[t] = "loggerflush"
    /\ pc' = [pc EXCEPT ![t] = "idle"]
    /\ UNCHANGED <<call, victim, taken, todo, mu, shared, level, phase, nops, history>>

Done ==
    /\ phase = "exited"
    /\ UNCHANGED vars

-----------------------------------------------------------------------------

\* What a thread does next inside an operation it has begun.
Step(t) ==
    \/ Construct(t) \/ Gate(t) \/ Publish(t) \/ Check(t) \/ Suppress(t)
    \/ Swap(t) \/ Emit(t) \/ Take(t) \/ Summarize(t) \/ Loop(t) \/ Clear(t)
    \/ LoggerFlushReturn(t)

\* The operations a thread may begin.
Begin(t) ==
    \/ \E s \in Sites, l \in Loggers : Log(t, s, l)
    \/ FlushDedup(t)
    \/ \E l \in Loggers, v \in Levels : SetLevel(t, l, v)
    \/ LoggerFlush(t)

Next == (\E t \in Threads : Step(t) \/ Begin(t) \/ Exit(t)) \/ Done

Spec == Init /\ [][Next]_vars

\* Every thread keeps running and the program ends: the scheduler is fair and
\* main returns once nothing is left to do.
Fairness ==
    /\ \A t \in Threads : WF_vars(Step(t))
    /\ WF_vars(\E t \in Threads : Exit(t))

FairSpec == Spec /\ Fairness

-----------------------------------------------------------------------------
(* Properties                                                              *)

PCs == {"idle", "construct", "gate", "check", "suppress", "swap", "emit",
        "take", "summarize", "loop", "clear", "loggerflush"}

\* Type invariant; only the holder of the registry mutex walks the states.
TypeOK ==
    /\ pc \in [Threads -> PCs]
    /\ call \in [Threads -> Call \cup {NULL}]
    /\ victim \in [Threads -> Sites \cup {NULL}]
    /\ taken \in [Threads -> SUBSET Call]
    /\ todo \in [Threads -> SUBSET Sites]
    /\ registered \subseteq Sites
    /\ mu \in Threads \cup {NULL}
    /\ \A t \in Threads : pc[t] \in {"loop", "clear"} => mu = t
    /\ last \in Sites \cup {NULL}
    /\ initialized \in [Sites -> BOOLEAN]
    /\ captured \in [Sites -> Loggers \cup {NULL}]
    /\ storing \subseteq Threads
    /\ suppressed \in [Sites -> SUBSET Call]
    /\ level \in [Loggers -> Levels]
    /\ phase \in {"running", "exiting", "exited"}
    /\ nops \in Nat
    /\ made \subseteq Call /\ emitted \subseteq Call
    /\ reported \subseteq Call /\ dropped \subseteq Call

\* Calls hidden by tick() that flush_summary() has not yet taken, calls whose
\* count a thread has taken but not rendered, and statements being executed.
Pending == UNION {suppressed[s] : s \in Sites}
InHand == UNION {taken[t] : t \in Threads}
Open == {call[t] : t \in Threads} \ {NULL}

\* No count is lost or doubled, whatever the races of fetch_add, exchange(0)
\* and the two ways into flush_summary(): each call that passed the level
\* check is in progress, or emitted, or still counted, or reported, or
\* dropped, and never two of these.
Accounting ==
    /\ made = Open \cup emitted \cup Pending \cup InHand \cup reported \cup dropped
    /\ \A t, u \in Threads : t # u => taken[t] \cap taken[u] = {}
    /\ Open \cap (emitted \cup Pending \cup InHand \cup reported \cup dropped) = {}
    /\ emitted \cap (Pending \cup InHand \cup reported \cup dropped) = {}
    /\ Pending \cap (InHand \cup reported \cup dropped) = {}
    /\ InHand \cap (reported \cup dropped) = {}
    /\ reported \cap dropped = {}

\* The atexit handler leaves nothing behind: once the process has exited no
\* DedupState holds a count and no thread has one in its hands, although
\* register_dedup() installs the handler only after the first registration.
ExitReports ==
    phase = "exited" => Pending \cup InHand \cup Open = {}

\* A line of site s has been emitted or is about to be: some call at s has
\* gone through the exchange on g_last_dedup.
Leads(s) ==
    \/ \E c \in emitted : c.site = s
    \/ \E t \in Threads : /\ call[t] # NULL /\ call[t].site = s
                          /\ pc[t] \in {"take", "summarize", "emit"}

\* A call is hidden only behind a line: no site has a counted, reported or
\* dropped call unless a call of that site took the emitting path, across
\* all resets of g_last_dedup by concurrent flush_all() calls.
HiddenBehindLine ==
    \A c \in Pending \cup InHand \cup reported \cup dropped : Leads(c.site)

\* A count is given up for one of two reasons only: the captured logger has
\* the site's level disabled by now, or the thread that first hit the site
\* has not made the identity stores visible yet.
DropsExplained ==
    [][\A c \in dropped' \ dropped :
          \/ \E u \in storing : Site(u) = c.site
          \/ captured[c.site] # NULL /\ ~Enabled(captured[c.site], c.site)]_vars

\* The deduplication implements the ledger: hiding, taking and settling
\* counts are steps of DedupLedger, everything else is invisible to it.
Ledger == INSTANCE DedupLedger WITH hidden <- Pending \cup InHand, open <- Open
LedgerSpec == Ledger!Spec

\* Under a fair scheduler no statement, flush or exit handler waits for ever
\* (for the registry mutex or for another thread): every operation returns.
OperationsReturn == \A t \in Threads : pc[t] # "idle" ~> pc[t] = "idle"

\* Under a fair scheduler the program ends, with every count settled.
SettledInTheEnd ==
    <>(phase = "exited" /\ made = emitted \cup reported \cup dropped)

\* flush_summary() promises "Emit the suppressed-summary line if suppressed
\* > 0; reset count" (include/elog/aggregate.hpp:90): no count is reset
\* without its line, as long as no level changes.
SummaryEmitted == dropped = {}

=============================================================================
