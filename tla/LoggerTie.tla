------------------------------ MODULE LoggerTie ------------------------------
(***************************************************************************)
(* Fan-out between loggers: Logger::tie, untie, emit and flush             *)
(* (src/logger.cpp).                                                       *)
(*                                                                         *)
(* emit() and flush() recurse along the ties; a thread-local set of        *)
(* visited loggers keeps cycles from recursing for ever.  Ties may be      *)
(* changed by other threads between any two steps of a recursion: the      *)
(* atomic tie_count_ is read first, the tie list is copied under tie_mu_   *)
(* later, and the copy is walked without the lock.  One action is one such *)
(* access together with the thread-local work that follows it.             *)
(*                                                                         *)
(* ties_ is modelled as a set: tie() keeps it free of duplicates, and the  *)
(* order of forwarding is left open.  tie_count_, stored under the same    *)
(* lock as every change of ties_, is zero exactly when the set is empty.   *)
(***************************************************************************)
EXTENDS Naturals, Sequences, FiniteSets, SequencesExt

CONSTANTS
    Threads,     \* threads that log, flush and configure
    Loggers,     \* the loggers
    MaxChains,   \* bound: top-level emit() and flush() calls
    MaxConfig,   \* bound: tie() and untie() calls that change something
    MaxShared,   \* bound: the same, in a run with more than one chain
    NULL         \* no logger

ASSUME ConstantsAssumption ==
    /\ NULL \notin Loggers /\ IsFiniteSet(Loggers)
    /\ MaxChains \in Nat /\ MaxConfig \in Nat /\ MaxShared \in Nat

VARIABLES
    ties,      \* Logger::ties_, per logger
    op,        \* op[t]: what t's call chain does, "emit" or "flush"
    target,    \* target[t]: the logger whose emit()/flush() t is about to enter
    stack,     \* stack[t]: t's activations of emit()/flush() that forward to ties
    visited,   \* tl_emit_visited, per thread
    chains,    \* number of top-level calls so far
    configs,   \* number of changes of ties so far
    root,      \* history: root[t] is the logger t's chain started at
    copies,    \* history: copies[t][l]: how often t's chain reached l's sinks
    stable     \* history: stable[t]: ties in place throughout t's chain, and
               \* whether nothing at all changed since its start

history == <<root, copies, stable>>
vars == <<ties, op, target, stack, visited, chains, configs, root, copies, stable>>

Edges == {e \in Loggers \X Loggers : e[2] \in ties[e[1]]}

Busy(t) == target[t] # NULL \/ stack[t] # <<>>
Top(t) == Head(stack[t])

\* An activation: the snapshot of the ties is still to be taken ("snap") or is
\* being walked ("forward"), todo holding what is left of it.
Frame == [logger : Loggers, at : {"snap", "forward"}, todo : SUBSET Loggers]

Init ==
    /\ ties = [l \in Loggers |-> {}]
    /\ op = [t \in Threads |-> "emit"]
    /\ target = [t \in Threads |-> NULL]
    /\ stack = [t \in Threads |-> <<>>]
    /\ visited = [t \in Threads |-> {}]
    /\ chains = 0 /\ configs = 0
    /\ root = [t \in Threads |-> NULL]
    /\ copies = [t \in Threads |-> [l \in Loggers |-> 0]]
    /\ stable = [t \in Threads |-> [edges |-> {}, clean |-> TRUE]]

-----------------------------------------------------------------------------
(* A definition named after a fault, placed before the one it deviates     *)
(* from, is that definition with a plausible bug; nothing here uses it.    *)

\* A thread calls emit() (past the level check of the macro) or flush() on l.
Start(t, o, l) ==
    /\ ~Busy(t) /\ chains < MaxChains
    /\ chains > 0 => configs <= MaxShared
    /\ op' = [op EXCEPT ![t] = o]
    /\ target' = [target EXCEPT ![t] = l]
    /\ chains' = chains + 1
    /\ root' = [root EXCEPT ![t] = l]
    /\ copies' = [copies EXCEPT ![t] = [m \in Loggers |-> 0]]
    /\ stable' = [stable EXCEPT ![t] = [edges |-> Edges, clean |-> TRUE]]
    /\ UNCHANGED <<ties, stack, visited, configs>>

\* The sinks of l are written or flushed by t's chain.
ReachSinks(t, l) == copies' = [copies EXCEPT ![t][l] = @ + 1]

Push(t, l) ==
    stack' = [stack EXCEPT ![t] =
                <<[logger |-> l, at |-> "snap", todo |-> {}]>> \o @]

Enter(t, o) ==
    /\ target[t] # NULL /\ op[t] = o
    /\ target' = [target EXCEPT ![t] = NULL]
    /\ UNCHANGED <<ties, op, chains, configs, root, stable>>

\* The fast-path test and the cycle test, each after a faulty variant.
UntiedOffByOne(l) == Cardinality(ties[l]) <= 1
Untied(l) == ties[l] = {}

UnvisitedAlways(t) == TRUE
Unvisited(t) == target[t] \notin visited[t]

\* emit() finds tie_count_ zero: sinks only, without the visited set.
EmitFast(t) ==
    /\ Enter(t, "emit")
    /\ Untied(target[t])
    /\ ReachSinks(t, target[t])
    /\ UNCHANGED <<stack, visited>>

\* emit() finds ties and an unvisited logger: guard, sinks, then the ties.
EmitTied(t) ==
    /\ Enter(t, "emit")
    /\ ~Untied(target[t]) /\ Unvisited(t)
    /\ visited' = [visited EXCEPT ![t] = @ \cup {target[t]}]
    /\ ReachSinks(t, target[t])
    /\ Push(t, target[t])

\* emit() finds ties and a logger its own chain is already in: return.
EmitVisited(t) ==
    /\ Enter(t, "emit")
    /\ ~Untied(target[t]) /\ ~Unvisited(t)
    /\ UNCHANGED <<stack, visited, copies>>

\* flush() flushes the sinks before it looks at the visited set.
FlushEnter(t) ==
    /\ Enter(t, "flush")
    /\ ReachSinks(t, target[t])
    /\ Push(t, target[t])
    /\ UNCHANGED visited

-----------------------------------------------------------------------------

\* flush() takes its guard only after the copy of ties_.
CopyTies(t) ==
    /\ target[t] = NULL /\ stack[t] # <<>> /\ Top(t).at = "snap"
    /\ LET l == Top(t).logger
       IN  IF op[t] = "flush" /\ l \in visited[t]
           THEN /\ stack' = [stack EXCEPT ![t] = Tail(@)]
                /\ UNCHANGED visited
           ELSE /\ stack' = [stack EXCEPT ![t][1] = [@ EXCEPT !.at = "forward",
                                                              !.todo = ties[l]]]
                /\ visited' = [visited EXCEPT ![t] = @ \cup {l}]
    /\ UNCHANGED <<ties, op, target, chains, configs, history>>

\* The lock of tie_mu_ covers the copy only; the faulty variant keeps it while
\* forwarding.
SnapshotHoldingLock(t) ==
    /\ CopyTies(t)
    /\ \A u \in Threads : \A i \in DOMAIN stack[u] :
         stack[u][i].at = "forward" => stack[u][i].logger # Top(t).logger
Snapshot(t) == CopyTies(t)

\* The loop over the snapshot calls the next tied logger.
Forward(t) ==
    /\ target[t] = NULL /\ stack[t] # <<>> /\ Top(t).at = "forward"
    /\ \E l \in Top(t).todo :
         /\ target' = [target EXCEPT ![t] = l]
         /\ stack' = [stack EXCEPT ![t][1].todo = @ \ {l}]
    /\ UNCHANGED <<ties, op, visited, chains, configs, history>>

\* The guard unmarks the logger it marked.
UnmarkNothing(t) == visited[t]
Unmark(t) == visited[t] \ {Top(t).logger}

\* The loop ends.
Return(t) ==
    /\ target[t] = NULL /\ stack[t] # <<>>
    /\ Top(t).at = "forward" /\ Top(t).todo = {}
    /\ visited' = [visited EXCEPT ![t] = Unmark(t)]
    /\ stack' = [stack EXCEPT ![t] = Tail(@)]
    /\ UNCHANGED <<ties, op, target, chains, configs, history>>

-----------------------------------------------------------------------------

Configure(t) ==
    /\ ~Busy(t) /\ configs < MaxConfig
    /\ chains > 1 => configs < MaxShared
    /\ configs' = configs + 1
    /\ UNCHANGED <<op, target, stack, visited, chains, root, copies>>

\* tie(): a logger is never tied to itself, nor twice to the same one.
Tie(t, l, m) ==
    /\ Configure(t)
    /\ l # m /\ m \notin ties[l]
    /\ ties' = [ties EXCEPT ![l] = @ \cup {m}]
    /\ stable' = [u \in Threads |-> [stable[u] EXCEPT !.clean = FALSE]]

Untie(t, l, m) ==
    /\ Configure(t)
    /\ m \in ties[l]
    /\ ties' = [ties EXCEPT ![l] = @ \ {m}]
    /\ stable' = [u \in Threads |-> [edges |-> stable[u].edges \ {<<l, m>>},
                                     clean |-> FALSE]]

\* The recursion of one thread.
Step(t) ==
    \/ EmitFast(t) \/ EmitTied(t) \/ EmitVisited(t) \/ FlushEnter(t)
    \/ Snapshot(t) \/ Forward(t) \/ Return(t)

Begin(t) ==
    \/ \E o \in {"emit", "flush"}, l \in Loggers : Start(t, o, l)
    \/ \E l, m \in Loggers : Tie(t, l, m) \/ Untie(t, l, m)

\* No call is in progress; the system may rest.
Quiet == (\A t \in Threads : ~Busy(t)) /\ UNCHANGED vars

Next == (\E t \in Threads : Step(t) \/ Begin(t)) \/ Quiet

Spec == Init /\ [][Next]_vars

\* Every thread inside emit() or flush() keeps running.
FairSpec == Spec /\ \A t \in Threads : WF_vars(Step(t))

-----------------------------------------------------------------------------
(* Properties                                                              *)

\* Type invariant; the recursion is never deeper than there are loggers, plus
\* the one flush() that finds its logger already visited.
TypeOK ==
    /\ ties \in [Loggers -> SUBSET Loggers]
    /\ op \in [Threads -> {"emit", "flush"}]
    /\ target \in [Threads -> Loggers \cup {NULL}]
    /\ stack \in [Threads -> Seq(Frame)]
    /\ \A t \in Threads : Len(stack[t]) <= Cardinality(Loggers) + 1
    /\ visited \in [Threads -> SUBSET Loggers]
    /\ chains \in 0 .. MaxChains /\ configs \in 0 .. MaxConfig
    /\ root \in [Threads -> Loggers \cup {NULL}]
    /\ copies \in [Threads -> [Loggers -> Nat]]
    /\ stable \in [Threads -> [edges : SUBSET (Loggers \X Loggers), clean : BOOLEAN]]

\* The loggers of t's activations that took the guard.
Guarded(t) ==
    {stack[t][i].logger : i \in {j \in DOMAIN stack[t] :
                                    op[t] = "emit" \/ stack[t][j].at = "forward"}}

\* The guards and the recursion agree whatever other threads do to the ties:
\* the visited set holds exactly the loggers of the guarded activations, each
\* activated once, and is empty again when the chain is over -- a leftover
\* would make later emits on that thread skip a logger for ever.
GuardsMatchStack ==
    \A t \in Threads :
        /\ visited[t] = Guarded(t)
        /\ Cardinality(visited[t]) >= Len(stack[t]) - (IF op[t] = "emit" THEN 0 ELSE 1)

\* The ways to reach m from o along edges E without meeting a logger twice.
SimplePaths(o, m, E) ==
    {p \in SeqOf(Loggers, Cardinality(Loggers)) :
        /\ p # <<>> /\ p[1] = o /\ p[Len(p)] = m
        /\ IsInjective(p)
        /\ \A i \in 1 .. Len(p) - 1 : <<p[i], p[i + 1]>> \in E}

\* flush() also flushes again the sinks of a logger it is already inside.
FlushVisits(o, m, E) ==
    (IF m = o THEN 1 ELSE 0)
      + Cardinality(UNION {{Append(p, m) : p \in SimplePaths(o, l, E)} :
                              l \in {x \in Loggers : <<x, m>> \in E}})

\* While nobody reconfigures, a chain writes each logger once per simple path
\* of ties that leads to it (one copy per logger where the paths are unique,
\* as in A.tie(B); B.tie(A)), and flushes it once per way in.
ExactCopies ==
    [][\A t \in Threads :
         Busy(t) /\ ~Busy(t)' /\ stable[t].clean =>
            \A m \in Loggers :
               copies'[t][m] =
                 IF op[t] = "emit"
                 THEN Cardinality(SimplePaths(root[t], m, stable[t].edges))
                 ELSE FlushVisits(root[t], m, stable[t].edges)]_vars

\* Reconfiguration by other threads costs no copy elsewhere: every logger that
\* stays reachable from the root throughout the chain is written or flushed.
StableReach ==
    [][\A t \in Threads :
         Busy(t) /\ ~Busy(t)' =>
            \A m \in Loggers :
               SimplePaths(root[t], m, stable[t].edges) # {} => copies'[t][m] > 0]_vars

\* Under a fair scheduler every emit() and flush() returns, cycles or not.
ChainsEnd == \A t \in Threads : Busy(t) ~> ~Busy(t)

=============================================================================
