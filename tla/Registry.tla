------------------------------ MODULE Registry ------------------------------
(***************************************************************************)
(* The registry of loggers and the default logger (src/registry.cpp,       *)
(* src/default_logger.cpp, include/elog/logger.hpp).                       *)
(*                                                                         *)
(* Registry operations hold the registry's mutex from beginning to end and *)
(* are one action each.  default_logger() is not one of them: its static   *)
(* is constructed by the first thread that needs it, others wait for the   *)
(* guard, and the new logger is registered in a step of its own.           *)
(* A logger is a number, in the order of construction.                     *)
(***************************************************************************)
EXTENDS Naturals, FiniteSets

CONSTANTS
    Clients,     \* threads that look up loggers
    Names,       \* names passed to the registry
    Default,     \* the name "default"
    MaxLoggers,  \* bound: loggers constructed
    MaxRemoves,  \* bound: remove_logger() calls
    None         \* nullptr, nobody

ASSUME RegistryAssumption ==
    /\ Default \in Names
    /\ MaxLoggers \in Nat /\ MaxRemoves \in Nat
    /\ None \notin Nat /\ None \notin Clients

VARIABLES
    owned,      \* Registry::owned: the logger a name owns, or None
    all,        \* Registry::all: the logger a name stands for, or None
    alive,      \* loggers constructed and not destroyed
    made,       \* number of loggers constructed
    init,       \* how far the static of default_logger() is initialized
    guard,      \* the thread that initializes it, or None
    default,    \* the logger default_logger_init() has constructed, or None
    held,       \* held[t]: the reference t obtained last, with its name, or None
    removes,    \* remove_logger() calls so far
    split       \* history: why Default may mean two loggers: "early", if
                \* get_logger(Default) came before the registration of the
                \* default logger; "removed", if remove_logger(Default) was called

registryVars == <<owned, all, alive, made, init, guard, default, held, removes, split>>

RegistryInit ==
    /\ owned = [n \in Names |-> None]
    /\ all = [n \in Names |-> None]
    /\ alive = {} /\ made = 0
    /\ init = "none" /\ guard = None /\ default = None
    /\ held = [t \in Clients |-> None]
    /\ removes = 0
    /\ split = {}

-----------------------------------------------------------------------------
(* A definition named after a fault, placed before the one it deviates     *)
(* from, is that definition with a plausible bug; nothing here uses it.    *)

Hold(t, n, l) == held' = [held EXCEPT ![t] = [name |-> n, logger |-> l]]

Construct ==
    /\ made < MaxLoggers
    /\ made' = made + 1
    /\ alive' = alive \cup {made + 1}

\* What a look-up finds.
KnownOwned(n) == owned[n]
Known(n) == all[n]

\* get_logger() and find_logger() of a name that is there.
Find(t, n) ==
    /\ guard # t
    /\ Known(n) # None
    /\ Hold(t, n, Known(n))
    /\ UNCHANGED <<owned, all, alive, made, init, guard, default, removes, split>>

\* get_logger() of an unknown name: the registry owns the new logger.
Create(t, n) ==
    /\ guard # t
    /\ Known(n) = None
    /\ Construct
    /\ owned' = [owned EXCEPT ![n] = made']
    /\ all' = [all EXCEPT ![n] = made']
    /\ Hold(t, n, made')
    /\ split' = split \cup IF n = Default /\ init \in {"none", "constructed"}
                         THEN {"early"} ELSE {}
    /\ UNCHANGED <<init, guard, default, removes>>

\* remove_logger(): destroys what the name owns, forgets what it stands for.
Without(f, n) == [f EXCEPT ![n] = None]
ForgottenUnlessOwned(n) == IF owned[n] = None THEN Without(all, n) ELSE all
Forgotten(n) == Without(all, n)

RemoveLogger(n) ==
    /\ removes < MaxRemoves
    /\ removes' = removes + 1
    /\ alive' = alive \ {owned[n]}
    /\ owned' = Without(owned, n)
    /\ all' = Forgotten(n)
    /\ split' = split \cup IF n = Default THEN {"removed"} ELSE {}
    /\ UNCHANGED <<made, init, guard, default, held>>

\* default_logger() for the first time: the thread takes the guard of the
\* static and default_logger_init() constructs the logger ...
BeginDefault(t) ==
    /\ init = "none"
    /\ init' = "constructed" /\ guard' = t
    /\ Construct
    /\ default' = made'
    /\ UNCHANGED <<owned, all, held, removes, split>>

\* ... registers it under its name, whatever the name stands for by then ...
RegisterDefault ==
    /\ init = "constructed"
    /\ init' = "registered"
    /\ all' = [all EXCEPT ![Default] = default]
    /\ UNCHANGED <<owned, alive, made, guard, default, held, removes, split>>

\* ... and the static is initialized; the threads that waited go on.
EndDefault ==
    /\ init = "registered"
    /\ init' = "done" /\ guard' = None
    /\ Hold(guard, Default, default)
    /\ UNCHANGED <<owned, all, alive, made, default, removes, split>>

\* default_logger() later on.
UseDefault(t) ==
    /\ init = "done"
    /\ Hold(t, Default, default)
    /\ UNCHANGED <<owned, all, alive, made, init, guard, default, removes, split>>

RegistryNext ==
    \/ \E t \in Clients : BeginDefault(t) \/ UseDefault(t)
    \/ \E t \in Clients, n \in Names : Find(t, n) \/ Create(t, n)
    \/ \E n \in Names : RemoveLogger(n)
    \/ RegisterDefault \/ EndDefault

RegistrySpec == RegistryInit /\ [][RegistryNext]_registryVars

-----------------------------------------------------------------------------
(* Properties                                                              *)

\* Type invariant; no name leads to a destroyed logger, no logger is owned
\* twice, and the loggers alive are the owned ones and the default logger.
Owned == {owned[n] : n \in Names} \ {None}
RegistryTypeOK ==
    /\ \A n \in Names :
         /\ owned[n] \in alive \cup {None} /\ all[n] \in alive \cup {None}
         /\ owned[n] # None => all[n] # None
         /\ \A m \in Names \ {n} : owned[m] = owned[n] => owned[n] = None
    /\ alive = Owned \cup ({default} \ {None})
    /\ default \notin Owned \ {None}
    /\ alive \subseteq 1 .. made /\ made <= MaxLoggers
    /\ init \in {"none", "constructed", "registered", "done"}
    /\ (guard # None) = (init \in {"constructed", "registered"})
    /\ removes \in 0 .. MaxRemoves /\ split \subseteq {"early", "removed"}

\* From its registration on the default logger is what get_logger(Default) finds,
\* also when the name had been taken before; only remove_logger(Default) ends this.
DefaultIsFound ==
    init \in {"registered", "done"} /\ "removed" \notin split => all[Default] = default

\* A name means one logger to everybody: a reference to a logger that still
\* exists is what the registry has under the name it was obtained with, however
\* look-ups, creations and removals were interleaved.  "`get_logger("default")`
\* returns the same instance as `elog::default_logger()`" (docs/multi-logger.md:
\* 39-40) is not kept: Default may mean two loggers if it was asked for before the
\* registration or removed; no more than two, the default logger and one that the
\* registry owns, and new references agree again once the default logger is
\* registered.
ReferencesAgree ==
    /\ DefaultIsFound
    /\ \A t \in Clients :
        held[t] # None /\ held[t].logger \in alive =>
            \/ held[t].logger = all[held[t].name]
            \/ /\ held[t].name = Default /\ split # {}
               /\ held[t].logger \in {default, owned[Default]}

=============================================================================
