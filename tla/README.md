# ELog in TLA+

TLA+ modules, TLC runs and TLAPS proofs for ELog, a C++14
logging library. Source paths below are relative to the repository.

## 1. Inventory

| component | state | operations | talks to |
|---|---|---|---|
| Statements (`LOG_*`, macros.hpp, emit.hpp) | per call site: a function-local static for the aggregating forms; per thread: a scratch buffer, a pool of iovecs | level test, gate, prologue, rendering, `Logger::emit` | gates, prologue, renderers, logger |
| Deduplication (aggregate.cpp, `LOG_*_DEDUP`) | per site: `suppressed`, `initialized`, captured logger/level/file/line; global: `g_last_dedup`, registry of sites with its mutex, atexit handler | `tick`, `flush_summary`, `flush_all`, `register_dedup` | emits summaries through the captured logger; reads its level |
| Rate gates (aggregate.cpp, aggregate.hpp) | per site: wrapping counter, next allowed time, or token bucket with a mutex | `tick` | clock |
| Logger (logger.cpp) | level, sinks, prologue, ties with a mutex and an atomic count; per thread: the visited set | `emit`, `flush`, `tie`, `untie`, `set_level`, configuration | sinks, other loggers |
| Registry (registry.cpp, default_logger.cpp) | owned loggers, all names, a mutex | `get_logger`, `find_logger`, `remove_logger`, `register_logger` | creates loggers and never destroys itself |
| Fd sinks (sink.cpp) | a descriptor | `write` (a writev loop without a mutex), `flush` | kernel |
| Rotating sink (rotating_sink.cpp) | descriptor, byte counter, mutex; the chain of files | `write`, `rotate_locked`, `flush` | file system, other processes |
| Buffered sink (buffered_file_sink.cpp) | buffer and position, threshold, mutex | `write`, `flush`, `flush_locked`, destructor | file system, owner of the sink |
| Async sink (examples, sink_async.hpp) | bounded queue, `stop_`, `dropped_`, mutex, two condition variables, worker | `write`, `flush`, `run`, `drain`, destructor | inner sink |
| Emission (emit.hpp, iov_pack.hpp, scratch.cpp) | per thread: scratch buffer, pointer to the running statement's pool of iovecs; per activation: cursor, rendered arguments | `emit_f`, `iov_scratch_alloc` | prologue, renderers (also the user's), logger |
| Prologue (prologue.cpp) | per thread: text of the current second, thread id | `default_prologue` | clock |
| Format (format.hpp) | none | `count_pieces`, `count_lit_chars`, `make_spec`, at compile time | |
| Renderers (render.cpp, render_extra.*) | none; they move the caller's cursor | `elog_render` for about forty types | each other, Grisu2 |

What is hard:

* **Concurrency without locks.** Deduplication is a handful of atomics whose
  order matters; `Logger::emit` reads the tie count, the visited set and the tie
  list at different moments; gates decide with clock readings older than their
  state; the fd sinks rely on the kernel.
* **Reentrancy.** Renderers and sinks are user code and may log: the inner statement
  uses the scratch buffer and the pool pointer of the outer one.
* **Aliasing.** A rendered value is in scratch or elsewhere, and padding and
  containers must know which; a full buffer cuts values short.
* **Failure.** Every `writev`, `rename`, `unlink` and `open` result is ignored or
  treated as the end of the line; the process may die between any two of them.
* **Ordering.** Counts are reset before it is known whether they can be printed;
  lines are counted before they are written; rotation follows the write.
* **Lifetime.** What is flushed at exit depends on who owns a sink, and on which
  handlers were installed.

What makes each component correct: deduplication loses and doubles no count and
hides a call only behind a line; a tie chain ends, delivers one copy per path and
leaves no trace in its thread; a rotating chain holds the tail of what was
written, each file bounded; a buffered sink's file is a prefix of what it
accepted and contains everything critical; a line of a fd sink arrives whole
unless writev is short; an async sink delivers in order and accounts for drops;
the registry maps a name to one living logger; a rate gate passes exactly what it
promises; a sink is handed the text its statement means. `PROJECT.json` lists the
hazards line by line with the properties that watch them.

## 2. Modules

| module | models | state and actions |
|---|---|---|
| `Dedup` | deduplication: macro, `tick`, `flush_summary`, registry, exit handler | one variable per field of `DedupState` plus `g_last_dedup`, registry and mutex; `pc[t]` is a thread's place in the code; one action per atomic access (`Check` is the load of `g_last_dedup`, `Swap` its exchange, `Take` the `exchange(0)`, ...) |
| `DedupLedger` | what deduplication promises: each call is emitted or hidden, hidden calls are settled once | abstract |
| `MCDedup` | TLC instances of `Dedup` | |
| `DedupProofs` | theorems about `Dedup` | |
| `LoggerTie` | `tie`, `untie`, `emit`, `flush`, visited set | a stack of activations per thread; tie-count test with the sinks, copy of the ties, one forwarding call, and return are separate actions |
| `MCLoggerTie` | TLC instances of `LoggerTie` | |
| `RotatingSink` | rotating sink over a file system | one action per system call; crashes, faults and a foreign writer as actions |
| `TailLog` | a log bounded from behind | abstract |
| `BufferedSink` | buffered sink in the life of its process | `buf` is `buf_[0..pos_)`; one action per `writev`, `memcpy`, return |
| `WriteBehindLog` | a log whose durable part trails the accepted part | abstract |
| `FdSink`, `MCFdSink` | `write()` of stderr, stdout and file sinks by concurrent threads | `rest[w]` is what `writev_all` of thread `w` has still to write; one action per `writev` |
| `AsyncSink` | the asynchronous skeleton: queue, worker, condition variables, destructor | one action per critical section of `mu_`, notification, or call of the inner sink |
| `LossyQueue` | a queue that refuses when full and loses only at death | abstract |
| `RateGates`, `MCRateGates` | `EVERY_N`, `FIRST_N`, `EVERY_N_SEC`/`_MS`, `SAMPLED`, `BURST`: one statement run by several threads | one action per atomic access or critical section; `now[t]` is the reading a thread decides with |
| `Registry` | `get_logger`, `find_logger`, `remove_logger`, the construction of the default logger | one action per critical section; the construction in three steps, under the guard of its static |
| `SequenceLemmas` | facts that the proofs share about concatenation, heads, tails, prefixes, finite sets of numbers, functions defined by recursion and `FlattenSeq` | |
| `AsyncSinkProofs`, `BufferedSinkProofs`, `FdSinkProofs`, `RotatingSinkProofs` | theorems about the module of that name | |
| `LoggerProofs` | theorems about `LoggerTie` and `Registry` | it extends both, which is why the names of `Registry` carry the module's (`RegistryTypeOK`, `RegistrySpec`, ...) |
| `Scratch` | the scratch buffer with its cursor, and what a renderer gives back | operators |
| `Statement` | a statement from the level test to the sinks: prologue with its caches, arguments, pool, nested statements | `frames` is the stack of activations of `emit_f`; one action per argument, assembly, and read by a sink; what renders a value is a constant, `Rendered` |
| `Renderers` | every `elog_render`: cursor, room, in scratch or borrowed | `Render(m, v)` over memory and cursor, which the run gives `Rendered` as its value, and `Meaning(v)`, what a value means |
| `FormatSpec` | the format language and `make_spec` | operators, and `Substituted`, what a format means |
| `StatementLines`, `MCStatement` | the line a sink reads and the line that was meant | composes `Statement`, `Renderers` and `FormatSpec` |
| `StatementProofs` | theorems about `RateGates` and `Statement` | it extends both, so the names of `Statement` carry the module's (`StatementSpec`, ...) |

Where a value matters only by identity it is one: a suppressed counter is the *set*
of the calls it counts (its value is the cardinality), a byte of a file is the
number of the line it belongs to, a level is a number. In `Statement` a byte is one
symbol, and the words the library supplies itself (time stamps, `<null>`, escape
sequences) are one or two, so that they can still be cut in the middle.

**Unsynchronised stores.** The identity fields of a `DedupState` are plain stores
after the CAS that lets other threads pass. `Dedup` keeps them in the store buffer
of the winner (`storing`, `Publish`) until its next read-modify-write, and a reader
that comes earlier finds `logger == nullptr`. The four stores become visible
together; a reader that saw some of them would find `file == nullptr` and give up
the count in the same way, or print a wrong line number.

**What a statement's emission is.** `Emit` and `Summarize` stand for the whole of
`emit_f`: rendering and sinks touch no dedup state. A sink or a renderer that
itself uses a `DEDUP` statement is not modelled. At exit all threads but the main
one have ended; `register_dedup()` adds to the registry before it installs the
handler, both in `Construct`.

**Caches of the prologue.** The cached second and the text formatted for it are two
variables of `Statement`; a line shows the text, and `LineAsWritten` wants the second
of the statement's own clock reading.

**Time in the file systems.** `RotatingSink` and `BufferedSink` have no variable for
the mutex: `write()` and `flush()` of all threads are a sequence, and only crashes,
failures and other processes come between their system calls. `FdSink` has no mutex
to begin with: there the writers are separate processes of the model.

**User code in `Statement`.** A renderer that logs (`RendererLogs`) and a sink that
logs (`SinkLogs`) push another activation; it starts at the bottom of the same
scratch buffer. Everything is thread-local, so there is one thread. A format with
more holes than arguments reads an uninitialised slot in the code and is excluded
by `FormatsAssumption`; so is, by documentation, a renderer that throws. A
value that needs more room than is left may write past the end of the buffer: the
model keeps the bytes, marks the state (`Overrun`) and stops there.

**Tokens and clocks.** `RateGates` counts tokens in integer units (the code uses
doubles) and lets the clock stand still or jump; the wrap of the counters happens
at `2^Width`.

**Faulty variants.** An operator named after a fault (`HitWhenUnset`,
`FlushLockedNever`, ...) stands before the one it deviates from. No specification
uses it; put in the place of its neighbour it is a plausible bug, and the runs
find the property of the same row in `PROJECT.json` violated. So every
property is known to be breakable by a change of the code it is about.

## 3. Runs

| run | bounds | checks |
|---|---|---|
| `dedup` | 2 threads, 2 sites at different levels, 1 logger, 5 operations, fair | `TypeOK`, `Accounting`, `ExitReports`, `HiddenBehindLine`, `DropsExplained`, refinement `LedgerSpec`, liveness `OperationsReturn`, `SettledInTheEnd` |
| `tie` | 2 threads, 3 loggers, 5 changes and 1 chain or 2 changes and 2 chains, fair | `TypeOK`, `GuardsMatchStack`, `ExactCopies`, `StableReach`, liveness `ChainsEnd` |
| `rotate` | 1 to 3 files of 3 bytes, 4 lines of 1 or 4, any 3 incidents | `TypeOK`, `GrowthBound`, `CounterCoversFile`, `LinesInOrder`, `NoPrematureEviction`, refinement `TailSpec` |
| `buffer` | a buffer of 4, 4 lines of 1, 3 or 5, 1 flush, a short and two failing writes, both owners | `TypeOK`, `SettledIsDurable`, `TornLines`, `ScopedShutdownKeepsLines`, refinement `LogSpec` |
| `fdsink` | 2 writers with 2 lines and 1, plain and coloured, 2 short writes, 1 failing, arrays of 3 and 4 iovecs, fair | `TypeOK`, `LinesIntact`, `TornByShortWritesOnly`, liveness `WritesReturn` |
| `async` | 2 threads, a queue of 2, 5 lines, 2 flushes, both owners, fair | `TypeOK`, `FlushLagsByOne`, refinement `QueueSpec`, liveness `FlushReturns`, `EndsDelivered` |
| `registry` | 3 threads, 2 names, 4 loggers, 3 removals | `RegistryTypeOK`, `ReferencesAgree` |
| `gates` | 2 threads, 14 gates, 5 calls, 5 readings, counters of 2 bits | `TypeOK`, `DecisionsAsPromised` |
| `statement` | a buffer of 20, 2 statements, formats of 4 characters, values 3 deep, 2 sinks | `StatementTypeOK`, `LineAsWritten`, `ScratchSafe` |

What they show:

* **Deduplication.** A suppressed call is represented by itself, so `Accounting` says
  where each one is at every moment. `DedupLedger` is the same without the
  atomics. Counts *are* given up, but only as `DropsExplained` says: behind a
  captured logger whose level has been raised, or before the identity is visible.
* **Ties.** The visited set is exactly the set of guarded activations, under any
  reconfiguration. While nothing is reconfigured a logger is written once per
  simple path that leads to it: a diamond delivers two copies, the documented
  two-logger cycle one each. Reconfiguration of other edges costs no copy.
* **Rotation.** An incident is a short or failing `writev`, a failing `unlink`,
  `rename` or `open`, a crash between two system calls, a new sink for the same path,
  or a foreign append. Until a rename fails, the sink's bytes in the chain are the tail
  of what it wrote (`TailSpec`); afterwards lines are lost in the middle, but those
  that are left are in order, in each file and from the eldest file to the active
  one, and no line is in two files. A file is less than one line over `max_bytes`,
  plus a line per crash, which may come between a write and its rotation, and plus a
  line per later sink once a rotation has failed to take the active file away
  (`cleared`: the rename of the base path, or its unlink when `max_files` is 1). The
  full file is then still in place when the reopening behind it fails too, the sink is
  silent, and the next one writes a line before it tries to rotate. Three incidents are
  needed for that, so the run has three. A failing unlink of the *eldest* file costs
  nothing: the rename behind it replaces the file.
* **Buffering.** What waits reaches the file in order; each failing `writev` costs
  what it was given, nothing else; what a returned critical `write()` or `flush()`
  covered is in the file at any later crash, as long as no `writev` has failed
  (`errors = 0`); the loop gives up a failing one without a word.
* **Fd sinks.** Wherever `writev` stops, inside an iovec, behind one or behind an
  empty one, the loop goes on at the right byte and ends. A line is cut by another
  thread's only at a short write; the colour is undone before the newline. Here the
  kernel is taken at the word of sinks.md:70: one `writev` that takes everything is
  not interleaved with another. That is so for files; a pipe keeps it up to `PIPE_BUF`
  bytes only, of which the model has no notion.
* **Async sink.** `flush()` promises less than it seems: one accepted line may still
  be in the worker's hands (`FlushLagsByOne` is sharp). No wake-up is lost, and the
  destructor delivers all that was accepted.
* **Registry.** No name ever leads to a destroyed logger. Only the default logger can
  stand beside another one of its name, owned by the registry, when
  `get_logger("default")` came first or the name was removed (`split`); this breaks
  multi-logger.md:39-40, see below. How far it goes is what `ReferencesAgree` says: there
  are never more than these two, and from its registration on the default logger is
  what the name finds again, until the name is removed.
* **Gates.** `DecisionsAsPromised` is an equivalence: a gate neither lets too many
  pass nor loses one it owes, with readings out of order, failing exchanges and
  wrapping counters. What `EVERY_N_SEC` and `_MS` promise is a distance of the clock
  readings they decide with; the lines themselves may come out closer together. The
  decisions of `SAMPLED` are random and unconstrained.
* **Statements.** What the sinks read is what the statement means whenever it fits;
  when it does not, bytes are missing but none is wrong. After an inner statement
  the arguments that borrow their bytes, and those behind the inner statement's
  reach, are still right; those it overwrote are not, which `LineAsWritten` leaves
  out by `Untouched`. Past the end of the buffer write only the renderers that
  `Checks` names (integers, `char`, pointers, `hex`, `bin`, `quoted`, time points).

Why the bounds suffice. Two threads and two sites give every race on
`g_last_dedup` and on one counter: a displacing and a suppressing statement, two
flushes of one site, a flush and an exchange; five operations let a site be hit,
displaced, hit again and flushed. Three loggers give self-contained cycles,
diamonds and chains; five changes build the graphs with up to five of the six
possible edges, or smaller ones that change while a chain runs; with two changes
(`MaxShared`) there are two chains, which walk two loggers tied to each other in
opposite orders. Three files of a
few bytes make a chain with an eldest, a middle and an active file, shifted up to
four times by lines of 4; `max_files` of 1 and 2 are the code's special cases. A
buffer of four bytes is filled exactly, overfilled and bypassed by lines of 1, 3
and 5. Lines of the fd sink have an empty iovec and a long one, and exceed the
arrays on the stack with and without colour. Five lines overflow a queue of two
while the worker holds one. Four loggers are the default, one of its name, and a
removed and a recreated one. Five calls wrap a counter of two bits. A buffer of 20
bytes, six of them prologue, holds most lines; a filler leaves 0 to 6 bytes to
each shape of value.

Runs that end in a violation show where a comment or a document and the code
disagree; each is a finding in `PROJECT.json`:

| run | promised | what happens |
|---|---|---|
| `dedup_unpublished` | a positive count is printed and reset (aggregate.hpp:90) | another thread resets it before the identity stores are visible |
| `rotate_external` | foreign appends and own lines both land at the end (rotating_sink.cpp:107) | the reopened file lacks `O_APPEND` |
| `fd_interleave` | lines never interleave within one sink (sinks.md:72) | they do at a short write |

Other disagreements that reading and earlier runs have turned up, without a run of
their own: a late `fetch_add` leaves a count with a site that has been displaced
(macros.hpp:180, aggregate.cpp:181); `Logger::flush` flushes no counts
(aggregate.hpp:72); a logger untied while its own chain forwards is written a second
time (multi-logger.md:75, logger.cpp:73); a failing rename goes unnoticed and the
active file is truncated, or, with `max_files` 1, a failing unlink leaves the file
that "is gone above" (rotating_sink.cpp:184); a failing `writev` loses critical
lines that "always survive crashes" (sinks.md:64, buffered_file_sink.cpp:96);
`get_logger("default")` does not always return "the same instance as
`elog::default_logger()`" (multi-logger.md:39-40): asked before the first
`default_logger()` has registered its logger, even while that is being constructed,
or after `remove_logger("default")`, it creates a logger of its own, which has no
sinks (registry.cpp:37-43, default_logger.cpp:12) and which `ReferencesAgree` has to
admit (it fails in three steps without its `split`); the default logger's sinks are
never destroyed, so their buffered lines are lost at an orderly exit
(buffered_file_sink.hpp:22, default_logger.cpp:9); an iovec of a pack that points
into scratch is not safe when a later argument logs (custom-types.md:207); the
built-in renderers of integers, `char`, pointers, `hex`, `bin`, `quoted` and time
points do not check the room that is left, although the contract for renderers is
"Never write past 4096" (custom-types.md:51). `rotating_sink.hpp:15` also reads as
if a file never exceeded `max_bytes`; the rotation follows the write that crosses
it, as `tests/test_rotating_sink.cpp:112` knows, and `GrowthBound` states by how
much.

Fairness. `dedup` assumes that a thread inside an operation keeps running and
that `main` returns; `tie` that a thread inside `emit` or `flush` keeps
running; `fdsink` that a thread inside `write()` does, and that the kernel answers
each `writev`; `async` that the worker and a thread inside a call do, and that the
program ends. All of it is what an operating system's scheduler gives to a runnable
thread. Waiting for a mutex is part of the action's guard; weak fairness suffices
because the bounded number of operations makes the mutex stay free in the end.
`FlushReturns` rests on the same bound: a `flush()` beside threads that never stop
writing may wait for ever. Nothing assumes that a thread ever begins an operation.

Deadlock is checked in every run; an ended process (`Done`, `Over`) and a quiet
system (`Quiet`, `Idle`) may stutter.

## 4. Proofs

`DedupProofs` proves about `Dedup`, for all finite or infinite sets of threads,
sites, loggers and levels and any bound on the operations (`ConstantsAssumption`
only says that NULL is none of them and that levels are numbers):

| theorem | says |
|---|---|
| `Invariance` | `Spec => []IInv` |
| `TypeCorrect` | `Spec => []TypeOK` |
| `CallsAccountedOnce` | `Spec => []Accounting` |
| `ExitLeavesNothing` | `Spec => []ExitReports` |
| `HiddenOnlyBehindLine` | `Spec => []HiddenBehindLine` |
| `DropsAreExplained` | `Spec => DropsExplained` |
| `ImplementsLedger` | `Spec => LedgerSpec` |

None of these is inductive. `Accounting` alone does not survive `Suppress`, which
adds `call[t]` to a counter: that the call is still open, and nobody else's, is
`CallInv` and `Distinct`. It does not survive `Take` without knowing that the
thread has nothing in hand (`SummaryInv`), or `Emit` without knowing that a thread
in `flush_summary()` has a statement exactly when it does not hold the registry
mutex (`MutexInv`). `ExitReports` needs the picture of the handler at work
(`ExitInv`): it runs alone, and every counted site is still in its list, which in
turn needs that only registered sites count (`RegisteredInv`). `IInv` is the
conjunction; one lemma per group (`TypeStep`, `ControlStep`, `CountStep`,
`ExitStep`, `AccountingStep`) shows that a step keeps it, with one proof step per
action.

`DropsExplained` and `HiddenBehindLine` need two invariants more, on top of `IInv`:
`IdentityInv` (a counted site has its identity visible or in its winner's store
buffer) and `LeadInv` (`g_last_dedup`, and a thread that has decided to suppress,
always stand behind a line that is out or on its way). The refinement follows from
`NextEffect`, which sorts the steps by what they do to the calls.

`LoggerProofs` proves about `Registry`, for any threads, names and bounds
(`RegistryAssumption`: the default logger has a name, bounds are numbers, `None` is
neither a number nor a thread):

| theorem | says |
|---|---|
| `RegistryTypeCorrect` | `RegistrySpec => []RegistryTypeOK`: no name leads to a destroyed logger, none is owned twice |
| `NamesAgree` | `RegistrySpec => []ReferencesAgree` |

`ReferencesAgree` is not inductive: `Remove` forgets what a name *stands for* and
destroys what it *owns*, so one has to know when the two differ (`AliasInv`: only for
the default logger); `RegisterDefault` replaces what `"default"` stands for, so one has
to know that without a split it stood for nothing and nobody held a reference by that
name (`UnsplitInv`), and `Create` takes the name only where nothing is found, hence not
from a registered default logger (`DefaultIsFound`, `DefaultInv`). `RegistryShapes`
gives the ranges of the variables; `RegistryInitially`, one lemma per operation and
`RegistryKept` show the conjunction inductive.

`AsyncSinkProofs` proves about `AsyncSink`, for any threads, any capacity of at least
one and any number of calls:

| theorem | says |
|---|---|
| `TypeCorrect` | `Spec => []TypeOK` |
| `FlushGuarantee` | `Spec => []FlushLagsByOne` |
| `GoneIsDelivered` | a destroyed sink has delivered what it accepted, once and in order |
| `ImplementsQueue` | `Spec => QueueSpec` |

All of it rests on one equation, `Balance`: accepted is delivered, then what is in the
worker's hands, then the queue. `FlushLagsByOne` speaks only of lengths and would not
survive `Take`, which moves an item where no length shows it. `EndInv` says what the
destructor may rely on: no call is open, and a worker that ended left nothing. Each
operation has a lemma on its effect on what waits (`AcceptEffect`, `TakeEffect`,
`ReplayEffect`), which serves the invariant and the refinement alike.

`BufferedSinkProofs` proves about `BufferedSink`, for any capacity (0 included), any
set of line lengths, both owners and any number of calls, short writes and failures:

| theorem | says |
|---|---|
| `TypeCorrect` | `Spec => []TypeOK` |
| `CriticalLinesSurvive` | `Spec => []SettledIsDurable` |
| `ScopedSinkKeepsLines` | `Spec => []ScopedShutdownKeepsLines` |
| `ImplementsLog` | `Spec => LogSpec` |
| `TearsAreCounted` | `Spec => []TornLines` |

`Balance` again: until a write fails, accepted is the file, then what waits, and what
waits is in `out` or `buf` by the point of the code. `Shape` says what each of those
points knows, for one that `settle` and `close` are reached with nothing buffered;
without it `SettledIsDurable` does not survive the return of a critical `write()`.

`TornLines` needs to know what is lost after a failure, where `Balance` says nothing.
`Tidy` keeps count: what waits is sorted and behind the file, a waiting line has all
its bytes in the file or waiting, and the line in hand has none anywhere else. A failing
`writev` drops a front part of what waits, and by the order only its first line can
have bytes in the file; the line in hand is whole afterwards because it had none there.
`CountConcat`, `ToSetConcat` and `SortedConcat` say what counting and order make of a
concatenation, for every sequence, which a count written with `SelectSeq` would not
have allowed.

`LoggerProofs` proves about `LoggerTie`, for any threads, any finite set of loggers,
and ties that other threads change between any two steps:

| theorem | says |
|---|---|
| `TypeCorrect` | `Spec => []TypeOK`: no recursion is deeper than there are loggers, plus one |
| `GuardsAgree` | `Spec => []GuardsMatchStack` |
| `ReachableIsReached` | `Spec => StableReach` |
| `EveryWayOnce` | `Spec => ExactCopies` |

The invariant is a statement about one thread's recursion, `Nested`: every activation
but the newest walks its ties, the guarded ones are of different loggers, and the
visited set is exactly theirs. It has to number the activations whose guard is still
undecided (`Undecided`: a `flush()` that has not looked at its ties yet), or the depth
would not follow. `PushKeeps`, `WalkKeeps` and `PopKeeps` show what a call, the next
tie and a return do to it; `OfThread` and `OneThread` carry that to all threads.

`StableReach` needs an invariant of the walk besides (`ReachInv`): what a reached logger
is stably tied to (`Covers`) has been reached, is entered next, or is left to an
activation of that logger. Other threads can only shrink the stable ties, so it
survives them. When the last activation returns the second and third case are gone: the
reached set is closed under the stable ties, and a path from the root cannot leave it
(`PathStays`). A `flush()` that meets a visited logger leaves its ties to the activation
that took the guard, which is where `GuardsMatchStack` comes in.

`ExactCopies` speaks of the end of a chain, and counting the paths that a walk in
progress has still to follow would be a sum by recursion over its activations. The
invariant (`CopiesInv`) looks at the paths themselves instead: a way from the root is
about to be taken if it agrees with the recursion up to some depth and goes on there into
a logger that activation has still to call (`Left`), or if it follows the recursion into
the logger it enters next (`Follows`). The copies of a logger are at all times the number
of the other ways to it (`Taken`). A call that reaches sinks takes exactly one more, the
recursion's own path (`PathIsWay`, `CallTakes`, `FastTakes`); that this is a way, and
one not taken before, needs that an activation never calls a logger twice (`Walks`) and
`Nested` from above. All other steps leave the set as it is: a cycle test that ends a
call does so where no way goes on (`VisitedTakes`), a snapshot of unchanged ties leaves
all that may go on from there (`SnapshotTakes`), and a return leaves nothing
(`ReturnTakes`). When the recursion is over, no way is left, and `WaysCounted` shows that
the ways are the simple paths, and for `flush()` what `FlushVisits` counts.

`RotatingSinkProofs` proves about `RotatingSink`, for any threshold, finite sets of
file counts and line lengths, and any number of calls and incidents:

| theorem | says |
|---|---|
| `Invariance` | `Spec => []IInv` |
| `TypeCorrect` | `Spec => []TypeOK` |
| `FilesBounded` | `Spec => []GrowthBound` |
| `CounterCovers` | `Spec => []CounterCoversFile` |
| `EvictsOnlyWhenFull` | `Spec => []NoPrematureEviction` |
| `OrderSurvives` | `Spec => []LinesInOrder` |
| `RetainsTheTail` | `Spec => TailSpec` |

`GrowthInv` keeps a budget: at each point of the code, so many bytes above the threshold
are allowed, and a point from which a line can still be written must be below by a
line's length. That needs the counter to cover the file (`CounterInv`, on whose word
the sink rotates) and the offset to be within it (`Shape`). `EvictionInv` describes an
undisturbed chain with the gap that travels down during a rotation; a rotated file is
full because the counter is then exact, not merely no less. `OrderInv` goes beyond
`LinesInOrder` by what a write behind an own offset needs: from there on the file
holds foreign bytes only, and the line in progress is in no other file.

`RetainsTheTail` is a refinement: every step is one of `TailLog` or leaves the log as it
is. The chain is read as one sequence, the sink's own bytes from the eldest file to the
active one, and a step is seen as a change at one place of it: a `writev` adds at the
newest end (`NewestAdded`), the loss of the eldest file takes from the oldest
(`EldestGoes`), and a rename moves one file's bytes within the chain (`FileMovesUp`),
which leaves the sequence alone because the name it moves to is the gap. Only the eldest
name may still be taken, when its unlink has failed: the rename then replaces the oldest
bytes, and truncating the one file of `max_files` 1 takes them likewise (`EldestDrops`,
`OldEndDrops`). That the gap is empty everywhere else in a rotation, and that nothing of
the sink's is in the active file when it is reopened behind a rename, is `GapInv`; that
the bytes added are newer than all others is `OrderInv`. Own bytes and their
concatenation are functions defined by recursion. The library's induction takes an
operator and cannot be instantiated here, so `SequenceLemmas` proves induction for
*sets* (`IntervalInduction`: a set that contains 0 and every successor contains the
interval) and from it that such functions exist and what `FlattenSeq` does to an append
and a concatenation (`RecursionExists`, `FlattenUnique`, `FlattenConcat`).

`FdSinkProofs` proves about `FdSink`, for any threads, any shapes of lines (empty iovecs
included), arrays on the stack of any length, and any number of short and failing writes:

| theorem | says |
|---|---|
| `Invariance` | `Spec => []IInv` |
| `TypeCorrect` | `Spec => []TypeOK` |
| `LinesArriveIntact` | `Spec => []LinesIntact` |
| `TearsAreShortWrites` | `Spec => []TornByShortWritesOnly` |

`LinesIntact` says that a prefix has arrived, which does not tell what the next `writev`
adds. The invariant does (`Accounted`): what has arrived of a line, and what its thread
has left, are together one of the texts `write()` may make of it, plain or coloured; of a
line that was given up, something has to be added to make it one. A `writev` moves bytes
from the one to the other. That it loses and repeats none of them is `AdvanceTakes`: for
every array and every number of bytes, what the kernel took followed by what the loop
offers next is what was offered. The bytes of other lines are not touched, since what is
kept of a concatenation is the concatenation of what is kept (`KeptConcat`).

The number of tears alone is not inductive either: a thread that begins its line behind
the first half of another's tears it without a short write of its own. The short write
was paid before, when the half line was left; `TearsInv` therefore counts an open end of
the file along with the tears. A `writev` that takes everything ends in a newline, by
`Accounted`, and closes the end; one that does not is short.

`StatementProofs` proves about `RateGates`, for any set of statements, any finite set of
threads, counters of any width, and any course of the clock:

| theorem | says |
|---|---|
| `Invariance` | `Spec => []IInv` |
| `TypeCorrect` | `Spec => []TypeOK` |
| `PromisesKept` | `Spec => []DecisionsAsPromised` |

`DecisionsAsPromised` speaks of all decisions made so far and of no variable of the
code, so the invariant says for each kind what its variable knows of them: the counter
is their number modulo `2^Width` (`CountInv`), `next_ns` a period after the newest
reading that passed (`TimeInv`), and the bucket what the worst of all earlier starting
points has left (`BurstInv`, a minimum stated as a bound that some point attains).
`TimeInv` holds for readings out of order because the exchange compares with the value
the thread has read, which never exceeds `next_ns` (`Bounds`). With these `Right(i)`
follows for a new decision and, being about earlier ones only, is kept for the others.

`StatementProofs` proves about `Statement`, for any statements nested to any depth, any
renderers, and any number of sinks:

| theorem | says |
|---|---|
| `StatementInvariance` | `StatementSpec => []StatementInv` |
| `StatementTypeCorrect` | `StatementSpec => []StatementTypeOK` |
| `PoolPointerSound` | `StatementSpec => []PoolOfInnermost` |

Nothing is assumed of `Rendered`: whatever a renderer writes and wherever, the pool pointer
is given back as it was found (a renderer that throws would keep it, and is excluded).
`StatementAssumption` only says that arguments are sequences and that what a renderer logs
is one of the statements. `PoolOfInnermost`, a part of `StatementTypeOK`, is not inductive:
`Assemble` sets the pointer to what the statement found when it began, and that this is the
innermost pool *below* it, whatever was put up and given back above it since, is the second
half of `PoolInv`. It survives because pools go up and down at the top of the stack only.
From it follows `OwnPool`: a pack draws from the pool of its own statement, on which the
bound of `StatementTypeOK` rests.

Assumptions the proofs brought to the surface, all named `ConstantsAssumption`: finitely
many loggers and threads where something counts them; the mark for a file that is not
there is no sequence of bytes; and `2^Width` is a positive number, a truth about
arithmetic that the provers cannot know because `^` is defined by recursion. None of
them excludes anything the code can meet.

Only model-checked:

* all liveness: the prover has no rule for fairness and ENABLED here;
* `LineAsWritten` and `ScratchSafe`, hence `StatementLines`, `FormatSpec` and `Renderers`:
  values nest, formats are scanned, and both are `RECURSIVE` operators, of which the
  prover knows nothing. `Statement` is kept apart from them so that its stack and its
  pool can be proved about.

## 5. Not modelled, and the plan

Left out, with the reason:

* Grisu2: a published algorithm on 64-bit mantissas and tables; a double is a text
  that needs at most `FloatRoom` bytes.
* A failing `stat` in the constructor of the rotating sink (rotating_sink.cpp:93), and a
  path that is no regular file: both count as an empty file, so that the counter would
  start behind what the file holds. `CounterCoversFile` and `GrowthBound` would not
  survive that; they assume that a file just opened can be looked at.
* `fsync` in the sinks' `flush()`: it changes nothing a model of files without power
  failures could tell.
* The default prologue for a `LogCtx` of another thread, which no statement builds,
  and for a child of `fork()`, of which the library says nothing.
* Formats with 65535 or more literal characters, whose 16-bit offsets collide with the
  mark of a hole, and formats with more holes than arguments.
* Two processes that rotate one path: nothing says what they might expect.
* Sinks and renderers that use `DEDUP` statements themselves, and loggers destroyed
  before the program ends while sites or ties still name them.
* `add_sink`, `clear_sinks` and `set_prologue`, which are configuration before use.
* Tests, examples, benchmarks, CI.

What is left to do:

1. Proofs: that the bytes of an argument stay as they are until a statement inside reaches
   them, from an assumption on `Rendered` that it writes behind its cursor only.
2. A composition of `Dedup`, `LoggerTie` and `BufferedSink` at process exit, where
   the exit handler's summaries meet sinks that are or are not destroyed.
