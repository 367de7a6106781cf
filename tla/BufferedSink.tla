---------------------------- MODULE BufferedSink ----------------------------
(***************************************************************************)
(* The user-space buffered file sink (src/buffered_file_sink.cpp) in the   *)
(* life of its process.                                                    *)
(*                                                                         *)
(* write() and flush() run under the sink's mutex, so the calls of all     *)
(* threads form one sequence.  Each writev may be short or fail, and the   *)
(* process may crash between any two steps.  A byte is represented by the  *)
(* number of the line it belongs to.  pos_ is the length of buf.           *)
(*                                                                         *)
(* Whether the destructor runs at all depends on who owns the sink: a      *)
(* Logger object of the program ("scoped"), or default_logger() or a       *)
(* registered logger, which the library never destroys ("leaked").         *)
(***************************************************************************)
EXTENDS Naturals, Sequences, FiniteSets, SequencesExt

CONSTANTS
    Cap,         \* buffer_bytes
    Lengths,     \* lengths of the lines that are written
    Owners,      \* who may own the sink: subset of {"scoped", "leaked"}
    MaxLines,    \* bound: number of write() calls
    MaxFlushes,  \* bound: number of explicit flush() calls
    MaxShort,    \* bound: short writes
    MaxErrors    \* bound: failing writes

ASSUME ConstantsAssumption ==
    /\ Cap \in Nat
    /\ Lengths \subseteq Nat \ {0}
    /\ Owners \subseteq {"scoped", "leaked"}
    /\ MaxLines \in Nat /\ MaxFlushes \in Nat
    /\ MaxShort \in Nat /\ MaxErrors \in Nat

VARIABLES
    owner,     \* who owns the sink
    file,      \* the bytes in the file
    buf,       \* buf_[0 .. pos_)
    out,       \* what the current writev_all() has still to write
    entry,     \* the bytes of the line being written
    critical,  \* is that line at or above flush_threshold?
    pc,        \* "idle", "append", "drain" (writev_all), "direct", ...
    next,      \* where flush_locked() returns to
    lines,     \* number of write() calls so far
    flushes,   \* number of explicit flush() calls so far
    shorts,    \* short writes so far
    errors,    \* failing writes so far
    accepted,  \* history: the bytes of all lines whose write() has begun
    settled    \* history: how many of these a returned critical write() or
               \* flush() has covered

counts == <<lines, flushes, shorts, errors>>
vars == <<owner, file, buf, out, entry, critical, pc, next, lines, flushes, shorts,
          errors, accepted, settled>>

Ended == {"crashed", "exited"}

Init ==
    /\ owner \in Owners
    /\ file = <<>> /\ buf = <<>> /\ out = <<>> /\ entry = <<>>
    /\ critical = FALSE
    /\ pc = "idle" /\ next = "idle"
    /\ lines = 0 /\ flushes = 0 /\ shorts = 0 /\ errors = 0
    /\ accepted = <<>> /\ settled = 0

(* A definition named after a fault, placed before the one it deviates     *)
(* from, is that definition with a plausible bug; nothing here uses it.    *)

\* flush_locked(): returns at once when the buffer is empty.
FlushLockedNever(b, return) == pc' = return /\ next' = "idle" /\ out' = <<>>
FlushLocked(b, return) ==
    IF b = <<>>
    THEN pc' = return /\ next' = "idle" /\ out' = <<>>
    ELSE pc' = "drain" /\ next' = return /\ out' = b

-----------------------------------------------------------------------------

\* Is there room for n more bytes?
FitsIgnoringEntry(n) == Len(buf) < Cap
Fits(n) == Len(buf) + n <= Cap

\* write(): an entry larger than the buffer goes straight to the file, behind
\* what was buffered; otherwise room is made for it first.
Write(n, c) ==
    /\ pc = "idle" /\ lines < MaxLines
    /\ lines' = lines + 1
    /\ entry' = [i \in 1 .. n |-> lines + 1]
    /\ accepted' = accepted \o entry'
    /\ critical' = c
    /\ IF n > Cap THEN FlushLocked(buf, "direct")
       ELSE IF ~Fits(n) THEN FlushLocked(buf, "append")
       ELSE pc' = "append" /\ UNCHANGED <<next, out>>
    /\ UNCHANGED <<owner, file, buf, flushes, shorts, errors, settled>>

\* memcpy into the buffer; a critical line drains it at once.
Stage ==
    /\ pc = "append"
    /\ buf' = buf \o entry
    /\ entry' = <<>>
    /\ IF critical THEN FlushLocked(buf', "settle") ELSE pc' = "idle" /\ UNCHANGED <<next, out>>
    /\ UNCHANGED <<owner, file, critical, counts, accepted, settled>>

\* The writev of the oversized entry.
StartDirect ==
    /\ pc = "direct" /\ out = <<>>
    /\ out' = entry
    /\ entry' = <<>>
    /\ pc' = "drain" /\ next' = IF critical THEN "settle" ELSE "idle"
    /\ UNCHANGED <<owner, file, buf, critical, counts, accepted, settled>>

\* What is left after a writev of k bytes.
RestForgotten(k) == <<>>
Rest(k) == SubSeq(out, k + 1, Len(out))

\* One writev of the loop in writev_all().  When it is done, or fails,
\* flush_locked() resets pos_.
Writev ==
    /\ pc = "drain"
    /\ \E k \in 0 .. Len(out) :
         /\ \/ k = Len(out) /\ UNCHANGED <<shorts, errors>>
            \/ 0 < k /\ k < Len(out) /\ shorts < MaxShort
                 /\ shorts' = shorts + 1 /\ UNCHANGED errors
            \/ k = 0 /\ errors < MaxErrors
                 /\ errors' = errors + 1 /\ UNCHANGED shorts
         /\ file' = file \o SubSeq(out, 1, k)
         /\ IF 0 < k /\ k < Len(out)
            THEN /\ out' = Rest(k)
                 /\ UNCHANGED <<buf, pc, next>>
            ELSE out' = <<>> /\ buf' = <<>> /\ pc' = next /\ next' = "idle"
    /\ UNCHANGED <<owner, entry, critical, lines, flushes, accepted, settled>>

\* A critical write() or a flush() returns to its caller.
Settle ==
    /\ pc = "settle"
    /\ pc' = "idle"
    /\ settled' = Len(accepted)
    /\ UNCHANGED <<owner, file, buf, out, entry, critical, next, counts, accepted>>

\* flush() called through Logger::flush().
Flush ==
    /\ pc = "idle" /\ flushes < MaxFlushes
    /\ flushes' = flushes + 1
    /\ FlushLocked(buf, "settle")
    /\ UNCHANGED <<owner, file, buf, entry, critical, lines, shorts, errors, accepted, settled>>

\* Somebody runs the sink's destructor at exit.
NeverDestroyed == FALSE
Destroyed == owner = "scoped"

\* The program ends in an orderly way: the owner's destructor flushes and
\* closes, or there is no destructor.
Exit ==
    /\ pc = "idle"
    /\ IF Destroyed THEN FlushLocked(buf, "close")
       ELSE pc' = "exited" /\ UNCHANGED <<next, out>>
    /\ UNCHANGED <<owner, file, buf, entry, critical, counts, accepted, settled>>

\* The destructor closes the file after its flush.
Close ==
    /\ pc = "close"
    /\ pc' = "exited"
    /\ UNCHANGED <<owner, file, buf, out, entry, critical, next, counts, accepted, settled>>

\* The process dies; the kernel keeps what was written.
Crash ==
    /\ pc \notin Ended
    /\ pc' = "crashed"
    /\ UNCHANGED <<owner, file, buf, out, entry, critical, next, counts, accepted, settled>>

Done == pc \in Ended /\ UNCHANGED vars

Step == Stage \/ StartDirect \/ Writev \/ Settle \/ Close

Next ==
    \/ Step
    \/ \E n \in Lengths, c \in BOOLEAN : Write(n, c)
    \/ Flush \/ Exit \/ Crash \/ Done

Spec == Init /\ [][Next]_vars

-----------------------------------------------------------------------------
(* Properties                                                              *)

\* Type invariant; an oversized entry never overtakes what is buffered.
TypeOK ==
    /\ owner \in Owners
    /\ pc = "direct" => buf = <<>>
    /\ \A s \in {file, buf, out, entry, accepted} : s \in Seq(1 .. MaxLines)
    /\ Len(buf) <= Cap
    /\ critical \in BOOLEAN
    /\ pc \in {"idle", "drain", "append", "direct", "settle", "close"} \cup Ended
    /\ next \in {"idle", "append", "direct", "settle", "close"}
    /\ lines \in 0 .. MaxLines /\ flushes \in 0 .. MaxFlushes
    /\ shorts \in 0 .. MaxShort /\ errors \in 0 .. MaxErrors
    /\ settled \in 0 .. Len(accepted)

\* "Critical messages always survive crashes" (docs/sinks.md:64): when a
\* critical write() or a flush() has returned, its line and every line before
\* it are in the file, at every later moment and after a crash at any step, as
\* long as no writev has failed (errors = 0): one that fails is given up with
\* all it was given, which is more than the document says.
SettledIsDurable ==
    errors = 0 => Len(file) >= settled /\ IsPrefix(file, accepted)

\* What waits for the file: the rest of the writev under way or the buffer, then
\* the line being written.
Waiting == (IF pc = "drain" THEN out ELSE buf) \o entry

\* How many bytes of line k are in s.
BytesOf(k, s) == Cardinality({i \in DOMAIN s : s[i] = k})

\* The lines that are partly in the file and have lost bytes for good.
Torn ==
    {k \in 1 .. lines :
        /\ BytesOf(k, file) > 0
        /\ BytesOf(k, file) + BytesOf(k, Waiting) < BytesOf(k, accepted)}

\* A failing write tears at most the line it stopped in, whatever else it drops,
\* and a short write alone tears none: while the process lives there are no more
\* torn lines than there were failures.
TornLines == pc \notin Ended => Cardinality(Torn) <= errors

\* The sink is a write-behind log: what waits reaches the file in order, each
\* failing writev costs the oldest of it and nothing else, and the file never
\* loses anything.
Log == INSTANCE WriteBehindLog WITH
          waiting <- IF pc \in Ended THEN <<>> ELSE Waiting,
          durable <- file,
          failures <- errors,
          alive <- pc \notin Ended
LogSpec == Log!Spec

\* A sink owned by a logger of the program keeps its lines through an orderly
\* exit, unless a write failed.
ScopedShutdownKeepsLines ==
    pc = "exited" /\ owner = "scoped" /\ errors = 0 => file = accepted

=============================================================================
