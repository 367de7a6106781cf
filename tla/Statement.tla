------------------------------ MODULE Statement ------------------------------
(***************************************************************************)
(* A log statement from the level test to the sinks (include/elog/emit.hpp,*)
(* macros.hpp, iov_pack.hpp and src/prologue.cpp).                         *)
(*                                                                         *)
(* emit_f() starts at the bottom of its thread's scratch buffer, puts the  *)
(* prologue there, renders the arguments from left to right behind it and  *)
(* hands a list of pointers, into scratch and into borrowed bytes, to      *)
(* Logger::emit().  Everything it touches is thread-local, so one thread   *)
(* is modelled; what makes it hard is that renderers and sinks are user    *)
(* code and may log themselves: the nested statement starts at the bottom  *)
(* of the same buffer again.                                               *)
(*                                                                         *)
(* The logger's ties and the sinks' own work are LoggerTie's, FdSink's ... *)
(* affair: a sink here reads the bytes, and the first one may log.         *)
(***************************************************************************)
EXTENDS Scratch

CONSTANTS
  First,      \* the statements the thread may execute to begin with
  Nested,     \* those it may execute later, or a sink or a renderer inside another
  Threshold,  \* the logger's level
  PackMax,    \* kPackMax
  Sinks,      \* how many sinks the logger has
  Secs,       \* the seconds the clock may show
  Tid,        \* the kernel's number of the thread
  MaxOps,     \* bound: statements executed at top level
  Rendered(_, _),  \* elog_render() of a value: from memory and cursor
                   \* m = [mem, pos] to [m, iov]
  Numeral10(_)     \* the decimal digits of a number

\* A statement is [lvl, cond, fmt, args]; cond is the condition of LOG_*_IF and
\* TRUE in the plain forms.  An argument is a value for Rendered, a pack
\* [kind |-> "pack", parts, alloc], or a renderer that logs
\* [kind |-> "logs", stmt, text].
ASSUME StatementAssumption ==
  /\ PackMax \in Nat \ {0} /\ Sinks \in Nat \ {0} /\ MaxOps \in Nat
  /\ \A st \in First \cup Nested :
       Len(st.args) \in Nat /\ DOMAIN st.args = 1..Len(st.args)
  /\ \A st \in First \cup Nested : \A i \in DOMAIN st.args :
       /\ st.args[i].kind = "pack" => Len(st.args[i].parts) \in Nat
       /\ st.args[i].kind = "logs" => st.args[i].stmt \in Nested

VARIABLES
  scratch,    \* tls_scratch()
  cachedSec,  \* cached_sec, -1 before the first use
  cachedStr,  \* the second whose text cached_str holds, -1 before the first use
  cachedTid,  \* cached_tid, <<>> before the first use
  ctx,        \* tls_iov_ctx(): the depth of the statement whose pool it is, or 0
  frames,     \* the activations of emit_f(), the innermost last
  ops         \* top-level statements executed so far

statementVars == <<scratch, cachedSec, cachedStr, cachedTid, ctx, frames, ops>>

Depth == Len(frames)
Top == frames[Depth]

\* How far an activation and those inside it have written: to the cursor, where
\* snprintf() may have put its NUL.
Extent(f) == Max2(f.pos + 1, f.dirty)

StatementInit ==
  /\ scratch = Fresh
  /\ cachedSec = -1
  /\ cachedStr = -1
  /\ cachedTid = <<>>
  /\ ctx = 0
  /\ frames = <<>>
  /\ ops = 0

\* What a byte, a field of fixed width in the code, shows.
SecField(s) == IF s = 0 THEN "sec0" ELSE "sec1"
LevelName(l) == <<"TRACE", "DEBUG", "INFO", "WARN", "ERROR", "FATAL", "OFF">>[l + 1]

Prologue(sec, lvl, tid) ==
  <<SecField(sec), "us", LevelName(lvl)>> \o tid \o <<"file:line", "|">>

Packs(st) == \E i \in DOMAIN st.args : st.args[i].kind = "pack"

(***************************************************************************)
(* ELOG_INTERNAL_F, ELOG_INTERNAL_IF and the head of emit_f(): the level   *)
(* test, the condition, the clock, the prologue with its two caches, and   *)
(* on the pack path the pool.                                              *)
(***************************************************************************)
\* The second is formatted again when it is another than the cached one;
\* otherwise the text of the last formatting is shown.
SecShown(sec) == IF sec # cachedSec THEN sec ELSE cachedStr

\* The thread's number is asked for once; ctx.tid is always its own id here.
TidShown == IF cachedTid = <<>> THEN Numeral10(Tid) ELSE cachedTid

Enabled(st) == st.lvl >= Threshold /\ st.cond

Enter(st) ==
  \E sec \in Secs :
    LET pro == Wrote([mem |-> scratch, pos |-> 0],
                     Prologue(SecShown(sec), st.lvl, TidShown))
    IN  /\ scratch' = pro.m.mem
        /\ cachedSec' = sec
        /\ cachedStr' = SecShown(sec)
        /\ cachedTid' = TidShown
        /\ ctx' = IF Packs(st) THEN Depth + 1 ELSE ctx
        /\ frames' = Append(frames,
             [st |-> st, sec |-> sec, pos |-> pro.m.pos, pro |-> pro.iov,
              slots |-> <<>>, pool |-> 0, prev |-> ctx, sink |-> 0,
              nested |-> FALSE, dirty |-> 0])

Log(st) ==
  /\ frames = <<>> /\ ops < MaxOps
  /\ Enabled(st)
  /\ Enter(st)
  /\ ops' = ops + 1

LogDisabled(st) ==
  /\ frames = <<>> /\ ops < MaxOps
  /\ ~Enabled(st)
  /\ ops' = ops + 1
  /\ UNCHANGED <<scratch, cachedSec, cachedStr, cachedTid, ctx, frames>>

(***************************************************************************)
(* Arguments, one per step.  A slot is the sequence of Iovs that takes the *)
(* place of the hole.                                                      *)
(***************************************************************************)
Rendering == frames # <<>> /\ Top.sink = 0 /\ Len(Top.slots) < Len(Top.st.args)
Arg == Top.st.args[Len(Top.slots) + 1]

Store(m, iovs, pools) ==
  /\ scratch' = m.mem
  /\ frames' = [pools EXCEPT ![Depth].pos = m.pos,
                             ![Depth].slots = Append(@, iovs)]
  /\ UNCHANGED <<cachedSec, cachedStr, cachedTid, ctx, ops>>

Cursor == [mem |-> scratch, pos |-> Top.pos]

RenderArg ==
  /\ Rendering
  /\ Arg.kind \notin {"pack", "logs"}
  /\ LET r == Rendered(Cursor, Arg)
     IN  Store(r.m, <<r.iov>>, frames)

\* The parts of a pack, one after the other.
RenderedEach(m, parts) ==
  LET upTo[n \in 0..Len(parts)] ==
        IF n = 0 THEN [m |-> m, iovs |-> <<>>]
        ELSE LET r == Rendered(upTo[n - 1].m, parts[n])
             IN  [m |-> r.m, iovs |-> Append(upTo[n - 1].iovs, r.iov)]
  IN  upTo[Len(parts)]

\* iov_scratch_alloc(): from the pool of the statement ctx points to.
PoolSize(st) == PackMax * Len(st.args)
Allocates(n) == ctx # 0 /\ frames[ctx].pool + n <= PoolSize(frames[ctx].st)

\* A renderer that returns a pack, or an iov_pack made beforehand.  Without a
\* pool the renderer gives up and the slot is one empty Iov.
RenderPack ==
  /\ Rendering
  /\ Arg.kind = "pack"
  /\ IF Arg.alloc /\ ~Allocates(Len(Arg.parts))
     THEN Store(Cursor, <<Borrowed(<<>>)>>, frames)
     ELSE LET r == RenderedEach(Cursor, Arg.parts)
          IN  Store(r.m, Prefix(r.iovs, PackMax),
                    IF Arg.alloc
                    THEN [frames EXCEPT ![ctx].pool = @ + Len(Arg.parts)]
                    ELSE frames)

\* A renderer that logs before it produces its own text.
RendererLogs ==
  /\ Rendering
  /\ Arg.kind = "logs"
  /\ ~Top.nested
  /\ Enabled(Arg.stmt)
  /\ Enter(Arg.stmt)
  /\ UNCHANGED ops

RenderAfterLogging ==
  /\ Rendering
  /\ Arg.kind = "logs"
  /\ Top.nested \/ ~Enabled(Arg.stmt)
  /\ LET r == Fitted(Cursor, Arg.text)
     IN  Store(r.m, <<r.iov>>, [frames EXCEPT ![Depth].nested = FALSE])

(***************************************************************************)
(* Assembly and delivery.  sink is the number of the sink that reads next. *)
(***************************************************************************)
\* The pool is given back before the sinks are called; and a slip: the pointer
\* is set to null as if no statement could be around this one.
RestoredToNull(f) == 0
Restored(f) == f.prev

Assemble ==
  /\ frames # <<>> /\ Top.sink = 0 /\ ~Rendering
  /\ ctx' = IF Packs(Top.st) THEN Restored(Top) ELSE ctx
  /\ frames' = [frames EXCEPT ![Depth].sink = 1]
  /\ UNCHANGED <<scratch, cachedSec, cachedStr, cachedTid, ops>>

\* The first sink logs a statement of its own, to a logger it is not part of.
SinkLogs(st) ==
  /\ Depth = 1 /\ Top.sink = 1 /\ ~Top.nested
  /\ Enabled(st)
  /\ Enter(st)
  /\ UNCHANGED ops

Leave ==
  IF Depth = 1 THEN <<>>
  ELSE [SubSeq(frames, 1, Depth - 1) EXCEPT
          ![Depth - 1].nested = TRUE,
          ![Depth - 1].dirty = Max2(@, Extent(Top))]

SinkReads ==
  /\ frames # <<>> /\ Top.sink \in 1..Sinks
  /\ frames' = IF Top.sink < Sinks THEN [frames EXCEPT ![Depth].sink = @ + 1]
               ELSE Leave
  /\ UNCHANGED <<scratch, cachedSec, cachedStr, cachedTid, ctx, ops>>

Done ==
  /\ frames = <<>> /\ ops = MaxOps
  /\ UNCHANGED statementVars

\* Once a renderer has written past the buffer nothing is defined any more.
Overrun == Len(scratch) > Cap

StatementNext ==
  \/ /\ ~Overrun
     /\ \/ \E st \in IF ops = 0 THEN First ELSE Nested : Log(st) \/ LogDisabled(st)
        \/ RenderArg
        \/ RenderPack
        \/ RendererLogs
        \/ RenderAfterLogging
        \/ Assemble
        \/ \E st \in Nested : SinkLogs(st)
        \/ SinkReads
  \/ Overrun /\ UNCHANGED statementVars
  \/ Done

StatementSpec == StatementInit /\ [][StatementNext]_statementVars

-----------------------------------------------------------------------------
\* The statements that have put up a pool and not given it back.
Drawing == {d \in 1..Depth : Packs(frames[d].st) /\ frames[d].sink = 0}

\* The pool a renderer would draw from is never that of a statement that has
\* returned or whose arguments are rendered, and among those that live it is the
\* innermost (include/elog/emit.hpp, tls_slot).
PoolOfInnermost == /\ ctx \in {0} \cup Drawing
                   /\ \A d \in Drawing : d <= ctx

(***************************************************************************)
(* The types.  No statement fills more slots than it has arguments, no     *)
(* renderer gets more of a pool than the pool has (include/elog/           *)
(* iov_pack.hpp, iov_scratch_alloc), and after any nesting of statements   *)
(* with and without packs, in renderers and in sinks, the pool pointer     *)
(* stands where it stood (include/elog/emit.hpp, tls_slot = prev_ctx,      *)
(* which no test reaches with two statements active).  The cached time     *)
(* text is that of the cached second (src/prologue.cpp).                   *)
(***************************************************************************)
StatementTypeOK ==
  /\ cachedSec \in Secs \cup {-1} /\ cachedStr = cachedSec
  /\ ops \in 0..MaxOps
  /\ \A d \in 1..Depth : /\ frames[d].sink \in 0..Sinks
                         /\ frames[d].pool \in 0..PoolSize(frames[d].st)
                         /\ Len(frames[d].slots) \in 0..Len(frames[d].st.args)
  /\ PoolOfInnermost
=============================================================================
