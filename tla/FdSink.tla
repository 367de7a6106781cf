------------------------------- MODULE FdSink -------------------------------
(***************************************************************************)
(* The descriptor sinks: stderr, stdout and plain files (src/sink.cpp).    *)
(*                                                                         *)
(* write() takes no mutex.  A line is an array of iovecs that writev_all() *)
(* hands to the kernel in one writev, or in several when writev is short;  *)
(* between two of them any other thread may write.  One action is one      *)
(* writev.  A short writev, a failing one and a failing allocation are     *)
(* choices of the environment; EINTR changes nothing.                      *)
(***************************************************************************)
EXTENDS Naturals, Sequences, FiniteSets, SequencesExt

CONSTANTS
    Writers,    \* threads that log to the sink
    Kinds,      \* which sinks: subset of DOMAIN Factory
    Shapes,     \* lengths of a line's iovecs, the newline excepted
    LocalIovs,  \* iovecs writev_all() holds on the stack (64 in the code)
    ExtIovs,    \* iovecs the coloured write() holds on the stack (80)
    MaxLines,   \* bound: MaxLines[w] is the number of write() calls of w
    MaxShort,   \* bound: short writev calls
    MaxErrors   \* bound: failing writev calls

\* The factories: does the sink own its descriptor, does it colour?
Factory == [file    |-> [owns |-> TRUE,  colored |-> {FALSE}],
            console |-> [owns |-> FALSE, colored |-> BOOLEAN]]

ASSUME ConstantsAssumption ==
    /\ Kinds \subseteq DOMAIN Factory
    /\ Shapes \subseteq Seq(Nat)
    /\ MaxLines \in [Writers -> Nat]
    /\ {LocalIovs, ExtIovs, MaxShort, MaxErrors} \subseteq Nat

VARIABLES
    kind,      \* which factory made the sink
    colored,   \* colored_
    closed,    \* has the destructor closed fd_?
    rest,      \* rest[w]: the iovecs p[idx ..] that writev_all() has still to write
    busy,      \* threads inside write()
    out,       \* the bytes behind the descriptor
    shorts,    \* short writev calls so far
    errors,    \* failing writev calls so far
    lines,     \* history: lines[w], the shapes of the lines w began to write
    given_up   \* history: the lines that were not written completely

vars == <<kind, colored, closed, rest, busy, out, shorts, errors, lines, given_up>>

\* A byte of the k-th line of w, and all it may be.
Byte(w, k, mark) == [by |-> w, line |-> k, mark |-> mark]
Marks == {"color", "text", "reset", "newline"}
OfLine(w, k) == [by : {w}, line : {k}, mark : Marks]

Init ==
    /\ kind \in Kinds
    /\ colored \in Factory[kind].colored
    /\ closed = FALSE
    /\ rest = [w \in Writers |-> <<>>]
    /\ busy = {}
    /\ out = <<>>
    /\ shorts = 0 /\ errors = 0
    /\ lines = [w \in Writers |-> <<>>]
    /\ given_up = {}

-----------------------------------------------------------------------------
(* A definition named after a fault, placed before the one it deviates     *)
(* from, is that definition with a plausible bug; nothing here uses it.    *)

\* The iovecs the logger passes: prologue and pieces, then the newline.
Line(w, k, shape) ==
    [i \in 1 .. Len(shape) |-> [j \in 1 .. shape[i] |-> Byte(w, k, "text")]]
        \o << <<Byte(w, k, "newline")>> >>

\* level_color(): no escape sequence for OFF.
LevelColor(w, k, off) == IF off THEN <<>> ELSE <<Byte(w, k, "color")>>

\* [color][iov[0 .. n-2]][reset][iov[n-1]]
Layout(iov, w, k, off) ==
    <<LevelColor(w, k, off)>> \o Front(iov) \o << <<Byte(w, k, "reset")>>, Last(iov)>>

\* What write() passes to writev_all(): without memory for the coloured array
\* the line goes out plain.
Prepared(iov, w, k, off) ==
    IF ~colored THEN {iov}
    ELSE {Layout(iov, w, k, off)}
           \cup (IF Len(iov) + 2 > ExtIovs THEN {iov} ELSE {})

\* writev_all() copies the array; without memory for the copy it writes nothing.
Copied(p) == {p} \cup (IF Len(p) > LocalIovs THEN {<<>>} ELSE {})

Write(w, shape, off) ==
    LET k == Len(lines[w]) + 1
    IN  /\ w \notin busy /\ ~closed
        /\ k <= MaxLines[w]
        /\ lines' = [lines EXCEPT ![w] = Append(@, shape)]
        /\ \E p \in Prepared(Line(w, k, shape), w, k, off) :
             \E q \in Copied(p) :
               /\ rest' = [rest EXCEPT ![w] = q]
               /\ given_up' = IF q = <<>> THEN given_up \cup {<<w, k>>} ELSE given_up
        /\ busy' = busy \cup {w}
        /\ UNCHANGED <<kind, colored, closed, out, shorts, errors>>

\* The bytes of the first i iovecs of p, and their number.
Joined(p, i) ==
    LET join[j \in 0 .. i] == IF j = 0 THEN <<>> ELSE join[j - 1] \o p[j]
    IN  join[i]
Bytes(p, i) == Len(Joined(p, i))

\* The loop behind a writev of n bytes: entries that are used up are skipped,
\* the next one is trimmed.
AdvanceKeepingUsed(p, n) ==
    LET i == Max({j \in 0 .. Len(p) : Bytes(p, j) < n \/ j = 0})
    IN  <<SubSeq(p[i + 1], n - Bytes(p, i) + 1, Len(p[i + 1]))>>
            \o SubSeq(p, i + 2, Len(p))
AdvanceUntrimmed(p, n) ==
    LET i == Max({j \in 0 .. Len(p) : Bytes(p, j) <= n})
    IN  SubSeq(p, i + 1, Len(p))
Advance(p, n) ==
    LET i == Max({j \in 0 .. Len(p) : Bytes(p, j) <= n})
    IN  IF i = Len(p) THEN <<>>
        ELSE <<SubSeq(p[i + 1], n - Bytes(p, i) + 1, Len(p[i + 1]))>>
                 \o SubSeq(p, i + 2, Len(p))

\* What one writev is offered: all that is left.
OfferedEntrywise(p) == <<Head(p)>>
Offered(p) == p

\* A writev that takes n bytes; short when it does not take all of them.
Writev(w) ==
    LET p == rest[w]
        total == Bytes(Offered(p), Len(Offered(p)))
    IN  /\ w \in busy /\ p # <<>>
        /\ \E n \in 0 .. total :
             /\ out' = out \o SubSeq(Joined(p, Len(p)), 1, n)
             /\ rest' = [rest EXCEPT ![w] = Advance(p, n)]
             /\ \/ n = total /\ UNCHANGED shorts
                \/ 0 < n /\ n < total /\ shorts < MaxShort /\ shorts' = shorts + 1
        /\ UNCHANGED <<kind, colored, closed, busy, errors, lines, given_up>>

\* A writev that fails ends the loop; what is left of the line is dropped.
WritevFails(w) ==
    /\ w \in busy /\ rest[w] # <<>>
    /\ errors < MaxErrors
    /\ errors' = errors + 1
    /\ rest' = [rest EXCEPT ![w] = <<>>]
    /\ given_up' = given_up \cup {<<w, Len(lines[w])>>}
    /\ UNCHANGED <<kind, colored, closed, busy, out, shorts, lines>>

Return(w) ==
    /\ w \in busy /\ rest[w] = <<>>
    /\ busy' = busy \ {w}
    /\ UNCHANGED <<kind, colored, closed, rest, out, shorts, errors, lines, given_up>>

\* The destructor, once no thread uses the sink any more, closes what it owns.
ClosesAnyway == TRUE
Closes == Factory[kind].owns
Destroy ==
    /\ busy = {} /\ ~closed
    /\ closed' = Closes
    /\ UNCHANGED <<kind, colored, rest, busy, out, shorts, errors, lines, given_up>>

Quiet ==
    /\ busy = {}
    /\ UNCHANGED vars

Next ==
    \/ \E w \in Writers :
         \/ \E shape \in Shapes, off \in {FALSE, colored} : Write(w, shape, off)
         \/ Writev(w) \/ WritevFails(w) \/ Return(w)
    \/ Destroy \/ Quiet

Spec == Init /\ [][Next]_vars

\* The kernel finishes every system call and the scheduler runs every thread.
FairSpec == Spec /\ \A w \in Writers : WF_vars(Writev(w) \/ Return(w))

-----------------------------------------------------------------------------
(* Properties                                                              *)

\* Type invariant; a thread outside of write() has nothing left to write, and
\* only a sink that owns its descriptor ever closes it, when nobody uses it.
TypeOK ==
    /\ kind \in Kinds /\ colored \in BOOLEAN /\ closed \in BOOLEAN
    /\ busy \subseteq Writers
    /\ closed => busy = {} /\ kind = "file"
    /\ \A w \in Writers :
         /\ w \notin busy => rest[w] = <<>>
         /\ lines[w] \in Seq(Shapes) /\ Len(lines[w]) <= MaxLines[w]
         /\ \A i \in DOMAIN rest[w] : \A j \in DOMAIN rest[w][i] :
              rest[w][i][j] \in OfLine(w, Len(lines[w]))
    /\ \A i \in DOMAIN out : out[i].mark \in Marks
    /\ shorts \in 0 .. MaxShort /\ errors \in 0 .. MaxErrors

\* The elements of seq that are in S, in order.
Kept(seq, S) ==
    FlattenSeq([i \in 1 .. Len(seq) |-> IF seq[i] \in S THEN <<seq[i]>> ELSE <<>>])

\* What of the k-th line of w is behind the descriptor, and what of it is not
\* colour.
Arrived(w, k) == Kept(out, OfLine(w, k))
Plain(seq) == Kept(seq, [by : Writers, line : Nat, mark : {"text", "newline"}])

\* Whatever writev() takes of a line, and whoever writes in between, its bytes
\* arrive once, in order and without a gap: what has arrived is a prefix of the
\* line, all of it once write() has returned, unless a call failed or memory
\* ran out.  The colour comes first and is undone directly before the newline,
\* never after it.
LinesIntact ==
    \A w \in Writers : \A k \in DOMAIN lines[w] :
        LET got == Arrived(w, k)
            line == Line(w, k, lines[w][k])
            full == Joined(line, Len(line))
        IN  /\ IsPrefix(Plain(got), full)
            /\ w \notin busy \/ k < Len(lines[w]) =>
                  Plain(got) = full \/ <<w, k>> \in given_up
            /\ \A i \in DOMAIN got :
                  /\ got[i].mark = "color" => i = 1
                  /\ got[i].mark = "newline" /\ got[1].mark = "color" =>
                        got[i - 1].mark = "reset"
                  /\ got[i].mark = "reset" => Len(Plain(SubSeq(got, 1, i))) = Len(full) - 1

\* Lines tear at short writes and nowhere else: a place where the bytes of one
\* line are followed by those of another before its newline costs a short
\* writev, so without short writes the kernel's serialization of writev keeps
\* every line in one piece.
Tears == {i \in 1 .. Len(out) - 1 :
             out[i].mark # "newline"
               /\ <<out[i].by, out[i].line>> # <<out[i + 1].by, out[i + 1].line>>}
TornByShortWritesOnly == Cardinality(Tears) <= shorts

\* The loop in writev_all() ends: a write() that has begun returns.
WritesReturn == \A w \in Writers : w \in busy ~> w \notin busy

\* "Multi-threaded log lines never interleave at the byte level within a single
\* sink" (docs/sinks.md:72-73).
NeverInterleave == Tears = {}

=============================================================================
