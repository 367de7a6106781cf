--------------------------- MODULE StatementLines ---------------------------
(***************************************************************************)
(* The bytes of a statement: Statement with the renderers of Renderers and *)
(* the format language of FormatSpec, the line its sinks read, and the     *)
(* line it means.                                                          *)
(***************************************************************************)
EXTENDS Statement, Renderers, FormatSpec

\* A format has no more holes than arguments: nothing in the code checks that,
\* and what a further hole reads is undefined.
ASSUME FormatsAssumption ==
  \A st \in First \cup Nested : MakeSpec(st.fmt).holes <= Len(st.args)

(***************************************************************************)
(* The line that a sink reads.                                             *)
(***************************************************************************)
PieceIovs(f, spec, p) == IF p.hole THEN f.slots[p.arg]
                         ELSE <<Borrowed(LitBytes(spec, p))>>

LineIovs(f) ==
  LET spec == MakeSpec(f.st.fmt)
  IN  <<f.pro>>
      \o Concat([i \in DOMAIN spec.pieces |-> PieceIovs(f, spec, spec.pieces[i])])
      \o <<Borrowed(<<"\n">>)>>

Gathered(iovs) == Concat([i \in DOMAIN iovs |-> Bytes(scratch, iovs[i])])

(***************************************************************************)
(* The line that the statement means.                                      *)
(***************************************************************************)
ArgMeaning(v) ==
  IF v.kind # "pack" THEN Meaning(v)
  ELSE Concat([i \in 1..Min2(PackMax, Len(v.parts)) |-> Meaning(v.parts[i])])

ProMeaning(f) == Prologue(f.sec, f.st.lvl, Numeral(Tid, 10))

LineMeaning(f) ==
  ProMeaning(f)
  \o Substituted(f.st.fmt, [i \in DOMAIN f.st.args |-> ArgMeaning(f.st.args[i])])
  \o <<"\n">>

\* No arithmetic on room plays a part: the largest demand of a renderer that
\* looks ahead is for an escape of four bytes, or FloatRoom.
Fits(f) == Len(LineMeaning(f)) + Max2(4, FloatRoom) <= Cap

IsSubsequence(s, t) ==
  LET matched[i \in 0..Len(t)] ==
        IF i = 0 THEN 0
        ELSE LET k == matched[i - 1]
             IN  IF k < Len(s) /\ s[k + 1] = t[i] THEN k + 1 ELSE k
  IN  matched[Len(t)] = Len(s)

Essential(s) == SelectSeq(s, LAMBDA c : c \notin {"NUL", Fill})

Right(f, got, meant) == IF Fits(f) THEN got = meant
                        ELSE IsSubsequence(Essential(got), meant)

\* A pack that asks for more than its share may use up that of a later one.
Modest(st) == \A i \in DOMAIN st.args :
                st.args[i].kind = "pack" /\ st.args[i].alloc
                  => Len(st.args[i].parts) <= PackMax

Untouched(f, i) ==
  \A k \in DOMAIN f.slots[i] : f.slots[i][k].own => f.slots[i][k].at >= f.dirty

-----------------------------------------------------------------------------
(***************************************************************************)
(* A line that a sink reads is the text the statement means: prologue with *)
(* the second of this statement, literals and arguments in their places,   *)
(* newline.  When the scratch buffer is too small bytes may be missing,    *)
(* snprintf() may add a NUL and padding make up for what it pads, but      *)
(* nothing else appears and nothing changes places.  When a renderer or an *)
(* earlier sink has logged in between, the arguments that borrow their     *)
(* bytes and those behind the reach of the inner statement are still right *)
(* (include/elog/emit.hpp; render_padded and the containers of             *)
(* include/elog/render_extra.hpp).  make_spec() fills the arrays that were *)
(* sized for the format without a check.                                   *)
(***************************************************************************)
LineAsWritten ==
  /\ frames # <<>> => FillsItsArrays(Top.st.fmt)
  /\ frames # <<>> /\ Top.sink > 0 /\ Modest(Top.st) /\ ~Overrun =>
       IF Top.dirty = 0
       THEN Right(Top, Gathered(LineIovs(Top)), LineMeaning(Top))
       ELSE \A i \in DOMAIN Top.slots :
              Untouched(Top, i)
                => Right(Top, Gathered(Top.slots[i]), ArgMeaning(Top.st.args[i]))

(***************************************************************************)
(* Nothing is written past the scratch buffer by a composite, padded,      *)
(* escaped or dumped value, however deeply nested and however little room  *)
(* is left; only the renderers without a bounds check (integers, char,     *)
(* pointer, hex, bin, time_point, quoted) can do it, and only in a line    *)
(* that is too long for the buffer (src/render.cpp against                 *)
(* src/render_extra.cpp).                                                  *)
(***************************************************************************)
ArgChecks(v) == IF v.kind = "pack" THEN \A i \in DOMAIN v.parts : Checks(v.parts[i])
                ELSE Checks(v)

ScratchSafe ==
  /\ Len(scratch) >= Cap
  /\ Overrun => /\ frames # <<>>
                /\ ~ArgChecks(Top.st.args[Len(Top.slots)])
                /\ ~Fits(Top)
=============================================================================
