----------------------------- MODULE FormatSpec -----------------------------
(***************************************************************************)
(* The format language of the LOG macros and its compiled form             *)
(* (include/elog/format.hpp).  "{}" is a hole, "{{" and "}}" stand for     *)
(* one brace, everything else for itself.  make_spec() cuts a format into  *)
(* pieces: holes, and runs of literal characters kept in lit_data.  The    *)
(* sizes of both arrays are computed beforehand by count_pieces() and      *)
(* count_lit_chars(), and nothing checks them again.                       *)
(*                                                                         *)
(* A format is a sequence of one-character strings.  Offsets are not       *)
(* reduced to 16 bits: formats of 65535 literal characters are left out.   *)
(***************************************************************************)
EXTENDS Naturals, Sequences

\* The token at the front of a format: what the four branches test.
Escape(fmt) == Len(fmt) > 1 /\ fmt[1] = fmt[2] /\ fmt[1] \in {"{", "}"}
Hole(fmt)   == Len(fmt) > 1 /\ fmt[1] = "{" /\ fmt[2] = "}"
Width(fmt)  == IF Escape(fmt) \/ Hole(fmt) THEN 2 ELSE 1
Behind(fmt) == SubSeq(fmt, Width(fmt) + 1, Len(fmt))

RECURSIVE Counted(_, _)
Counted(fmt, inLit) ==
  IF fmt = <<>> THEN 0
  ELSE IF Hole(fmt) THEN 1 + Counted(Behind(fmt), FALSE)
       ELSE (IF inLit THEN 0 ELSE 1) + Counted(Behind(fmt), TRUE)

CountPieces(fmt) == Counted(fmt, FALSE)

RECURSIVE CountLitChars(_)
CountLitChars(fmt) ==
  IF fmt = <<>> THEN 0
  ELSE (IF Hole(fmt) THEN 0 ELSE 1) + CountLitChars(Behind(fmt))

(***************************************************************************)
(* make_spec().  A run under construction is open: its offset and length   *)
(* become a piece when a hole or the end of the format closes it.          *)
(***************************************************************************)
Literal(off, len) == [hole |-> FALSE, off |-> off, len |-> len, arg |-> 0]
HolePiece(arg)    == [hole |-> TRUE,  off |-> 0,   len |-> 0,   arg |-> arg]

CloseRun(s) ==
  IF s.inLit THEN [s EXCEPT !.pieces = Append(@, Literal(s.off, s.len)),
                            !.inLit = FALSE]
             ELSE s

TakeHole(s) == LET c == CloseRun(s)
               IN  [c EXCEPT !.pieces = Append(@, HolePiece(s.arg)),
                             !.arg = @ + 1]

TakeChar(s, c) ==
  [s EXCEPT !.inLit = TRUE,
            !.off = IF s.inLit THEN @ ELSE Len(s.lits),
            !.len = IF s.inLit THEN @ + 1 ELSE 1,
            !.lits = Append(@, c)]

RECURSIVE Scanned(_, _)
Scanned(fmt, s) ==
  IF fmt = <<>> THEN CloseRun(s)
  ELSE Scanned(Behind(fmt),
               IF Hole(fmt) THEN TakeHole(s) ELSE TakeChar(s, fmt[1]))

MakeSpec(fmt) ==
  LET s == Scanned(fmt, [pieces |-> <<>>, lits |-> <<>>, inLit |-> FALSE,
                         off |-> 0, len |-> 0, arg |-> 1])
  IN  [pieces |-> s.pieces, lits |-> s.lits, holes |-> s.arg - 1]

LitBytes(spec, p) == SubSeq(spec.lits, p.off + 1, p.off + p.len)

\* The pieces and the literal characters fill their arrays exactly.
FillsItsArrays(fmt) ==
  LET spec == MakeSpec(fmt)
  IN  /\ Len(spec.pieces) = CountPieces(fmt)
      /\ Len(spec.lits) = CountLitChars(fmt)

(***************************************************************************)
(* What a format means: the text with the given texts in its holes.        *)
(***************************************************************************)
RECURSIVE Substituted(_, _)
Substituted(fmt, texts) ==
  IF fmt = <<>> THEN <<>>
  ELSE IF Hole(fmt) THEN Head(texts) \o Substituted(Behind(fmt), Tail(texts))
       ELSE <<fmt[1]>> \o Substituted(Behind(fmt), texts)
=============================================================================
