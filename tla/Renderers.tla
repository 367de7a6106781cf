------------------------------ MODULE Renderers ------------------------------
(***************************************************************************)
(* How a value becomes bytes (src/render.cpp, src/render_extra.cpp,        *)
(* include/elog/render.hpp and include/elog/render_extra.hpp).             *)
(*                                                                         *)
(* Composite values render their parts through the same functions, and     *)
(* must tell owned bytes from borrowed ones: a part that is already at the *)
(* cursor stays, a borrowed one is copied.                                 *)
(***************************************************************************)
EXTENDS Scratch

CONSTANTS
  Bits,       \* the width of an integer argument
  FloatRoom,  \* what render_double() wants to see free
  DumpMax     \* how many bytes hexdump shows

ASSUME RenderersAssumption == Bits \in Nat \ {0} /\ FloatRoom \in Nat /\ DumpMax \in Nat

(***************************************************************************)
(* Numerals: digits come out of the division loop last one first and are   *)
(* turned round.                                                           *)
(***************************************************************************)
Digit(d) == <<"0", "1", "2", "3", "4", "5", "6", "7",
              "8", "9", "a", "b", "c", "d", "e", "f">>[d + 1]

RECURSIVE Digits(_, _)
Digits(u, base) == IF u < base THEN <<Digit(u)>>
                   ELSE Append(Digits(u \div base, base), Digit(u % base))

\* i64_to_chars(): the magnitude of the least integer has no negative twin.
Magnitude(v) == IF v < 0 THEN (-(v + 1) + 1) % 2^Bits ELSE v
Decimal(v) == (IF v < 0 THEN <<"-">> ELSE <<>>) \o Digits(Magnitude(v), 10)

\* Of the other bases only octal looks at the room.
Pointer(m, u) == Wrote(m, <<"0", "x">> \o Digits(u, 16))
Hex(m, u) == Wrote(m, Digits(u, 16))
Bin(m, u) == Wrote(m, Digits(u, 2))
Oct(m, u) == Fitted(m, Digits(u, 8))

(***************************************************************************)
(* snprintf(scratch + pos, kScratchSize - pos, ...): a terminating NUL is  *)
(* always written, in place of the last byte when the text does not fit.   *)
(***************************************************************************)
Printed(m, text) ==
  IF Len(text) < Room(m) THEN Overlay(m.mem, m.pos, Append(text, "NUL"))
  ELSE IF Room(m) = 0 THEN m.mem
  ELSE Overlay(m.mem, m.pos, Append(Prefix(text, Room(m) - 1), "NUL"))

\* fixed and long double clamp what snprintf() reports, time_point does not.
Clamped(m, text) ==
  Since(m.pos, [mem |-> Printed(m, text),
                pos |-> m.pos + Min2(Len(text), Room(m))])
Unclamped(m, text) ==
  Since(m.pos, [mem |-> Overlay(Printed(m, text), m.pos + Len(text), <<>>),
                pos |-> m.pos + Len(text)])

\* render_double(): nothing at all unless the largest result would fit.
Float(m, text) == IF Room(m) < FloatRoom THEN Wrote(m, <<>>) ELSE Wrote(m, text)

\* quoted: an empty pair of quotes when the text does not fit.
Quoted(m, text) ==
  IF m.pos + Len(text) + 2 > Cap THEN Wrote(m, <<"'", "'">>)
  ELSE Wrote(m, <<"'">> \o text \o <<"'">>)

(***************************************************************************)
(* escaped and hexdump go byte by byte and look at the room before each:   *)
(* escaped passes over what does not fit and goes on, hexdump stops.       *)
(***************************************************************************)
EscapeOf(c) == CASE c \in {"'", "\\", "n"} -> <<"\\", c>>
                 [] c = "raw" -> <<"\\", "x", "0", "1">>
                 [] OTHER -> <<c>>

RECURSIVE EscapeInto(_, _)
EscapeInto(m, s) ==
  IF s = <<>> \/ Room(m) = 0 THEN m
  ELSE EscapeInto(IF Len(EscapeOf(Head(s))) <= Room(m)
                  THEN Put(m, EscapeOf(Head(s))) ELSE m,
                  Tail(s))

Pair(i) == (IF i > 1 THEN <<" ">> ELSE <<>>) \o <<"0", Digit(i)>>

RECURSIVE DumpInto(_, _, _)
DumpInto(m, i, n) ==
  IF i > n \/ Room(m) < 3 THEN m ELSE DumpInto(Put(m, Pair(i)), i + 1, n)

Hexdump(m, n) ==
  LET shown == DumpInto(m, 1, Min2(n, DumpMax))
  IN  Since(m.pos, IF n > DumpMax THEN AppendStr(shown, <<" ", ".", ".">>)
                                  ELSE shown)

(***************************************************************************)
(* Composite values.                                                       *)
(***************************************************************************)
RECURSIVE Render(_, _)

\* A part of a container: copied unless its bytes end at the cursor.
InPlace(r) == r.iov.own /\ r.iov.at = r.m.pos - r.iov.len
Part(m, v) ==
  LET r == Render(m, v)
  IN  IF InPlace(r) THEN r.m ELSE AppendStr(r.m, Bytes(r.m.mem, r.iov))

\* The loop of join, vector, array, pair, tuple, map and set: v.seps[i] stands
\* before part i.
RECURSIVE Parts(_, _, _)
Parts(m, v, i) ==
  IF i > Len(v.parts) THEN m
  ELSE Parts(Part(IF i = 1 THEN m ELSE AppendStr(m, v.seps[i]), v.parts[i]),
             v, i + 1)

Container(m, v) ==
  Since(m.pos, AppendStr(Parts(AppendStr(m, v.open), v, 1), v.close))

\* render_padded() when the inner text starts where the cursor was: filled
\* behind, or moved up and filled in front.  The shift is what still fits.
Filled(m, start, v, pad) ==
  LET shift == Min2(pad, Room(m))
      fill  == Repeat(Fill, shift)
      inner == SubSeq(m.mem, start + 1, m.pos)
  IN  Since(start, IF v.left THEN Put(m, fill)
                   ELSE [mem |-> Overlay(m.mem, start, fill \o inner),
                         pos |-> m.pos + shift])

\* ... and when it is borrowed.
Copied(m, v, text, pad) ==
  LET fill == Repeat(Fill, pad)
  IN  Since(m.pos, IF v.left THEN AppendStr(AppendStr(m, text), fill)
                             ELSE AppendStr(AppendStr(m, fill), text))

\* render_padded(); and a slip in it: the inner text is taken to be in scratch.
PaddedInPlace(m, v) ==
  LET r == Render(m, v.of)
  IN  IF v.width <= r.iov.len THEN r
      ELSE Filled(r.m, m.pos, v, v.width - r.iov.len)
Padded(m, v) ==
  LET r       == Render(m, v.of)
      atStart == r.iov.own /\ r.iov.at = m.pos
      text    == Bytes(r.m.mem, r.iov)
  IN  IF v.width <= r.iov.len
      THEN IF atStart THEN r ELSE Fitted(r.m, text)
      ELSE IF atStart THEN Filled(r.m, m.pos, v, v.width - r.iov.len)
           ELSE Copied(r.m, v, text, v.width - r.iov.len)

Nullable(m, v) == IF v.of = <<>> THEN Fitted(m, <<"<nu", "ll>">>)
                  ELSE Render(m, v.of[1])

Render(m, v) ==
  CASE v.kind = "text"    -> Lent(m, v.text)
    [] v.kind = "char"    -> Wrote(m, <<v.c>>)
    [] v.kind = "int"     -> Wrote(m, Decimal(v.v))
    [] v.kind = "pointer" -> Pointer(m, v.v)
    [] v.kind = "hex"     -> Hex(m, v.v)
    [] v.kind = "bin"     -> Bin(m, v.v)
    [] v.kind = "oct"     -> Oct(m, v.v)
    [] v.kind = "float"   -> Float(m, v.text)
    [] v.kind = "fixed"   -> Clamped(m, v.text)
    [] v.kind = "time"    -> Unclamped(m, v.text)
    [] v.kind = "quoted"  -> Quoted(m, v.text)
    [] v.kind = "escaped" -> Since(m.pos, EscapeInto(m, v.text))
    [] v.kind = "hexdump" -> Hexdump(m, v.n)
    [] v.kind = "nullable" -> Nullable(m, v)
    [] v.kind = "padded"  -> Padded(m, v)
    [] v.kind = "parts"   -> Container(m, v)
    [] v.kind = "custom"  -> Fitted(m, v.text)

(***************************************************************************)
(* What a value means, without a buffer.                                   *)
(***************************************************************************)
\* The numeral of u: as many digits as it takes, each from its place.
Numeral(u, base) ==
  LET k == CHOOSE k \in 1..Bits : base^k > u /\ (k > 1 => base^(k - 1) <= u)
  IN  [i \in 1..k |-> Digit((u \div base^(k - i)) % base)]

Signed(v) == IF v < 0 THEN <<"-">> \o Numeral(-v, 10) ELSE Numeral(v, 10)

RECURSIVE Concat(_)
Concat(ss) == IF ss = <<>> THEN <<>> ELSE Head(ss) \o Concat(Tail(ss))

RECURSIVE Meaning(_)
Meaning(v) ==
  CASE v.kind = "char"    -> <<v.c>>
    [] v.kind = "int"     -> Signed(v.v)
    [] v.kind = "pointer" -> <<"0", "x">> \o Numeral(v.v, 16)
    [] v.kind = "hex"     -> Numeral(v.v, 16)
    [] v.kind = "bin"     -> Numeral(v.v, 2)
    [] v.kind = "oct"     -> Numeral(v.v, 8)
    [] v.kind = "quoted"  -> <<"'">> \o v.text \o <<"'">>
    [] v.kind = "escaped" -> Concat([i \in DOMAIN v.text |-> EscapeOf(v.text[i])])
    [] v.kind = "hexdump" -> Concat([i \in 1..Min2(v.n, DumpMax) |-> Pair(i)])
                             \o (IF v.n > DumpMax THEN <<" ", ".", ".">> ELSE <<>>)
    [] v.kind = "nullable" -> IF v.of = <<>> THEN <<"<nu", "ll>">>
                              ELSE Meaning(v.of[1])
    [] v.kind = "padded"  ->
         LET inner == Meaning(v.of)
             fill  == Repeat(Fill, Max2(0, v.width - Len(inner)))
         IN  IF v.left THEN inner \o fill ELSE fill \o inner
    [] v.kind = "parts"   ->
         v.open \o Concat([i \in DOMAIN v.parts |->
                             (IF i = 1 THEN <<>> ELSE v.seps[i])
                             \o Meaning(v.parts[i])]) \o v.close
    [] OTHER -> v.text

\* The renderers that look at the room before they write.
RECURSIVE Checks(_)
Checks(v) ==
  CASE v.kind \in {"char", "int", "pointer", "hex", "bin", "time", "quoted"} -> FALSE
    [] v.kind = "nullable" -> v.of = <<>> \/ Checks(v.of[1])
    [] v.kind = "padded"   -> Checks(v.of)
    [] v.kind = "parts"    -> \A i \in DOMAIN v.parts : Checks(v.parts[i])
    [] OTHER -> TRUE
=============================================================================
