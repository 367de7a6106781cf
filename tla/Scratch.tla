------------------------------- MODULE Scratch -------------------------------
(***************************************************************************)
(* The thread's scratch buffer and what a renderer gives back              *)
(* (src/scratch.cpp, include/elog/iov.hpp, and the helpers of              *)
(* include/elog/render_extra.hpp).                                         *)
(*                                                                         *)
(* Every elog_render() gets the buffer and the cursor pos, and returns an  *)
(* Iov: either the bytes it has just put into the buffer, or a borrowed    *)
(* pointer to bytes that exist elsewhere.                                  *)
(*                                                                         *)
(* A byte is a string of one symbol; the words the library supplies itself *)
(* ("true", "<null>", "(null)", a time stamp) are shortened to two bytes.  *)
(***************************************************************************)
EXTENDS Integers, Sequences

CONSTANT Cap  \* kScratchSize

ASSUME ScratchAssumption == Cap \in Nat \ {0}

Min2(a, b) == IF a < b THEN a ELSE b
Max2(a, b) == IF a > b THEN a ELSE b
Prefix(s, n) == SubSeq(s, 1, Min2(n, Len(s)))
Repeat(c, n) == [i \in 1..n |-> c]

(***************************************************************************)
(* Scratch memory and cursor, m = [mem, pos].  mem is longer than Cap once *)
(* a renderer has written past the end of the buffer.                      *)
(***************************************************************************)
Stale == "stale"
Fill  == "_"      \* the one fill character of padded values
Fresh == Repeat(Stale, Cap)

Overlay(mem, at, bytes) ==
  [i \in 1..Max2(Len(mem), at + Len(bytes)) |->
     IF i \in at + 1..at + Len(bytes) THEN bytes[i - at]
     ELSE IF i <= Len(mem) THEN mem[i] ELSE Stale]

Put(m, bytes) == [mem |-> Overlay(m.mem, m.pos, bytes),
                  pos |-> m.pos + Len(bytes)]

Room(m) == IF m.pos >= Cap THEN 0 ELSE Cap - m.pos

\* append_str(); and a slip in it: the clamp forgotten.
AppendStrAll(m, bytes) == Put(m, bytes)
AppendStr(m, bytes) == Put(m, Prefix(bytes, Room(m)))

Borrowed(text) == [own |-> FALSE, at |-> 0, len |-> Len(text), text |-> text]
Own(at, len)   == [own |-> TRUE, at |-> at, len |-> len, text |-> <<>>]

Bytes(mem, iov) ==
  IF iov.own THEN [i \in 1..iov.len |->
                     IF iov.at + i <= Len(mem) THEN mem[iov.at + i] ELSE Stale]
             ELSE iov.text

\* The result of a renderer: memory, cursor and the Iov.
Since(from, m)  == [m |-> m, iov |-> Own(from, m.pos - from)]
Wrote(m, bytes) == Since(m.pos, Put(m, bytes))
Fitted(m, bytes) == Since(m.pos, AppendStr(m, bytes))
Lent(m, text)   == [m |-> m, iov |-> Borrowed(text)]
=============================================================================
