-------------------------- MODULE BufferedSinkProofs --------------------------
(***************************************************************************)
(* Theorems about BufferedSink for any capacity, line lengths, owner and   *)
(* number of calls, short writes and failures.  While no write has failed, *)
(* what was accepted is what is in the file, then what waits; after that,  *)
(* what waits is still in order, and counting bytes tells what was lost.   *)
(***************************************************************************)
EXTENDS BufferedSink, SequenceLemmas

Bytes == 1 .. MaxLines

\* What each point of the code knows of the line, the buffer and the room left.
Shape ==
    /\ pc \in {"idle", "settle", "close"} => entry = <<>>
    /\ pc \in {"settle", "close"} => buf = <<>>
    /\ pc = "append" => Len(buf) + Len(entry) <= Cap
    /\ pc = "direct" => entry # <<>>
    /\ pc = "drain" =>
         /\ out # <<>>
         /\ next \in {"idle", "settle", "close"} => entry = <<>>
         /\ next = "append" => Len(entry) <= Cap
         /\ next = "direct" => entry # <<>>

\* Until a write fails, nothing is lost between the file and what waits.
Balance == errors = 0 /\ pc \notin Ended => accepted = file \o Waiting

IInv == TypeOK /\ Shape /\ Balance /\ SettledIsDurable /\ ScopedShutdownKeepsLines

\* The bytes are in the order of their lines.
Sorted(s) == \A i, j \in DOMAIN s : i < j => s[i] <= s[j]

\* What waits apart from the line in hand.
Ahead == IF pc = "drain" THEN out ELSE buf

\* What waits is in order and behind the file, is whole with what the file has of
\* it, and the line in hand has no byte elsewhere; so a failure, which drops what
\* was handed to the writev, tears only its first line.
Tidy ==
    /\ Sorted(Waiting)
    /\ \A c \in ToSet(file), d \in ToSet(Waiting) : c <= d
    /\ \A c \in ToSet(accepted) : c <= lines
    /\ ToSet(file) \cup ToSet(Waiting) \subseteq ToSet(accepted)
    /\ \A k \in ToSet(Waiting) : BytesOf(k, file) + BytesOf(k, Waiting) = BytesOf(k, accepted)
    /\ \A c \in ToSet(entry) : c \notin ToSet(file) /\ c \notin ToSet(Ahead)
    /\ Cardinality(Torn) <= errors

TearInv == IInv /\ (pc \notin Ended => Tidy)

-----------------------------------------------------------------------------

\* Everything that holds bytes is a sequence of line numbers.
LEMMA Types ==
  ASSUME TypeOK
  PROVE  /\ file \in Seq(Bytes) /\ buf \in Seq(Bytes) /\ out \in Seq(Bytes)
         /\ entry \in Seq(Bytes) /\ accepted \in Seq(Bytes)
         /\ Waiting \in Seq(Bytes)
<1>1. /\ file \in Seq(Bytes) /\ buf \in Seq(Bytes) /\ out \in Seq(Bytes)
      /\ entry \in Seq(Bytes) /\ accepted \in Seq(Bytes)
  BY DEF TypeOK, Bytes
<1>2. (IF pc = "drain" THEN out ELSE buf) \o entry \in Seq(Bytes)
  <2>1. CASE pc = "drain"
    BY <1>1
  <2>2. CASE pc # "drain"
    BY <1>1
  <2> QED BY <2>1, <2>2
<1> QED BY <1>1 DEF Waiting

\* The bytes of a line: as many as its length, all with its number.
LEMMA EntryBytes ==
  ASSUME NEW n \in Lengths, lines \in 0 .. MaxLines, lines < MaxLines
  PROVE  LET e == [i \in 1 .. n |-> lines + 1]
         IN  e \in Seq(Bytes) /\ Len(e) = n /\ e # <<>>
<1>1. n \in Nat \ {0} /\ MaxLines \in Nat
  BY ConstantsAssumption
<1>2. lines + 1 \in Bytes
  BY <1>1 DEF Bytes
<1> QED BY <1>1, <1>2

\* The initial state satisfies the invariant.
LEMMA Initially == Init => IInv
<1> SUFFICES ASSUME Init PROVE IInv OBVIOUS
<1> USE ConstantsAssumption DEF Init
<1>1. <<>> \in Seq(1 .. MaxLines) /\ Len(buf) = 0 /\ Len(file) = 0 /\ Len(accepted) = 0
  OBVIOUS
<1>2. TypeOK
  <2>1. \A s \in {file, buf, out, entry, accepted} : s \in Seq(1 .. MaxLines)
    BY <1>1
  <2>2. settled \in 0 .. Len(accepted) /\ Len(buf) <= Cap
    BY <1>1
  <2>3. lines \in 0 .. MaxLines /\ flushes \in 0 .. MaxFlushes /\ shorts \in 0 .. MaxShort
        /\ errors \in 0 .. MaxErrors
    OBVIOUS
  <2> QED BY <2>1, <2>2, <2>3 DEF TypeOK
<1>3. Shape
  BY DEF Shape
<1>4. Balance /\ IsPrefix(file, accepted)
  <2>1. file \o Waiting = <<>>
    BY DEF Waiting
  <2>2. IsPrefix(<<>>, <<>> \o <<>>)
    BY <1>1, PrefixOfConcat
  <2> QED BY <2>1, <2>2 DEF Balance
<1>5. SettledIsDurable /\ ScopedShutdownKeepsLines
  BY <1>4 DEF SettledIsDurable, ScopedShutdownKeepsLines
<1> QED BY <1>2, <1>3, <1>4, <1>5 DEF IInv

\* write() puts its line behind all that waits.
LEMMA WriteEffect ==
  ASSUME IInv, NEW n \in Lengths, NEW c \in BOOLEAN, Write(n, c)
  PROVE  /\ entry' \in Seq(Bytes) /\ Len(entry') = n /\ entry' # <<>>
         /\ Waiting' = Waiting \o entry'
         /\ accepted' = accepted \o entry'
<1>1. /\ pc = "idle" /\ lines < MaxLines /\ lines \in 0 .. MaxLines /\ entry = <<>>
      /\ entry' = [i \in 1 .. n |-> lines + 1] /\ accepted' = accepted \o entry'
      /\ buf' = buf
  BY DEF IInv, TypeOK, Shape, Write
<1>2. entry' \in Seq(Bytes) /\ Len(entry') = n /\ entry' # <<>>
  BY <1>1, EntryBytes
<1>3. (IF pc' = "drain" THEN out' ELSE buf') = buf
  BY DEF Write, FlushLocked
<1>4. Waiting = buf
  BY <1>1 DEF Waiting
<1> QED BY <1>1, <1>2, <1>3, <1>4 DEF Waiting

\* The entry of write(): a fresh line waits behind all others.
LEMMA WriteStep ==
  ASSUME IInv, NEW n \in Lengths, NEW c \in BOOLEAN, Write(n, c)
  PROVE  IInv'
<1>1. /\ entry' \in Seq(Bytes) /\ Len(entry') = n /\ entry' # <<>>
      /\ Waiting' = Waiting \o entry' /\ accepted' = accepted \o entry'
  BY WriteEffect
<1>2. /\ file \in Seq(Bytes) /\ buf \in Seq(Bytes) /\ out \in Seq(Bytes)
      /\ accepted \in Seq(Bytes) /\ Waiting \in Seq(Bytes)
  BY Types DEF IInv
<1>3. /\ accepted' \in Seq(Bytes) /\ Len(accepted') = Len(accepted) + n
      /\ n \in Nat \ {0} /\ Cap \in Nat
  BY <1>1, <1>2, ConcatProperties, ConstantsAssumption
<1>4. /\ pc = "idle" /\ pc' \in {"append", "direct", "drain"} /\ file' = file /\ buf' = buf
      /\ errors' = errors /\ settled' = settled
  BY DEF Write, FlushLocked
<1>5. TypeOK'
  <2>1. out' \in Seq(Bytes)
    BY <1>2 DEF Write, FlushLocked
  <2>2. /\ pc' = "direct" => buf' = <<>>
        /\ next' \in {"idle", "append", "direct", "settle", "close"}
    BY DEF Write, FlushLocked, IInv, TypeOK
  <2>3. settled' \in 0 .. Len(accepted')
    BY <1>3, <1>4 DEF IInv, TypeOK
  <2>4. /\ owner' \in Owners /\ critical' \in BOOLEAN /\ lines' \in 0 .. MaxLines
        /\ flushes' \in 0 .. MaxFlushes /\ shorts' \in 0 .. MaxShort
        /\ errors' \in 0 .. MaxErrors /\ Len(buf') <= Cap
    BY ConstantsAssumption DEF Write, IInv, TypeOK
  <2> QED BY <1>1, <1>2, <1>4, <2>1, <2>2, <2>3, <2>4 DEF TypeOK, Bytes
<1>6. Shape'
  <2>1. CASE n > Cap
    BY <1>1, <2>1 DEF Write, FlushLocked, Shape
  <2>2. CASE ~(n > Cap) /\ ~Fits(n)
    <3>1. buf # <<>>
      BY <1>3, <2>2 DEF Fits
    <3> QED BY <1>3, <2>2 DEF Write, FlushLocked, Shape
  <2>3. CASE ~(n > Cap) /\ Fits(n)
    BY <1>1, <2>3 DEF Write, Fits, Shape
  <2> QED BY <2>1, <2>2, <2>3
<1>7. Balance'
  <2>1. (file \o Waiting) \o entry' = file \o (Waiting \o entry')
    <3>1. file \in Seq(Bytes) /\ Waiting \in Seq(Bytes) /\ entry' \in Seq(Bytes)
      BY <1>1, <1>2
    <3> QED BY <3>1, ConcatAssociative
  <2>2. errors' = 0 => accepted = file \o Waiting
    BY <1>4 DEF Balance, IInv, Ended
  <2> QED BY <1>1, <1>4, <2>1, <2>2 DEF Balance
<1>8. SettledIsDurable'
  <2>1. errors' = 0 => IsPrefix(file', accepted')
    BY <1>1, <1>2, <1>4, PrefixOfLonger DEF IInv, SettledIsDurable
  <2> QED BY <1>4, <2>1 DEF IInv, SettledIsDurable
<1>9. ScopedShutdownKeepsLines'
  BY <1>4 DEF ScopedShutdownKeepsLines
<1> QED BY <1>5, <1>6, <1>7, <1>8, <1>9 DEF IInv

\* Staging a line moves no byte past another.
LEMMA StageEffect ==
  ASSUME IInv, Stage
  PROVE  /\ buf' = buf \o entry /\ buf' \in Seq(Bytes) /\ Len(buf') <= Cap
         /\ out' \in Seq(Bytes) /\ entry' = <<>> /\ Waiting' = Waiting
<1>1. /\ pc = "append" /\ buf' = buf \o entry /\ entry' = <<>>
      /\ Len(buf) + Len(entry) <= Cap
  BY DEF IInv, Shape, Stage
<1>2. buf \in Seq(Bytes) /\ entry \in Seq(Bytes) /\ out \in Seq(Bytes)
  BY Types DEF IInv
<1>3. buf' \in Seq(Bytes) /\ Len(buf') <= Cap
  BY <1>1, <1>2
<1>4. (IF pc' = "drain" THEN out' ELSE buf') = buf' /\ out' \in Seq(Bytes)
  BY <1>2, <1>3 DEF Stage, FlushLocked
<1>5. Waiting' = buf' \o <<>>
  BY <1>1, <1>4 DEF Waiting
<1>6. Waiting = buf \o entry
  BY <1>1 DEF Waiting
<1> QED BY <1>1, <1>3, <1>4, <1>5, <1>6

\* The memcpy of a line that fits keeps the invariant.
LEMMA StageStep ==
  ASSUME IInv, Stage
  PROVE  IInv'
<1>1. /\ buf' = buf \o entry /\ buf' \in Seq(Bytes) /\ Len(buf') <= Cap
      /\ out' \in Seq(Bytes) /\ entry' = <<>> /\ Waiting' = Waiting
  BY StageEffect
<1>2. /\ pc \notin Ended /\ pc' \in {"idle", "settle", "drain"} /\ file' = file
      /\ errors' = errors /\ accepted' = accepted /\ settled' = settled
  BY DEF Stage, FlushLocked, counts, Ended
<1>3. TypeOK'
  <2>1. next' \in {"idle", "append", "direct", "settle", "close"}
    BY DEF Stage, FlushLocked, IInv, TypeOK
  <2> QED BY <1>1, <1>2, <2>1 DEF Stage, counts, IInv, TypeOK, Bytes
<1>4. Shape'
  <2>1. pc' = "settle" => buf' = <<>>
    BY DEF Stage, FlushLocked
  <2>2. pc' = "drain" => out' # <<>> /\ next' = "settle"
    BY DEF Stage, FlushLocked
  <2> QED BY <1>1, <1>2, <2>1, <2>2 DEF Shape
<1>5. Balance' /\ SettledIsDurable' /\ ScopedShutdownKeepsLines'
  BY <1>1, <1>2 DEF IInv, Balance, SettledIsDurable, ScopedShutdownKeepsLines
<1> QED BY <1>3, <1>4, <1>5 DEF IInv

\* An oversized line is handed to writev_all() with nothing ahead of it.
LEMMA StartDirectEffect ==
  ASSUME IInv, StartDirect
  PROVE  Waiting' = Waiting
<1>1. pc = "direct" /\ buf = <<>> /\ out' = entry /\ entry' = <<>> /\ pc' = "drain"
  BY DEF IInv, TypeOK, StartDirect
<1>2. Waiting = <<>> \o entry /\ Waiting' = entry \o <<>>
  BY <1>1 DEF Waiting
<1> QED BY <1>2

\* The start of the direct write keeps the invariant.
LEMMA StartDirectStep ==
  ASSUME IInv, StartDirect
  PROVE  IInv'
<1>1. /\ pc = "direct" /\ buf = <<>> /\ out' = entry /\ entry' = <<>> /\ pc' = "drain"
      /\ next' \in {"settle", "idle"} /\ entry # <<>> /\ file' = file
      /\ errors' = errors /\ accepted' = accepted /\ settled' = settled
  BY DEF IInv, TypeOK, Shape, StartDirect, counts
<1>2. TypeOK'
  BY DEF StartDirect, counts, IInv, TypeOK
<1>3. Shape'
  BY <1>1 DEF Shape
<1>4. Balance' /\ SettledIsDurable' /\ ScopedShutdownKeepsLines'
  BY <1>1, StartDirectEffect DEF IInv, Balance, SettledIsDurable,
     ScopedShutdownKeepsLines, Ended
<1> QED BY <1>2, <1>3, <1>4 DEF IInv

-----------------------------------------------------------------------------

\* One writev of k bytes.  What it takes goes from the front of what waits to the
\* end of the file; one that fails takes nothing and costs what it was handed.
LEMMA WritevEffect ==
  ASSUME IInv, Writev
  PROVE  /\ file' \in Seq(Bytes) /\ out' \in Seq(Bytes) /\ Waiting' \in Seq(Bytes)
         /\ \/ /\ errors' = errors
               /\ \E taken \in Seq(Bytes) :
                    /\ taken # <<>>
                    /\ file' = file \o taken
                    /\ Waiting = taken \o Waiting'
            \/ /\ errors' = errors + 1 /\ file' = file
               /\ Waiting = out \o Waiting'
         /\ \/ /\ pc' = "drain" /\ next' = next /\ buf' = buf /\ out' # <<>>
            \/ /\ pc' = next /\ next' = "idle" /\ buf' = <<>> /\ out' = <<>>
<1>1. /\ pc = "drain" /\ out # <<>> /\ entry' = entry /\ next # "drain"
  BY DEF IInv, TypeOK, Shape, Writev
<1>2. /\ file \in Seq(Bytes) /\ out \in Seq(Bytes) /\ entry \in Seq(Bytes)
      /\ Len(out) \in Nat \ {0} /\ errors \in Nat
  <2>1. file \in Seq(Bytes) /\ out \in Seq(Bytes) /\ entry \in Seq(Bytes)
    BY Types DEF IInv
  <2> QED BY <1>1, <2>1 DEF IInv, TypeOK
<1>3. Waiting = out \o entry
  BY <1>1 DEF Waiting
<1>4. PICK k \in 0 .. Len(out) :
        /\ \/ k = Len(out) /\ UNCHANGED <<shorts, errors>>
           \/ 0 < k /\ k < Len(out) /\ shorts < MaxShort
                /\ shorts' = shorts + 1 /\ UNCHANGED errors
           \/ k = 0 /\ errors < MaxErrors
                /\ errors' = errors + 1 /\ UNCHANGED shorts
        /\ file' = file \o SubSeq(out, 1, k)
        /\ IF 0 < k /\ k < Len(out)
           THEN /\ out' = Rest(k)
                /\ UNCHANGED <<buf, pc, next>>
           ELSE out' = <<>> /\ buf' = <<>> /\ pc' = next /\ next' = "idle"
  BY DEF Writev
<1> DEFINE taken == SubSeq(out, 1, k)
<1>5. /\ taken \in Seq(Bytes) /\ Len(taken) = k
      /\ Rest(k) \in Seq(Bytes) /\ Len(Rest(k)) = Len(out) - k
      /\ taken \o Rest(k) = out
  BY <1>2, SplitAt DEF Rest
<1>6. <<>> \o entry = entry /\ <<>> \in Seq(Bytes) /\ Len(<<>>) = 0
  BY <1>2, ConcatEmptySeq
<1> HIDE DEF taken
<1>7. CASE k = Len(out)
  <2>1. Rest(k) = <<>>
    BY <1>5, <1>7
  <2>2. taken = out
    BY <1>5, <2>1
  <2>3. file' = file \o out /\ file' \in Seq(Bytes)
    BY <1>2, <1>4, <2>2, ConcatProperties DEF taken
  <2>4. out' = <<>> /\ buf' = <<>> /\ pc' = next /\ next' = "idle" /\ errors' = errors
    BY <1>2, <1>4, <1>7
  <2>5. Waiting' = entry
    BY <1>1, <2>4 DEF Waiting
  <2> QED BY <1>2, <1>3, <1>6, <2>3, <2>4, <2>5
<1>8. CASE 0 < k /\ k < Len(out)
  <2>1. /\ out' = Rest(k) /\ buf' = buf /\ pc' = pc /\ next' = next /\ errors' = errors
        /\ file' = file \o taken
    BY <1>4, <1>8 DEF taken
  <2>2. taken # <<>> /\ Rest(k) # <<>>
    BY <1>5, <1>8
  <2>3. file' \in Seq(Bytes)
    BY <1>2, <1>5, <2>1
  <2>4. Waiting' = Rest(k) \o entry
    BY <1>1, <2>1 DEF Waiting
  <2>5. (taken \o Rest(k)) \o entry = taken \o (Rest(k) \o entry)
    <3>1. taken \in Seq(Bytes) /\ Rest(k) \in Seq(Bytes) /\ entry \in Seq(Bytes)
      BY <1>2, <1>5
    <3> QED BY <3>1, ConcatAssociative
  <2>6. Waiting = taken \o Waiting'
    BY <1>3, <1>5, <2>4, <2>5
  <2>7. Waiting' \in Seq(Bytes)
    BY <1>2, <1>5, <2>4
  <2> QED BY <1>1, <1>5, <2>1, <2>2, <2>3, <2>6, <2>7
<1>9. CASE k = 0
  <2>1. /\ out' = <<>> /\ buf' = <<>> /\ pc' = next /\ next' = "idle" /\ errors' = errors + 1
        /\ file' = file \o taken
    BY <1>2, <1>4, <1>9 DEF taken
  <2>2. taken = <<>>
    BY <1>5, <1>9
  <2>3. file' = file
    BY <2>1, <2>2
  <2>4. Waiting' = entry
    BY <1>1, <2>1 DEF Waiting
  <2> QED BY <1>2, <1>3, <2>1, <2>3, <2>4
<1>10. k = Len(out) \/ (0 < k /\ k < Len(out)) \/ k = 0
  BY <1>2
<1> QED BY <1>7, <1>8, <1>9, <1>10

\* Each writev of writev_all() keeps the invariant, whatever it takes.
LEMMA WritevStep ==
  ASSUME IInv, Writev
  PROVE  IInv'
<1>1. /\ pc = "drain" /\ entry' = entry /\ accepted' = accepted /\ settled' = settled
      /\ errors \in Nat
  BY DEF IInv, TypeOK, Writev
<1>2. /\ file \in Seq(Bytes) /\ out \in Seq(Bytes) /\ entry \in Seq(Bytes)
      /\ accepted \in Seq(Bytes) /\ buf \in Seq(Bytes)
  BY Types DEF IInv
<1>3. file' \in Seq(Bytes) /\ out' \in Seq(Bytes)
  BY WritevEffect
<1>4. \/ pc' = "drain" /\ next' = next /\ buf' = buf /\ out' # <<>>
      \/ pc' = next /\ next' = "idle" /\ buf' = <<>> /\ out' = <<>>
  BY WritevEffect
<1>5. buf' \in Seq(Bytes) /\ Len(buf') <= Cap
  <2>1. <<>> \in Seq(Bytes) /\ Len(<<>>) <= Cap /\ Len(buf) <= Cap
    BY ConstantsAssumption DEF IInv, TypeOK
  <2>2. buf' = buf \/ buf' = <<>>
    BY <1>4
  <2> QED BY <1>2, <2>1, <2>2
<1>6. TypeOK'
  <2>1. /\ pc' \in {"idle", "drain", "append", "direct", "settle", "close"} \cup Ended
        /\ next' \in {"idle", "append", "direct", "settle", "close"}
        /\ pc' = "direct" => buf' = <<>>
    BY <1>4 DEF IInv, TypeOK
  <2>2. shorts' \in 0 .. MaxShort /\ errors' \in 0 .. MaxErrors
    <3>1. shorts \in 0 .. MaxShort /\ errors \in 0 .. MaxErrors
      BY DEF IInv, TypeOK
    <3>2. \/ shorts' = shorts /\ errors' = errors
          \/ shorts' = shorts + 1 /\ shorts < MaxShort /\ errors' = errors
          \/ errors' = errors + 1 /\ errors < MaxErrors /\ shorts' = shorts
      BY DEF Writev
    <3> QED BY <3>1, <3>2, ConstantsAssumption
  <2> QED BY <1>3, <1>5, <2>1, <2>2 DEF Writev, IInv, TypeOK, Bytes
<1>7. Shape'
  BY <1>1, <1>4, ConstantsAssumption DEF IInv, Shape, TypeOK
<1>8. Waiting' \in Seq(Bytes)
  BY WritevEffect
<1>9. Balance' /\ SettledIsDurable'
  <2>1. ASSUME NEW taken \in Seq(Bytes), errors' = errors,
               file' = file \o taken, Waiting = taken \o Waiting'
        PROVE  Balance' /\ SettledIsDurable'
    <3>1. (file \o taken) \o Waiting' = file \o (taken \o Waiting')
      <4>1. ASSUME NEW x \in Seq(Bytes), NEW y \in Seq(Bytes), NEW z \in Seq(Bytes)
            PROVE  (x \o y) \o z = x \o (y \o z)
        BY ONLY <4>1, ConcatAssociative
      <4>2. file \in Seq(Bytes) /\ Waiting' \in Seq(Bytes)
        BY <1>2, <1>8
      <4> QED BY <4>1, <4>2
    <3>2. errors = 0 => accepted = file \o Waiting
      BY <1>1 DEF IInv, Balance, Ended
    <3>3. errors' = 0 => accepted' = file' \o Waiting'
      BY <1>1, <2>1, <3>1, <3>2
    <3>4. errors' = 0 => IsPrefix(file', accepted')
      BY <1>3, <1>8, <3>3, PrefixOfConcat
    <3>5. Len(file') = Len(file) + Len(taken) /\ Len(taken) \in Nat /\ Len(file) \in Nat
      BY <2>1
    <3>6. errors' = 0 => Len(file') >= settled'
      BY <1>1, <2>1 DEF IInv, SettledIsDurable, TypeOK
    <3> QED BY <3>3, <3>4, <3>6 DEF Balance, SettledIsDurable
  <2>2. CASE errors' = errors + 1
    BY <1>1, <2>2 DEF Balance, SettledIsDurable
  <2> QED BY <2>1, <2>2, WritevEffect
<1>10. ScopedShutdownKeepsLines'
  BY <1>4 DEF IInv, TypeOK, ScopedShutdownKeepsLines
<1> QED BY <1>6, <1>7, <1>9, <1>10 DEF IInv

\* At the return of a critical write() or of a flush() nothing waits, so all that
\* was accepted is in the file.
LEMMA SettleStep ==
  ASSUME IInv, Settle
  PROVE  IInv'
<1>1. /\ pc = "settle" /\ pc' = "idle" /\ entry = <<>> /\ buf = <<>>
      /\ settled' = Len(accepted)
      /\ UNCHANGED <<owner, file, buf, out, entry, critical, next, counts, accepted>>
  BY DEF IInv, Shape, Settle
<1>2. file \in Seq(Bytes) /\ accepted \in Seq(Bytes) /\ Len(accepted) \in Nat
  BY Types DEF IInv
<1>3. Waiting = <<>> /\ Waiting' = Waiting
  BY <1>1 DEF Waiting
<1>4. TypeOK' /\ Shape'
  BY <1>1 DEF counts, IInv, TypeOK, Shape
<1>5. errors = 0 => accepted = file
  BY <1>1, <1>3 DEF IInv, Balance, Ended
<1>6. Balance'
  BY <1>1, <1>3 DEF counts, IInv, Balance, Ended
<1>7. SettledIsDurable'
  BY <1>1, <1>5 DEF counts, IInv, SettledIsDurable
<1>8. ScopedShutdownKeepsLines'
  BY <1>1 DEF ScopedShutdownKeepsLines
<1> QED BY <1>4, <1>6, <1>7, <1>8 DEF IInv

\* The start of a flush(), and the end of the program up to the destructor's
\* flush, move no byte.
LEMMA FlushEffect ==
  ASSUME IInv, Flush \/ Exit
  PROVE  Waiting' = Waiting
<1>1. /\ pc = "idle" /\ entry' = entry /\ (IF pc' = "drain" THEN out' ELSE buf') = buf
  BY DEF Flush, Exit, FlushLocked
<1> QED BY <1>1 DEF Waiting

\* They keep the invariant.
LEMMA FlushStep ==
  ASSUME IInv, Flush \/ Exit
  PROVE  IInv'
<1>1. /\ pc = "idle" /\ entry = <<>> /\ entry' = entry /\ buf' = buf /\ file' = file
      /\ errors' = errors /\ accepted' = accepted /\ settled' = settled
  BY DEF IInv, Shape, Flush, Exit, counts
<1>2. \/ /\ pc' \in {"settle", "close"} /\ buf = <<>> /\ out' = <<>> /\ next' = "idle"
      \/ /\ pc' = "drain" /\ out' = buf /\ buf # <<>> /\ next' \in {"settle", "close"}
      \/ /\ pc' = "exited" /\ owner' # "scoped" /\ UNCHANGED <<next, out>>
  BY DEF Flush, Exit, FlushLocked, Destroyed
<1>3. TypeOK'
  <2>1. buf \in Seq(Bytes) /\ out' \in Seq(Bytes)
    BY <1>2, Types DEF IInv
  <2>2. flushes' \in 0 .. MaxFlushes
    BY ConstantsAssumption DEF Flush, Exit, counts, IInv, TypeOK
  <2>3. /\ pc' \in {"idle", "drain", "append", "direct", "settle", "close"} \cup Ended
        /\ next' \in {"idle", "append", "direct", "settle", "close"}
        /\ pc' # "direct"
    BY <1>2 DEF Ended, IInv, TypeOK
  <2> QED BY <2>1, <2>2, <2>3 DEF Flush, Exit, counts, IInv, TypeOK, Bytes
<1>4. Shape'
  BY <1>1, <1>2 DEF Shape
<1>5. Balance' /\ SettledIsDurable'
  BY <1>1, FlushEffect DEF IInv, Balance, SettledIsDurable, Ended
<1>6. ScopedShutdownKeepsLines'
  BY <1>2 DEF ScopedShutdownKeepsLines
<1> QED BY <1>3, <1>4, <1>5, <1>6 DEF IInv

\* The destructor closes the file when nothing waits any more; a crash leaves the
\* file as it is.
LEMMA EndStep ==
  ASSUME IInv, Close \/ Crash
  PROVE  IInv'
<1>1. /\ pc \notin Ended /\ pc' \in Ended
      /\ UNCHANGED <<owner, file, buf, out, entry, critical, next, counts, accepted, settled>>
  BY DEF Close, Crash, Ended
<1>2. TypeOK' /\ Shape' /\ Balance'
  BY <1>1 DEF counts, IInv, TypeOK, Shape, Balance, Ended
<1>3. SettledIsDurable'
  BY <1>1 DEF counts, IInv, SettledIsDurable
<1>4. ScopedShutdownKeepsLines'
  <2>1. CASE Close
    <3>1. Waiting = <<>>
      BY <2>1 DEF Close, IInv, Shape, Waiting
    <3>2. errors = 0 => accepted = file
      BY <1>1, <3>1 DEF IInv, Balance
    <3> QED BY <1>1, <3>2 DEF counts, ScopedShutdownKeepsLines
  <2>2. CASE Crash
    BY <2>2 DEF Crash, ScopedShutdownKeepsLines
  <2> QED BY <2>1, <2>2
<1> QED BY <1>2, <1>3, <1>4 DEF IInv

\* Every step keeps the invariant.
LEMMA Preservation == IInv /\ [Next]_vars => IInv'
<1> SUFFICES ASSUME IInv, [Next]_vars PROVE IInv' OBVIOUS
<1>1. CASE UNCHANGED vars
  <2>1. TypeOK' /\ Shape'
    BY <1>1 DEF vars, IInv, TypeOK, Shape, Ended
  <2>2. Balance'
    BY <1>1 DEF vars, IInv, Balance, Waiting, Ended
  <2>3. SettledIsDurable' /\ ScopedShutdownKeepsLines'
    BY <1>1 DEF vars, IInv, SettledIsDurable, ScopedShutdownKeepsLines
  <2> QED BY <2>1, <2>2, <2>3 DEF IInv
<1>2. CASE \E n \in Lengths, c \in BOOLEAN : Write(n, c)
  BY <1>2, WriteStep
<1>3. CASE Step
  BY <1>3, StageStep, StartDirectStep, WritevStep, SettleStep, EndStep DEF Step
<1>4. CASE Flush \/ Exit \/ Crash
  BY <1>4, FlushStep, EndStep
<1> QED BY <1>1, <1>2, <1>3, <1>4 DEF Next, Done

\* The invariant holds in every reachable state.
LEMMA Invariance == Spec => []IInv
<1> QED BY Initially, Preservation, PTL DEF Spec

\* For any capacity and line lengths: the buffer never exceeds its capacity, every
\* counter stays in its range, and an oversized entry is written only when nothing
\* is buffered ahead of it.
THEOREM TypeCorrect == Spec => []TypeOK
<1>1. IInv => TypeOK BY DEF IInv
<1> QED BY <1>1, Invariance, PTL

\* What a returned critical write() or flush() covers is in the file, at every
\* later moment and after a crash at any step, however the writevs were split, as
\* long as none of them has failed (errors = 0).
THEOREM CriticalLinesSurvive == Spec => []SettledIsDurable
<1>1. IInv => SettledIsDurable BY DEF IInv
<1> QED BY <1>1, Invariance, PTL

\* A sink that is destroyed in an orderly exit leaves every line in the file.
THEOREM ScopedSinkKeepsLines == Spec => []ScopedShutdownKeepsLines
<1>1. IInv => ScopedShutdownKeepsLines BY DEF IInv
<1> QED BY <1>1, Invariance, PTL

\* The sink implements the write-behind log: a write() is an Accept, a writev a
\* Persist or a GiveUp, the end of the process an End, and no other step shows.
THEOREM ImplementsLog == Spec => LogSpec
<1>1. Init => Log!Init
  BY DEF Init, Waiting, Ended, Log!Init
<1> DEFINE Held == IF pc \in Ended THEN <<>> ELSE Waiting
           Logged == <<Held, file, errors, pc \notin Ended>>
<1>2. ASSUME IInv, [Next]_vars PROVE [Log!Next]_Logged
  <2> USE <1>2
  <2>1. ASSUME NEW n \in Lengths, NEW c \in BOOLEAN, Write(n, c) PROVE Log!Next
    <3>1. entry' \in Seq(Bytes) /\ entry' # <<>> /\ Waiting' = Waiting \o entry'
      BY <2>1, WriteEffect
    <3>2. IsStrictPrefix(Waiting, Waiting')
      BY <3>1, Types, PrefixOfConcat DEF IInv
    <3>3. pc \notin Ended /\ pc' \notin Ended /\ file' = file /\ errors' = errors
      BY <2>1 DEF Write, FlushLocked, Ended
    <3>4. Held = Waiting /\ Held' = Waiting'
      BY <3>3
    <3>5. Log!Accept
      BY <3>2, <3>3 DEF Log!Accept, Log!IsStrictPrefix, Log!IsPrefix, IsStrictPrefix,
         IsPrefix
    <3> QED BY <3>5 DEF Log!Next
  <2>2. ASSUME Writev PROVE Log!Next
    <3>1. pc \notin Ended /\ pc' \notin Ended
      BY <2>2 DEF Writev, Ended, IInv, TypeOK
    <3>2. /\ file \in Seq(Bytes) /\ file' \in Seq(Bytes) /\ out \in Seq(Bytes) /\ out # <<>>
          /\ Waiting \in Seq(Bytes) /\ Waiting' \in Seq(Bytes)
      <4>1. out # <<>>
        BY <2>2 DEF Writev, IInv, Shape
      <4> QED BY <2>2, <4>1, WritevEffect, Types DEF IInv
    <3>3. ASSUME NEW taken \in Seq(Bytes), taken # <<>>, errors' = errors,
                 file' = file \o taken, Waiting = taken \o Waiting'
          PROVE  Log!Persist
      <4>1. IsStrictPrefix(file, file')
        BY <3>2, <3>3, PrefixOfConcat
      <4>2. file' \o Waiting' = file \o Waiting
        BY <3>2, <3>3, ConcatAssociative
      <4>3. Held = Waiting /\ Held' = Waiting'
        BY <3>1
      <4> QED BY <3>1, <3>3, <4>1, <4>2 DEF Log!Persist, Log!IsStrictPrefix, Log!IsPrefix,
                 IsStrictPrefix, IsPrefix
    <3>4. CASE errors' = errors + 1 /\ file' = file /\ Waiting = out \o Waiting'
      <4>1. IsStrictSuffix(Waiting', Waiting)
        BY <3>2, <3>4, SuffixOfConcat
      <4>2. Held = Waiting /\ Held' = Waiting'
        BY <3>1
      <4>3. Log!GiveUp
        BY <3>1, <3>4, <4>1 DEF Log!GiveUp, Log!IsStrictSuffix, Log!IsSuffix,
           Log!IsPrefix, Log!Reverse, IsStrictSuffix, IsSuffix, IsPrefix, Reverse
      <4> QED BY <4>3 DEF Log!Next
    <3> QED BY <2>2, <3>3, <3>4, WritevEffect DEF Log!Next
  <2>3. ASSUME Close \/ Crash \/ Exit, pc' \in Ended PROVE Log!Next
    BY <2>3 DEF Close, Crash, Exit, counts, Ended, Log!Next, Log!End
  <2>4. ASSUME Flush \/ Exit, pc' \notin Ended PROVE UNCHANGED Logged
    BY <2>4, FlushEffect DEF Flush, Exit, counts, Ended
  <2>5. ASSUME Stage PROVE UNCHANGED Logged
    BY <2>5, StageEffect DEF Stage, FlushLocked, counts, Ended
  <2>6. ASSUME StartDirect PROVE UNCHANGED Logged
    BY <2>6, StartDirectEffect DEF StartDirect, counts, Ended
  <2>7. ASSUME Settle PROVE UNCHANGED Logged
    BY <2>7 DEF Settle, counts, Waiting, Ended
  <2>8. ASSUME UNCHANGED vars PROVE UNCHANGED Logged
    BY <2>8 DEF vars, Waiting
  <2>9. (Close \/ Crash => pc' \in Ended) /\ (Flush => pc' \notin Ended)
    BY DEF Close, Crash, Flush, FlushLocked, Ended
  <2> HIDE DEF Logged, Held
  <2> QED BY <2>1, <2>2, <2>3, <2>4, <2>5, <2>6, <2>7, <2>8, <2>9 DEF Next, Step, Done
<1> QED BY <1>1, <1>2, Invariance, PTL DEF Spec, LogSpec, Log!Spec, Log!vars

-----------------------------------------------------------------------------

\* The number of bytes of a line is positive exactly when some byte is there.
LEMMA CountType ==
  ASSUME NEW s \in Seq(Bytes), NEW k
  PROVE  /\ IsFiniteSet({i \in DOMAIN s : s[i] = k})
         /\ BytesOf(k, s) \in Nat
         /\ BytesOf(k, s) > 0 <=> k \in ToSet(s)
<1> DEFINE P == {i \in DOMAIN s : s[i] = k}
<1>1. Len(s) \in Nat /\ DOMAIN s = 1 .. Len(s)
  OBVIOUS
<1>2. IsFiniteSet(1 .. Len(s))
  BY <1>1, FS_Interval
<1>3. IsFiniteSet(P)
  <2>1. P \in SUBSET (1 .. Len(s))
    BY <1>1
  <2> HIDE DEF P
  <2> QED BY <1>2, <2>1, FS_Subset
<1>4. P # {} <=> k \in ToSet(s)
  BY DEF ToSet
<1>5. BytesOf(k, s) = Cardinality(P)
  BY DEF BytesOf
<1> HIDE DEF P
<1>6. Cardinality(P) \in Nat /\ (Cardinality(P) = 0 <=> P = {})
  BY <1>3, FS_CardinalityType, FS_EmptySet
<1>7. BytesOf(k, s) \in Nat /\ (BytesOf(k, s) > 0 <=> k \in ToSet(s))
  BY <1>4, <1>5, <1>6
<1> QED BY <1>3, <1>7 DEF P

\* The elements of two sequences, one behind the other.
LEMMA ToSetConcat ==
  ASSUME NEW a \in Seq(Bytes), NEW b \in Seq(Bytes)
  PROVE  ToSet(a \o b) = ToSet(a) \cup ToSet(b)
<1>1. /\ Len(a) \in Nat /\ Len(b) \in Nat /\ DOMAIN a = 1 .. Len(a) /\ DOMAIN b = 1 .. Len(b)
      /\ DOMAIN (a \o b) = 1 .. Len(a) + Len(b)
      /\ \A i \in 1 .. Len(a) + Len(b) :
            (a \o b)[i] = IF i <= Len(a) THEN a[i] ELSE b[i - Len(a)]
  OBVIOUS
<1>2. \A i \in DOMAIN a : i \in DOMAIN (a \o b) /\ (a \o b)[i] = a[i]
  BY <1>1
<1>3. \A i \in DOMAIN b : i + Len(a) \in DOMAIN (a \o b) /\ (a \o b)[i + Len(a)] = b[i]
  BY <1>1
<1>4. \A i \in DOMAIN (a \o b) :
        \/ i \in DOMAIN a /\ (a \o b)[i] = a[i]
        \/ i - Len(a) \in DOMAIN b /\ (a \o b)[i] = b[i - Len(a)]
  BY <1>1
<1> HIDE <1>1
<1>5. ToSet(a \o b) \subseteq ToSet(a) \cup ToSet(b)
  BY <1>4 DEF ToSet
<1>6. ToSet(a) \subseteq ToSet(a \o b) /\ ToSet(b) \subseteq ToSet(a \o b)
  BY <1>2, <1>3 DEF ToSet
<1> QED BY <1>5, <1>6

\* The bytes of a line in two sequences, one behind the other.
LEMMA CountConcat ==
  ASSUME NEW a \in Seq(Bytes), NEW b \in Seq(Bytes), NEW k
  PROVE  BytesOf(k, a \o b) = BytesOf(k, a) + BytesOf(k, b)
<1> DEFINE A == {i \in DOMAIN a : a[i] = k}
           B == {i \in DOMAIN b : b[i] = k}
           C == {i \in DOMAIN (a \o b) : (a \o b)[i] = k}
           D == {i \in C : i > Len(a)}
<1>1. /\ Len(a) \in Nat /\ Len(b) \in Nat /\ DOMAIN a = 1 .. Len(a) /\ DOMAIN b = 1 .. Len(b)
      /\ DOMAIN (a \o b) = 1 .. Len(a) + Len(b)
      /\ \A i \in 1 .. Len(a) + Len(b) :
            (a \o b)[i] = IF i <= Len(a) THEN a[i] ELSE b[i - Len(a)]
  OBVIOUS
<1>2. A \in SUBSET Nat /\ B \in SUBSET Nat /\ D \in SUBSET Nat
  BY <1>1
<1>3. C = A \cup D /\ A \cap D = {}
  BY <1>1
<1>4. (\A i \in B : i + Len(a) \in D) /\ (\A j \in D : j - Len(a) \in B)
  BY <1>1
<1>5. /\ IsFiniteSet(A) /\ IsFiniteSet(B)
      /\ BytesOf(k, a) = Cardinality(A) /\ BytesOf(k, b) = Cardinality(B)
      /\ BytesOf(k, a) \in Nat /\ BytesOf(k, b) \in Nat
  BY CountType DEF BytesOf
<1>6. BytesOf(k, a \o b) = Cardinality(C)
  BY DEF BytesOf
<1> HIDE DEF A, B, C, D
<1>7. IsFiniteSet(D) /\ Cardinality(D) = Cardinality(B)
  BY <1>1, <1>2, <1>4, <1>5, ShiftedSet
<1>8. Cardinality(A \cup D) = Cardinality(A) + Cardinality(D) - Cardinality(A \cap D)
  BY <1>5, <1>7, FS_Union
<1>9. Cardinality(A \cap D) = 0
  BY <1>3, FS_EmptySet
<1> QED BY <1>3, <1>5, <1>6, <1>7, <1>8, <1>9

\* Sorted sequences one behind the other.
LEMMA SortedConcat ==
  ASSUME NEW a \in Seq(Bytes), NEW b \in Seq(Bytes)
  PROVE  Sorted(a \o b) <=>
           Sorted(a) /\ Sorted(b) /\ \A c \in ToSet(a), d \in ToSet(b) : c <= d
<1>1. /\ Len(a) \in Nat /\ Len(b) \in Nat /\ DOMAIN a = 1 .. Len(a) /\ DOMAIN b = 1 .. Len(b)
      /\ DOMAIN (a \o b) = 1 .. Len(a) + Len(b)
      /\ \A i \in 1 .. Len(a) + Len(b) :
            (a \o b)[i] = IF i <= Len(a) THEN a[i] ELSE b[i - Len(a)]
  OBVIOUS
<1>2. \A i \in 1 .. Len(a) : i \in DOMAIN (a \o b) /\ (a \o b)[i] = a[i]
  BY <1>1
<1>3. \A i \in 1 .. Len(b) : i + Len(a) \in DOMAIN (a \o b) /\ (a \o b)[i + Len(a)] = b[i]
  BY <1>1
<1>4. ASSUME Sorted(a \o b)
      PROVE  Sorted(a) /\ Sorted(b) /\ \A c \in ToSet(a), d \in ToSet(b) : c <= d
  <2>1. Sorted(a)
    BY <1>1, <1>2, <1>4 DEF Sorted
  <2>2. Sorted(b)
    <3>1. ASSUME NEW i \in 1 .. Len(b), NEW j \in 1 .. Len(b), i < j PROVE b[i] <= b[j]
      <4>1. i + Len(a) < j + Len(a)
        BY <1>1, <3>1
      <4> QED BY <1>3, <1>4, <4>1 DEF Sorted
    <3> QED BY <1>1, <3>1 DEF Sorted
  <2>3. ASSUME NEW i \in 1 .. Len(a), NEW j \in 1 .. Len(b) PROVE a[i] <= b[j]
    <3>1. i < j + Len(a)
      BY <1>1
    <3> QED BY <1>2, <1>3, <1>4, <3>1 DEF Sorted
  <2> QED BY <1>1, <2>1, <2>2, <2>3 DEF ToSet
<1>5. ASSUME Sorted(a), Sorted(b), \A c \in ToSet(a), d \in ToSet(b) : c <= d
      PROVE  Sorted(a \o b)
  <2>1. \A i \in 1 .. Len(a), j \in 1 .. Len(b) : a[i] <= b[j]
    BY <1>1, <1>5 DEF ToSet
  <2>2. ASSUME NEW i \in DOMAIN (a \o b), NEW j \in DOMAIN (a \o b), i < j
        PROVE  (a \o b)[i] <= (a \o b)[j]
    <3>1. CASE j <= Len(a)
      <4>1. i \in DOMAIN a /\ j \in DOMAIN a /\ (a \o b)[i] = a[i] /\ (a \o b)[j] = a[j]
        BY <1>1, <2>2, <3>1
      <4> QED BY <1>5, <2>2, <4>1 DEF Sorted
    <3>2. CASE i <= Len(a) /\ ~(j <= Len(a))
      <4>1. i \in 1 .. Len(a) /\ j - Len(a) \in 1 .. Len(b)
            /\ (a \o b)[i] = a[i] /\ (a \o b)[j] = b[j - Len(a)]
        BY <1>1, <3>2
      <4> QED BY <2>1, <4>1
    <3>3. CASE ~(i <= Len(a))
      <4>1. /\ i - Len(a) \in DOMAIN b /\ j - Len(a) \in DOMAIN b /\ i - Len(a) < j - Len(a)
            /\ (a \o b)[i] = b[i - Len(a)] /\ (a \o b)[j] = b[j - Len(a)]
        BY <1>1, <2>2, <3>3
      <4> QED BY <1>5, <4>1 DEF Sorted
    <3> QED BY <3>1, <3>2, <3>3
  <2> QED BY <2>2 DEF Sorted
<1> QED BY <1>4, <1>5

\* Torn lines are finitely many, and one more than a set of them is counted as one.
LEMMA TornFinite ==
  ASSUME TypeOK
  PROVE  IsFiniteSet(Torn) /\ Cardinality(Torn) \in Nat
<1>1. lines \in Nat /\ Torn \in SUBSET (1 .. lines)
  BY ConstantsAssumption DEF TypeOK, Torn
<1>2. IsFiniteSet(1 .. lines)
  BY <1>1, FS_Interval
<1>3. IsFiniteSet(Torn)
  BY <1>1, <1>2, FS_Subset
<1> QED BY <1>3, FS_CardinalityType

\* A step that moves no byte and has no line in hand afterwards.
LEMMA StillTidy ==
  ASSUME Tidy, UNCHANGED <<file, accepted, lines, errors>>, Waiting' = Waiting, entry' = <<>>
  PROVE  Tidy'
<1>1. ToSet(entry') = {}
  BY DEF ToSet
<1>2. Torn' = Torn
  BY DEF Torn
<1> QED BY <1>1, <1>2 DEF Tidy

\* A fresh line is behind all others and tears none.
LEMMA WriteTidy ==
  ASSUME IInv, Tidy, NEW n \in Lengths, NEW c \in BOOLEAN, Write(n, c)
  PROVE  Tidy'
<1>1. /\ entry' \in Seq(Bytes) /\ entry' # <<>>
      /\ Waiting' = Waiting \o entry' /\ accepted' = accepted \o entry'
  BY WriteEffect
<1>2. /\ file \in Seq(Bytes) /\ accepted \in Seq(Bytes) /\ Waiting \in Seq(Bytes)
      /\ buf \in Seq(Bytes) /\ lines \in Nat
  BY Types, ConstantsAssumption DEF IInv, TypeOK
<1>3. /\ file' = file /\ lines' = lines + 1 /\ errors' = errors
      /\ entry' = [i \in 1 .. n |-> lines + 1]
  BY DEF Write
<1>4. Ahead' = Waiting
  <2>1. pc = "idle" /\ entry = <<>> /\ Ahead' = buf
    BY DEF Write, FlushLocked, Ahead, IInv, Shape
  <2>2. Waiting = buf
    BY <1>2, <2>1, ConcatEmptySeq DEF Waiting
  <2> QED BY <2>1, <2>2
<1>5. \A d \in ToSet(entry') : d = lines + 1
  BY <1>3 DEF ToSet
<1>6. /\ ToSet(Waiting') = ToSet(Waiting) \cup ToSet(entry')
      /\ ToSet(accepted') = ToSet(accepted) \cup ToSet(entry')
  BY <1>1, <1>2, ToSetConcat
<1>7. /\ ToSet(file) \subseteq Bytes /\ ToSet(Waiting) \subseteq Bytes
      /\ ToSet(accepted) \subseteq Bytes
  BY <1>2, ElementOfSeq DEF ToSet
<1>8. \A d \in ToSet(file) \cup ToSet(Waiting) \cup ToSet(accepted) : d \in Nat /\ d <= lines
  BY <1>7 DEF Tidy, Bytes
<1>9. \A d \in ToSet(file) \cup ToSet(Waiting) \cup ToSet(accepted) : d \notin ToSet(entry')
  BY <1>2, <1>5, <1>8
<1>10. \A d \in ToSet(file) \cup ToSet(Waiting) \cup ToSet(accepted),
          e \in ToSet(entry') : d <= e
  BY <1>2, <1>5, <1>8
<1>11. Sorted(Waiting')
  <2>1. Sorted(entry')
    BY <1>2, <1>3 DEF Sorted
  <2>2. Sorted(Waiting)
    BY DEF Tidy
  <2>3. \A d \in ToSet(Waiting), e \in ToSet(entry') : d <= e
    BY <1>10
  <2> QED BY <1>1, <1>2, <2>1, <2>2, <2>3, SortedConcat
<1>12. \A d \in ToSet(file'), e \in ToSet(Waiting') : d <= e
  BY <1>3, <1>6, <1>10 DEF Tidy
<1>13. \A d \in ToSet(accepted') : d <= lines'
  BY <1>2, <1>3, <1>5, <1>6, <1>8
<1>14. ToSet(file') \cup ToSet(Waiting') \subseteq ToSet(accepted')
  BY <1>3, <1>6 DEF Tidy
<1>15. ASSUME NEW k
       PROVE  /\ BytesOf(k, Waiting') = BytesOf(k, Waiting) + BytesOf(k, entry')
              /\ BytesOf(k, accepted') = BytesOf(k, accepted) + BytesOf(k, entry')
              /\ BytesOf(k, file) \in Nat /\ BytesOf(k, Waiting) \in Nat
              /\ BytesOf(k, accepted) \in Nat /\ BytesOf(k, entry') \in Nat
              /\ BytesOf(k, file) > 0 <=> k \in ToSet(file)
              /\ BytesOf(k, Waiting) > 0 <=> k \in ToSet(Waiting)
              /\ BytesOf(k, accepted) > 0 <=> k \in ToSet(accepted)
              /\ BytesOf(k, entry') > 0 <=> k \in ToSet(entry')
  BY <1>1, <1>2, CountConcat, CountType
<1>16. ASSUME NEW k \in ToSet(Waiting')
       PROVE  BytesOf(k, file') + BytesOf(k, Waiting') = BytesOf(k, accepted')
  <2>1. CASE k \in ToSet(Waiting)
    <3>1. BytesOf(k, file) + BytesOf(k, Waiting) = BytesOf(k, accepted)
      BY <2>1 DEF Tidy
    <3> QED BY <1>3, <1>15, <3>1
  <2>2. CASE k \notin ToSet(Waiting)
    <3>1. k \in ToSet(entry') /\ k \notin ToSet(file) /\ k \notin ToSet(accepted)
      BY <1>6, <1>9, <2>2
    <3>2. /\ BytesOf(k, file) = 0 /\ BytesOf(k, Waiting) = 0 /\ BytesOf(k, accepted) = 0
      BY <1>15, <2>2, <3>1
    <3> QED BY <1>3, <1>15, <3>2
  <2> QED BY <2>1, <2>2
<1>17. \A d \in ToSet(entry') : d \notin ToSet(file') /\ d \notin ToSet(Ahead')
  BY <1>3, <1>4, <1>9
<1>18. Torn' = Torn
  <2>1. ASSUME NEW k \in 1 .. lines + 1
        PROVE  k \in Torn' <=> k \in Torn
    <3>1. BytesOf(k, file) > 0 => k \in 1 .. lines
      BY <1>2, <1>8, <1>15, <2>1
    <3>2. BytesOf(k, file) + BytesOf(k, Waiting') < BytesOf(k, accepted')
            <=> BytesOf(k, file) + BytesOf(k, Waiting) < BytesOf(k, accepted)
      BY <1>15
    <3> QED BY <1>3, <3>1, <3>2 DEF Torn
  <2>2. Torn \subseteq 1 .. lines + 1 /\ Torn' \subseteq 1 .. lines + 1
    BY <1>2, <1>3 DEF Torn
  <2> QED BY <2>1, <2>2
<1>19. Cardinality(Torn') <= errors'
  BY <1>3, <1>18 DEF Tidy
<1> QED BY <1>11, <1>12, <1>13, <1>14, <1>16, <1>17, <1>19 DEF Tidy

\* What a writev takes is the oldest of what waits, and no line is torn by it.
LEMMA PersistTidy ==
  ASSUME IInv, Tidy, Writev, errors' = errors, NEW taken \in Seq(Bytes),
         file' = file \o taken, Waiting = taken \o Waiting'
  PROVE  Tidy'
<1>1. /\ file \in Seq(Bytes) /\ accepted \in Seq(Bytes) /\ Waiting \in Seq(Bytes)
      /\ Waiting' \in Seq(Bytes)
  BY Types, WritevEffect DEF IInv
<1>2. accepted' = accepted /\ lines' = lines /\ entry' = entry
  BY DEF Writev
<1>3. /\ ToSet(file') = ToSet(file) \cup ToSet(taken)
      /\ ToSet(Waiting) = ToSet(taken) \cup ToSet(Waiting')
  BY <1>1, ToSetConcat
<1>4. Sorted(Waiting') /\ \A d \in ToSet(taken), e \in ToSet(Waiting') : d <= e
  <2>1. Sorted(taken \o Waiting')
    BY DEF Tidy
  <2> QED BY <1>1, <2>1, SortedConcat
<1>5. \A d \in ToSet(file'), e \in ToSet(Waiting') : d <= e
  BY <1>3, <1>4 DEF Tidy
<1>6. /\ \A d \in ToSet(accepted') : d <= lines'
      /\ ToSet(file') \cup ToSet(Waiting') \subseteq ToSet(accepted')
  BY <1>2, <1>3 DEF Tidy
<1>7. ASSUME NEW k
      PROVE  /\ BytesOf(k, file') + BytesOf(k, Waiting') = BytesOf(k, file) + BytesOf(k, Waiting)
             /\ BytesOf(k, file) \in Nat
             /\ BytesOf(k, file) > 0 <=> k \in ToSet(file)
             /\ BytesOf(k, file') > 0 <=> k \in ToSet(file')
  <2>1. /\ BytesOf(k, file') = BytesOf(k, file) + BytesOf(k, taken)
        /\ BytesOf(k, Waiting) = BytesOf(k, taken) + BytesOf(k, Waiting')
    BY <1>1, CountConcat
  <2>2. /\ BytesOf(k, file) \in Nat /\ BytesOf(k, taken) \in Nat /\ BytesOf(k, Waiting') \in Nat
        /\ BytesOf(k, file) > 0 <=> k \in ToSet(file)
        /\ BytesOf(k, taken) > 0 <=> k \in ToSet(taken)
    BY <1>1, CountType
  <2>3. BytesOf(k, file') > 0 <=> k \in ToSet(file')
    BY <1>3, <2>1, <2>2
  <2> QED BY <2>1, <2>2, <2>3
<1>8. \A k \in ToSet(Waiting') : BytesOf(k, file') + BytesOf(k, Waiting') = BytesOf(k, accepted')
  BY <1>2, <1>3, <1>7 DEF Tidy
<1>9. \A d \in ToSet(entry') : d \notin ToSet(file') /\ d \notin ToSet(Ahead')
  <2>1. /\ pc = "drain" /\ Waiting = out \o entry /\ Ahead = out
    BY DEF Writev, Waiting, Ahead
  <2>2. PICK k \in 0 .. Len(out) :
          /\ file' = file \o SubSeq(out, 1, k)
          /\ \/ out' = Rest(k) /\ pc' = pc
             \/ buf' = <<>> /\ pc' = next
    BY DEF Writev
  <2>3. out \in Seq(Bytes) /\ next # "drain"
    BY Types DEF IInv, TypeOK
  <2>4. /\ SubSeq(out, 1, k) \in Seq(Bytes) /\ Rest(k) \in Seq(Bytes)
        /\ SubSeq(out, 1, k) \o Rest(k) = out
    BY <2>3, SplitAt DEF Rest
  <2>5. /\ ToSet(out) = ToSet(SubSeq(out, 1, k)) \cup ToSet(Rest(k))
        /\ ToSet(file') = ToSet(file) \cup ToSet(SubSeq(out, 1, k))
    BY <1>1, <2>2, <2>4, ToSetConcat
  <2>6. Ahead' = Rest(k) \/ Ahead' = <<>>
    BY <2>1, <2>2, <2>3 DEF Ahead
  <2>7. ToSet(Ahead') \subseteq ToSet(out)
    <3>1. ToSet(<<>>) = {}
      BY DEF ToSet
    <3>2. ToSet(Ahead') = ToSet(Rest(k)) \/ ToSet(Ahead') = {}
      BY <2>6, <3>1
    <3> QED BY <2>5, <3>2
  <2> QED BY <1>2, <2>1, <2>5, <2>7 DEF Tidy
<1>10. Torn' \subseteq Torn
  <2>1. ASSUME NEW k \in Torn' PROVE k \in Torn
    <3>1. /\ k \in 1 .. lines /\ BytesOf(k, file') > 0
          /\ BytesOf(k, file') + BytesOf(k, Waiting') < BytesOf(k, accepted)
      BY <1>2, <2>1 DEF Torn
    <3>2. BytesOf(k, file) + BytesOf(k, Waiting) < BytesOf(k, accepted)
      BY <1>7, <3>1
    <3>3. k \in ToSet(file') /\ k \notin ToSet(Waiting)
      <4>1. ASSUME k \in ToSet(Waiting) PROVE FALSE
        <5>1. BytesOf(k, file) + BytesOf(k, Waiting) = BytesOf(k, accepted)
          BY <4>1 DEF Tidy
        <5>2. BytesOf(k, accepted) \in Nat
          BY <1>1, CountType
        <5> QED BY <3>2, <5>1, <5>2
      <4> QED BY <1>7, <3>1, <4>1
    <3>4. BytesOf(k, file) > 0
      BY <1>3, <1>7, <3>3
    <3> QED BY <3>1, <3>2, <3>4 DEF Torn
  <2> QED BY <2>1
<1>11. Cardinality(Torn') <= errors'
  <2>1. /\ IsFiniteSet(Torn) /\ Cardinality(Torn) \in Nat
        /\ Cardinality(Torn) <= errors /\ errors \in Nat
    BY TornFinite, ConstantsAssumption DEF IInv, TypeOK, Tidy
  <2>2. Cardinality(Torn') <= Cardinality(Torn) /\ Cardinality(Torn') \in Nat
    BY <1>10, <2>1, FS_Subset, FS_CardinalityType
  <2> QED BY <2>1, <2>2
<1> QED BY <1>4, <1>5, <1>6, <1>8, <1>9, <1>11 DEF Tidy

\* A failing writev drops the front of what waits and tears at most its first line.
LEMMA GiveUpTidy ==
  ASSUME IInv, Tidy, Writev, errors' = errors + 1, file' = file, Waiting = out \o Waiting'
  PROVE  Tidy'
<1>1. /\ file \in Seq(Bytes) /\ accepted \in Seq(Bytes) /\ out \in Seq(Bytes)
      /\ entry \in Seq(Bytes) /\ Waiting' \in Seq(Bytes) /\ errors \in Nat
  BY Types, WritevEffect, ConstantsAssumption DEF IInv, TypeOK
<1>2. /\ pc = "drain" /\ out # <<>> /\ next # "drain" /\ entry' = entry
      /\ accepted' = accepted /\ lines' = lines
  BY DEF Writev, IInv, TypeOK, Shape
<1>3. Waiting = out \o entry /\ Ahead = out
  BY <1>2 DEF Waiting, Ahead
<1>4. buf' = <<>> /\ pc' = next
  BY <1>1 DEF Writev
<1>5. Ahead' = <<>> /\ Waiting' = entry
  <2>1. Ahead' = <<>> /\ Waiting' = <<>> \o entry
    BY <1>2, <1>4 DEF Waiting, Ahead
  <2> QED BY <1>1, <2>1, ConcatEmptySeq
<1>6. ToSet(Ahead') = {}
  BY <1>5 DEF ToSet
<1>7. ToSet(Waiting) = ToSet(out) \cup ToSet(entry)
  BY <1>1, <1>3, ToSetConcat
<1>8. Sorted(out) /\ Sorted(entry)
  <2>1. Sorted(out \o entry)
    BY <1>3 DEF Tidy
  <2> QED BY <1>1, <2>1, SortedConcat
<1>9. Sorted(Waiting') /\ \A d \in ToSet(file'), e \in ToSet(Waiting') : d <= e
  <2>1. Sorted(Waiting')
    BY <1>5, <1>8
  <2> QED BY <1>5, <1>7, <2>1 DEF Tidy
<1>10. /\ \A d \in ToSet(accepted') : d <= lines'
       /\ ToSet(file') \cup ToSet(Waiting') \subseteq ToSet(accepted')
  BY <1>2, <1>5, <1>7 DEF Tidy
<1>11. \A d \in ToSet(entry') : d \notin ToSet(file') /\ d \notin ToSet(Ahead')
  BY <1>2, <1>6 DEF Tidy
<1>12. ASSUME NEW k
       PROVE  /\ BytesOf(k, Waiting) = BytesOf(k, out) + BytesOf(k, entry)
              /\ BytesOf(k, file) \in Nat /\ BytesOf(k, out) \in Nat
              /\ BytesOf(k, entry) \in Nat /\ BytesOf(k, accepted) \in Nat
              /\ BytesOf(k, file) > 0 <=> k \in ToSet(file)
              /\ BytesOf(k, out) > 0 <=> k \in ToSet(out)
  <2>1. BytesOf(k, out \o entry) = BytesOf(k, out) + BytesOf(k, entry)
    BY <1>1, CountConcat
  <2> QED BY <1>1, <1>3, <2>1, CountType
<1>13. ASSUME NEW k \in ToSet(Waiting')
       PROVE  BytesOf(k, file') + BytesOf(k, Waiting') = BytesOf(k, accepted')
  <2>1. k \in ToSet(entry) /\ k \in ToSet(Waiting) /\ k \notin ToSet(out)
    BY <1>3, <1>5, <1>7, <1>13 DEF Tidy
  <2>2. BytesOf(k, file) + BytesOf(k, Waiting) = BytesOf(k, accepted)
    BY <2>1 DEF Tidy
  <2>3. BytesOf(k, out) = 0
    BY <1>12, <2>1
  <2> QED BY <1>2, <1>5, <1>12, <2>2, <2>3
<1>14. Torn' \subseteq Torn \cup {out[1]}
  <2>1. ASSUME NEW k \in Torn', k \notin Torn PROVE k = out[1]
    <3>1. /\ k \in 1 .. lines /\ BytesOf(k, file) > 0
          /\ BytesOf(k, file) + BytesOf(k, entry) < BytesOf(k, accepted)
      BY <1>2, <1>5, <2>1 DEF Torn
    <3>2. ~(BytesOf(k, file) + BytesOf(k, Waiting) < BytesOf(k, accepted))
      BY <2>1, <3>1 DEF Torn
    <3>3. k \in ToSet(file) /\ k \in ToSet(out)
      BY <1>12, <3>1, <3>2
    <3>4. /\ 1 \in DOMAIN out /\ out[1] \in ToSet(out) /\ out[1] \in Nat
      <4>1. Len(out) \in Nat \ {0} /\ DOMAIN out = 1 .. Len(out)
        BY <1>1, <1>2
      <4>2. 1 \in DOMAIN out /\ out[1] \in Bytes
        BY <1>1, <4>1, ElementOfSeq
      <4> QED BY <4>2 DEF ToSet, Bytes
    <3>5. k <= out[1]
      BY <1>7, <3>3, <3>4 DEF Tidy
    <3>6. PICK j \in DOMAIN out : out[j] = k
      BY <3>3 DEF ToSet
    <3>7. j = 1 \/ 1 < j
      BY <1>1, <3>6
    <3>8. out[1] <= k
      BY <1>8, <3>4, <3>6, <3>7 DEF Sorted
    <3> QED BY <3>1, <3>4, <3>5, <3>8
  <2> QED BY <2>1
<1>15. Cardinality(Torn') <= errors'
  <2>1. IsFiniteSet(Torn) /\ Cardinality(Torn) \in Nat /\ Cardinality(Torn) <= errors
    BY TornFinite DEF IInv, Tidy
  <2>2. /\ IsFiniteSet(Torn \cup {out[1]})
        /\ Cardinality(Torn \cup {out[1]}) \in Nat
        /\ Cardinality(Torn \cup {out[1]}) <= Cardinality(Torn) + 1
    <3>1. /\ IsFiniteSet(Torn \cup {out[1]})
          /\ Cardinality(Torn \cup {out[1]})
               = IF out[1] \in Torn THEN Cardinality(Torn) ELSE Cardinality(Torn) + 1
      BY <2>1, FS_AddElement
    <3> QED BY <2>1, <3>1
  <2>3. Cardinality(Torn') <= Cardinality(Torn \cup {out[1]}) /\ Cardinality(Torn') \in Nat
    BY <1>14, <2>2, FS_Subset, FS_CardinalityType
  <2> QED BY <1>1, <2>1, <2>2, <2>3
<1> QED BY <1>9, <1>10, <1>11, <1>13, <1>15 DEF Tidy

\* Nothing waits or is torn at the start, and every step keeps the invariant.
LEMMA TearInvariance == Spec => []TearInv
<1>1. Init => TearInv
  <2> SUFFICES ASSUME Init PROVE TearInv OBVIOUS
  <2>1. /\ file = <<>> /\ accepted = <<>> /\ entry = <<>> /\ Waiting = <<>>
        /\ lines = 0 /\ errors = 0
    BY DEF Init, Waiting
  <2>2. ToSet(<<>>) = {} /\ Sorted(<<>>)
    BY DEF ToSet, Sorted
  <2>3. Torn = {}
    BY <2>1 DEF Torn
  <2>4. Cardinality(Torn) <= errors
    BY <2>1, <2>3, FS_EmptySet
  <2>5. Tidy
    BY <2>1, <2>2, <2>4 DEF Tidy
  <2> QED BY <2>5, Initially DEF TearInv
<1>2. TearInv /\ [Next]_vars => TearInv'
  <2> SUFFICES ASSUME TearInv, [Next]_vars, pc' \notin Ended PROVE Tidy'
    BY Preservation DEF TearInv
  <2>1. IInv
    BY DEF TearInv
  <2>2. pc \notin Ended /\ Tidy
    <3>1. pc \notin Ended
      BY DEF Next, Step, Write, Stage, StartDirect, Writev, Settle, Flush, Exit, Close, Crash,
         Done, vars, Ended
    <3> QED BY <3>1 DEF TearInv
  <2>3. ASSUME NEW n \in Lengths, NEW c \in BOOLEAN, Write(n, c) PROVE Tidy'
    BY <2>1, <2>2, <2>3, WriteTidy
  <2>4. CASE Writev
    BY <2>1, <2>2, <2>4, WritevEffect, PersistTidy, GiveUpTidy
  <2>5. CASE Stage \/ StartDirect \/ Settle \/ Flush \/ Exit
    <3>1. Waiting' = Waiting
      <4>1. Settle => Waiting' = Waiting
        BY DEF Settle, Waiting
      <4> QED BY <2>1, <2>5, <4>1, StageEffect, StartDirectEffect, FlushEffect
    <3>2. entry' = <<>>
      BY <2>1, <2>5 DEF Stage, StartDirect, Settle, Flush, Exit, IInv, Shape
    <3>3. UNCHANGED <<file, accepted, lines, errors>>
      BY <2>5 DEF Stage, StartDirect, Settle, Flush, Exit, counts
    <3> QED BY <2>2, <3>1, <3>2, <3>3, StillTidy
  <2>6. CASE Close \/ Crash \/ Done
    BY <2>2, <2>6 DEF Close, Crash, Done, Ended
  <2>7. CASE UNCHANGED vars
    <3>1. Waiting' = Waiting /\ Ahead' = Ahead
      BY <2>7 DEF vars, Waiting, Ahead
    <3>2. UNCHANGED <<file, accepted, lines, errors, entry>>
      BY <2>7 DEF vars
    <3>3. Torn' = Torn
      BY <3>1, <3>2 DEF Torn
    <3> QED BY <2>2, <3>1, <3>2, <3>3 DEF Tidy
  <2> QED BY <2>3, <2>4, <2>5, <2>6, <2>7 DEF Next, Step
<1> QED BY <1>1, <1>2, PTL DEF Spec

\* However the writevs are split and whichever fail, a line that is partly in the
\* file and has lost bytes is counted by a failure of its own.
THEOREM TearsAreCounted == Spec => []TornLines
<1>1. TearInv => TornLines BY DEF TearInv, Tidy, TornLines
<1> QED BY <1>1, TearInvariance, PTL

=============================================================================
