-------------------------- MODULE RotatingSinkProofs --------------------------
(***************************************************************************)
(* Theorems about RotatingSink for any threshold, number of files, line    *)
(* lengths and number of calls and incidents.                              *)
(***************************************************************************)
EXTENDS RotatingSink, FiniteSetTheorems, SequenceLemmas

Files == Seq(Cells)
Longest == Max(Lengths)

\* The length of a file, or of none; that of the active file.
Sz(f) == Len(IF f = NONE THEN <<>> ELSE f)
Size == Sz(files[0])

\* Descriptor, counter and line, at every point of the code.
Shape ==
    /\ pc \in {"writev", "close"} => fd.open
    /\ fd.open => pc \in {"idle", "writev", "close"}
    /\ fd.open => files[0] # NONE
    /\ fd.open /\ ~fd.append => fd.off <= Size
    /\ pc # "writev" => pending = <<>>
    /\ pc \in {"eldest", "shift"} => maxFiles >= 2
    /\ pc = "unlink" => maxFiles = 1
    /\ pc = "shift" => shift < maxFiles

\* The size counter covers the active file and what is still to be written of
\* the current line.
CounterInv == fd.open => bytes + ext >= Size + Len(pending)

\* How far above the threshold the files may be at each point of the code.
Allowed == MaxBytes + Undone * Longest + ext
GrowthInv ==
    /\ \A i \in Names : Sz(files[i]) < Allowed + Longest
    /\ pc = "writev" => Size + Len(pending) < Allowed + Longest
    /\ pc = "down" \/ (pc = "idle" /\ (fd.open \/ cleared)) => Size < Allowed
    /\ pc = "reopen" /\ cleared => Size <= ext

\* Without crashes, failures and foreign bytes: the counter is exact, and the
\* rotated files are full from the newest to some eldest one, but for the gap
\* that travels down during a rotation; nothing is missing once bytes were evicted.
Undisturbed == faults + crashes + ext = 0
Full(i) == Sz(files[i]) >= MaxBytes
Gap == IF pc = "shift" THEN shift ELSE 0
Rotated == 1 .. maxFiles - 1
EvictionInv ==
    Undisturbed =>
      /\ fd.open => bytes = Size + Len(pending)
      /\ fd.open /\ ~fd.append => fd.off = Size
      /\ pc \in {"close", "eldest", "shift"} => Full(0)
      /\ \A i \in Rotated : files[i] # NONE => Full(i)
      /\ pc = "shift" => files[Gap] = NONE
      /\ \A i, j \in Rotated : i < j /\ i # Gap /\ files[j] # NONE => files[i] # NONE
      /\ evicted > 0 /\ maxFiles >= 2 => \A i \in Rotated : i # Gap => files[i] # NONE

IInv == TypeOK /\ Shape /\ CounterInv /\ GrowthInv /\ EvictionInv

\* The order of the sink's bytes: every file is in order, the eldest lines are
\* in the files of the highest index, the line that is being written is in the
\* active file only, and behind an offset of the descriptor's own there is
\* nothing but foreign bytes.
Of(f) == IF f = NONE THEN {} ELSE ToSet(f) \ {EXT}
Ordered(f) ==
    f # NONE => \A p, q \in 1 .. Len(f) :
                   p < q /\ f[p] # EXT /\ f[q] # EXT => f[p] <= f[q]
Before(f, g) == \A c \in Of(f), d \in Of(g) : c < d
OrderInv ==
    /\ \A i \in Names : Ordered(files[i]) /\ \A c \in Of(files[i]) : c <= lines
    /\ \A i, j \in Names : i > j => Before(files[i], files[j])
    /\ pc = "writev" =>
          /\ lines > 0 /\ \A p \in 1 .. Len(pending) : pending[p] = lines
          /\ \A i \in Names : i # 0 => \A c \in Of(files[i]) : c < lines
    /\ fd.open /\ ~fd.append => \A p \in fd.off + 1 .. Size : files[0][p] = EXT


-----------------------------------------------------------------------------
(* Numbers                                                                 *)

\* Max of a finite nonempty set of numbers is its greatest element.
LEMMA MaxOfFinite ==
  ASSUME NEW S \in SUBSET Nat, IsFiniteSet(S), S # {}
  PROVE  Max(S) \in S /\ \A y \in S : Max(S) >= y
BY GreatestOfFinite DEF Max

\* The greatest length and the indexes of the files.
LEMMA Greatest ==
  /\ Longest \in Nat \ {0} /\ \A n \in Lengths : n \in Nat \ {0} /\ n <= Longest
  /\ Max(FileCounts) \in Nat
  /\ \A m \in FileCounts : m \in Nat \ {0} /\ m - 1 \in Names
  /\ 0 \in Names /\ Names \subseteq Nat
<1>1. Longest \in Lengths /\ \A n \in Lengths : Longest >= n
  BY MaxOfFinite, ConstantsAssumption DEF Longest
<1>2. Max(FileCounts) \in FileCounts /\ \A m \in FileCounts : Max(FileCounts) >= m
  BY MaxOfFinite, ConstantsAssumption
<1>3. Longest \in Nat \ {0} /\ \A n \in Lengths : n \in Nat \ {0} /\ n <= Longest
  BY <1>1, ConstantsAssumption
<1>4. Max(FileCounts) \in Nat /\ \A m \in FileCounts : m \in Nat \ {0}
  BY <1>2, ConstantsAssumption
<1>5. \A m \in FileCounts : m - 1 \in 0 .. Max(FileCounts)
  BY <1>2, <1>4
<1> QED BY <1>3, <1>4, <1>5 DEF Names

\* Multiplication by the longest line.
LEMMA Times ==
  ASSUME NEW L \in Nat, NEW a \in Nat, NEW b \in Nat, a <= b
  PROVE  a * L \in Nat /\ a * L <= b * L /\ (1 + a) * L = a * L + L
OBVIOUS

-----------------------------------------------------------------------------
(* Files                                                                   *)

\* The length of a file.
LEMMA SzType ==
  ASSUME NEW f \in Files \cup {NONE}
  PROVE  /\ Sz(f) \in Nat
         /\ f = NONE => Sz(f) = 0
         /\ f # NONE => Sz(f) = Len(f)
         /\ (IF f = NONE THEN <<>> ELSE f) \in Files
<1>1. Len(<<>>) = 0 /\ <<>> \in Files
  BY DEF Files
<1>2. f # NONE => f \in Files /\ Len(f) \in Nat
  BY LenProperties DEF Files
<1> QED BY <1>1, <1>2 DEF Sz

\* A file, as opposed to none.
LEMMA SzFile ==
  ASSUME NEW f \in Files
  PROVE  f # NONE /\ Sz(f) = Len(f) /\ Sz(f) \in Nat
BY SzType, ConstantsAssumption DEF Files, Cells

\* A write within the file or at its end keeps what is before the offset, and
\* the file ends where the longer of the two ends.
LEMMA PutAtProperties ==
  ASSUME NEW f \in Files, NEW d \in Files, NEW off \in 0 .. Len(f)
  PROVE  /\ PutAt(f, off, d) \in Files
         /\ Len(PutAt(f, off, d)) = IF off + Len(d) > Len(f) THEN off + Len(d) ELSE Len(f)
         /\ \A p \in 1 .. Len(PutAt(f, off, d)) :
               PutAt(f, off, d)[p] = IF off < p /\ p <= off + Len(d) THEN d[p - off] ELSE f[p]
<1> DEFINE a == SubSeq(f, 1, off)
           b == SubSeq(f, off + Len(d) + 1, Len(f))
<1>1. Len(f) \in Nat /\ Len(d) \in Nat /\ off \in Nat /\ \A i \in 1 .. Len(f) : f[i] \in Cells
  BY LenProperties, ElementOfSeq DEF Files
<1>2. a \in Files /\ Len(a) = off /\ \A p \in 1 .. off : a[p] = f[p]
  <2>1. \A i \in 1 .. off : f[i] \in Cells
    BY <1>1
  <2> QED BY <1>1, <2>1, SubSeqProperties DEF Files
<1>3. /\ b \in Files
      /\ Len(b) = IF off + Len(d) > Len(f) THEN 0 ELSE Len(f) - (off + Len(d))
      /\ \A p \in 1 .. Len(b) : b[p] = f[off + Len(d) + p]
  <2>1. \A i \in off + Len(d) + 1 .. Len(f) : f[i] \in Cells
    BY <1>1
  <2> QED BY <1>1, <2>1, SubSeqProperties DEF Files
<1> HIDE DEF a, b
<1>4. /\ a \o d \in Files /\ Len(a \o d) = off + Len(d)
      /\ \A p \in 1 .. off + Len(d) : (a \o d)[p] = IF p <= off THEN a[p] ELSE d[p - off]
  BY <1>1, <1>2, ConcatProperties DEF Files
<1>5. /\ a \o d \o b \in Files /\ Len(a \o d \o b) = off + Len(d) + Len(b)
      /\ \A p \in 1 .. off + Len(d) + Len(b) :
           (a \o d \o b)[p] = IF p <= off + Len(d) THEN (a \o d)[p] ELSE b[p - (off + Len(d))]
  <2> DEFINE c == a \o d
             n == off + Len(d)
  <2>1. c \in Seq(Cells) /\ b \in Seq(Cells) /\ Len(c) = n
    BY <1>3, <1>4 DEF Files
  <2> HIDE DEF c, n
  <2>2. /\ c \o b \in Seq(Cells) /\ Len(c \o b) = Len(c) + Len(b)
        /\ \A p \in 1 .. Len(c) + Len(b) :
             (c \o b)[p] = IF p <= Len(c) THEN c[p] ELSE b[p - Len(c)]
    BY <2>1, ConcatProperties
  <2>3. /\ c \o b \in Seq(Cells) /\ Len(c \o b) = n + Len(b)
        /\ \A p \in 1 .. n + Len(b) :
             (c \o b)[p] = IF p <= n THEN c[p] ELSE b[p - n]
    BY <2>1, <2>2
  <2> QED BY <2>3 DEF c, n, Files
<1>6. off + Len(d) + Len(b) = IF off + Len(d) > Len(f) THEN off + Len(d) ELSE Len(f)
  <2>1. CASE off + Len(d) > Len(f)
    BY <1>1, <1>3, <2>1
  <2>2. CASE ~(off + Len(d) > Len(f))
    <3>1. Len(b) = Len(f) - (off + Len(d))
      BY <1>3, <2>2
    <3> QED BY <1>1, <2>2, <3>1
  <2> QED BY <2>1, <2>2
<1>7. PutAt(f, off, d) = a \o d \o b
  BY DEF PutAt, a, b
<1>8. ASSUME NEW p \in 1 .. off + Len(d) + Len(b)
      PROVE  (a \o d \o b)[p] = IF off < p /\ p <= off + Len(d) THEN d[p - off] ELSE f[p]
  <2>1. CASE p <= off
    <3>1. p \in 1 .. off /\ p \in 1 .. off + Len(d) /\ p <= off + Len(d) /\ ~(off < p)
      BY <1>1, <2>1
    <3> QED BY <1>2, <1>4, <1>5, <2>1, <3>1
  <2>2. CASE ~(p <= off) /\ p <= off + Len(d)
    <3>1. p \in 1 .. off + Len(d) /\ off < p
      BY <1>1, <2>2
    <3> QED BY <1>4, <1>5, <2>2, <3>1
  <2>3. CASE ~(p <= off + Len(d))
    <3> DEFINE k == p - (off + Len(d))
    <3>1. Len(b) \in Nat
      BY <1>3, LenProperties DEF Files
    <3>2. k \in 1 .. Len(b) /\ off + Len(d) + k = p
      BY <1>1, <2>3, <3>1
    <3>3. (a \o d \o b)[p] = b[k]
      BY <1>5, <2>3
    <3>4. b[k] = f[off + Len(d) + k]
      BY <1>3, <3>2
    <3> QED BY <2>3, <3>2, <3>3, <3>4
  <2> QED BY <2>1, <2>2, <2>3
<1> QED BY <1>5, <1>6, <1>7, <1>8

-----------------------------------------------------------------------------
(* States                                                                  *)

\* The types of a state, as the proofs use them.
LEMMA StateTypes ==
  ASSUME TypeOK
  PROVE  /\ \A i \in Names : /\ files[i] \in Files \cup {NONE} /\ Sz(files[i]) \in Nat
                             /\ Content(i) \in Files /\ Len(Content(i)) = Sz(files[i])
         /\ maxFiles \in Nat \ {0} /\ maxFiles - 1 \in Names /\ Size \in Nat
         /\ pending \in Files /\ Len(pending) \in Nat
         /\ faults \in Nat /\ crashes \in Nat /\ restarts \in Nat /\ ext \in Nat
         /\ shift \in Nat /\ MaxBytes \in Nat \ {0}
         /\ Undone \in Nat /\ Allowed \in Nat /\ Allowed >= MaxBytes + ext
<1>1. ASSUME NEW i \in Names
      PROVE  /\ files[i] \in Files \cup {NONE} /\ Sz(files[i]) \in Nat
             /\ Content(i) \in Files /\ Len(Content(i)) = Sz(files[i])
  <2>1. files[i] \in Files \cup {NONE}
    BY DEF TypeOK, Files
  <2> QED BY <2>1, SzType DEF Content, Sz
<1>2. maxFiles \in Nat \ {0} /\ maxFiles - 1 \in Names /\ Size \in Nat
  BY <1>1, Greatest DEF TypeOK, Size
<1>3. pending \in Files /\ Len(pending) \in Nat
  BY LenProperties DEF TypeOK, Files
<1>4. /\ faults \in Nat /\ crashes \in Nat /\ restarts \in Nat /\ ext \in Nat
      /\ shift \in Nat /\ MaxBytes \in Nat \ {0}
  BY Greatest, ConstantsAssumption DEF TypeOK
<1>5. Undone \in Nat
  BY <1>4 DEF Undone
<1>6. Undone * Longest \in Nat
  BY <1>5, Greatest, Times
<1>7. Allowed \in Nat /\ Allowed >= MaxBytes + ext
  BY <1>4, <1>6 DEF Allowed
<1> QED BY <1>1, <1>2, <1>3, <1>4, <1>5, <1>7

\* The indexes of the rotated files.
LEMMA RotatedNames ==
  ASSUME TypeOK
  PROVE  Rotated \subseteq Names /\ \A i \in Rotated : i \in Nat /\ 1 <= i /\ i < maxFiles
<1>1. /\ maxFiles \in Nat \ {0} /\ maxFiles - 1 <= Max(FileCounts)
      /\ Max(FileCounts) \in Nat
  BY StateTypes, Greatest DEF Names
<1> QED BY <1>1 DEF Rotated, Names

\* The bound on the incidents leaves room for one more.
LEMMA Room ==
  ASSUME TypeOK, NEW k, MayHappen(k)
  PROVE  \A n \in {faults, crashes, restarts, ext} : n + 1 \in 0 .. MaxIncidents
<1>1. /\ faults \in Nat /\ crashes \in Nat /\ restarts \in Nat /\ ext \in Nat
      /\ MaxIncidents \in Nat /\ faults + crashes + restarts + ext < MaxIncidents
  BY StateTypes, ConstantsAssumption DEF MayHappen
<1> QED BY <1>1

\* How the bound moves.
LEMMA AllowedGrows ==
  ASSUME TypeOK, crashes' \in Nat, restarts' \in Nat, ext' \in Nat
  PROVE  /\ /\ UNCHANGED <<crashes, restarts, ext>> /\ (cleared' => cleared)
            => Allowed' \in Nat /\ Allowed' >= Allowed
         /\ /\ UNCHANGED <<crashes, restarts, cleared>> /\ ext' = ext + 1
            => Allowed' = Allowed + 1
         /\ /\ UNCHANGED <<restarts, ext, cleared>> /\ crashes' = crashes + 1
            => Allowed' = Allowed + Longest
         /\ /\ UNCHANGED <<crashes, ext, cleared>> /\ restarts' = restarts + 1
            => Allowed' = IF cleared THEN Allowed ELSE Allowed + Longest
<1>1. /\ Longest \in Nat /\ Undone \in Nat /\ MaxBytes \in Nat /\ ext \in Nat
      /\ crashes \in Nat /\ restarts \in Nat /\ Undone * Longest \in Nat
  <2>1. /\ Longest \in Nat /\ Undone \in Nat /\ MaxBytes \in Nat /\ ext \in Nat
        /\ crashes \in Nat /\ restarts \in Nat
    BY StateTypes, Greatest
  <2> QED BY <2>1, Times
<1>2. /\ Undone = crashes + (IF cleared THEN 0 ELSE restarts)
      /\ Undone' = crashes' + (IF cleared' THEN 0 ELSE restarts')
      /\ Allowed = MaxBytes + Undone * Longest + ext
      /\ Allowed' = MaxBytes + Undone' * Longest + ext'
  BY DEF Undone, Allowed
<1>3. cleared \in BOOLEAN
  BY DEF TypeOK
<1>4. ASSUME UNCHANGED <<crashes, restarts, ext>>, (cleared' => cleared)
      PROVE  Allowed' \in Nat /\ Allowed' >= Allowed
  <2>1. Undone' \in Nat /\ Undone <= Undone'
    <3>1. CASE cleared' <=> cleared
      BY <1>1, <1>2, <1>4, <3>1
    <3>2. CASE cleared /\ ~cleared'
      BY <1>1, <1>2, <1>4, <3>2
    <3>3. (cleared' <=> cleared) \/ (cleared /\ ~cleared')
      BY <1>4
    <3> QED BY <3>1, <3>2, <3>3
  <2>2. Undone' * Longest \in Nat
    <3>1. Undone' <= Undone'
      BY <2>1
    <3> QED BY <1>1, <2>1, <3>1, Times
  <2>3. Undone * Longest <= Undone' * Longest
    BY <1>1, <2>1, Times
  <2> QED BY <1>1, <1>2, <1>4, <2>2, <2>3
<1>5. ASSUME UNCHANGED <<crashes, restarts, cleared>>, ext' = ext + 1
      PROVE  Allowed' = Allowed + 1
  <2>1. Undone' = Undone
    BY <1>2, <1>5
  <2> QED BY <1>1, <1>2, <1>5, <2>1
<1>6. (1 + Undone) * Longest = Undone * Longest + Longest
  BY <1>1, Times
<1>7. ASSUME UNCHANGED <<restarts, ext, cleared>>, crashes' = crashes + 1
      PROVE  Allowed' = Allowed + Longest
  <2>1. Undone' = 1 + Undone
    BY <1>1, <1>2, <1>7
  <2> QED BY <1>1, <1>2, <1>6, <1>7, <2>1
<1>8. ASSUME UNCHANGED <<crashes, ext, cleared>>, restarts' = restarts + 1
      PROVE  Allowed' = IF cleared THEN Allowed ELSE Allowed + Longest
  <2>1. Undone' = IF cleared THEN Undone ELSE 1 + Undone
    BY <1>1, <1>2, <1>8
  <2> QED BY <1>1, <1>2, <1>6, <1>8, <2>1
<1> QED BY <1>4, <1>5, <1>7, <1>8

\* The initial state satisfies the invariant.
LEMMA Initially == Init => IInv
<1> SUFFICES ASSUME Init PROVE IInv OBVIOUS
<1>1. /\ \A m \in FileCounts : m \in Nat \ {0}
      /\ 0 \in Names /\ Names \subseteq Nat /\ 0 \in 0 .. MaxLines /\ 0 \in 0 .. MaxIncidents
  BY Greatest, ConstantsAssumption
<1>2. TypeOK
  <2>1. pending \in Seq(Cells) /\ fd \in [open : BOOLEAN, append : BOOLEAN, off : Nat]
    BY DEF Init, Closed
  <2>2. {faults, crashes, restarts, ext} \subseteq 0 .. MaxIncidents
    BY <1>1 DEF Init
  <2> QED BY <1>1, <2>1, <2>2 DEF Init, TypeOK
<1>3. ~fd.open /\ pc = "down" /\ pending = <<>> /\ ext = 0 /\ evicted = 0
      /\ \A i \in Names : files[i] = NONE /\ Sz(files[i]) = 0
  BY SzType DEF Init, Closed
<1>4. Shape /\ CounterInv
  BY <1>3 DEF Shape, CounterInv
<1>5. GrowthInv
  <2>1. Allowed \in Nat /\ Allowed > 0 /\ Longest \in Nat /\ Size = 0
    BY <1>1, <1>2, <1>3, StateTypes, Greatest DEF Size
  <2> QED BY <1>3, <2>1 DEF GrowthInv
<1>6. EvictionInv
  BY <1>2, <1>3, RotatedNames DEF EvictionInv
<1> QED BY <1>2, <1>4, <1>5, <1>6 DEF IInv

-----------------------------------------------------------------------------
(* The actions that leave the files alone                                  *)

\* write() counts its line before the first writev.
LEMMA WriteStep ==
  ASSUME IInv, Write
  PROVE  IInv'
<1>1. TypeOK /\ Shape /\ CounterInv /\ GrowthInv /\ EvictionInv
  BY DEF IInv
<1>2. /\ pc = "idle" /\ lines' = lines + 1 /\ lines' \in 0 .. MaxLines /\ pending = <<>>
      /\ UNCHANGED <<maxFiles, intact, cleared, files, fd, shift, faults, crashes, restarts, ext,
                     evicted>>
  BY <1>1, ConstantsAssumption DEF Write, fixed, TypeOK, Shape
<1>3. CASE ~fd.open /\ UNCHANGED <<bytes, pending, pc>>
  BY <1>1, <1>2, <1>3 DEF IInv, TypeOK, Shape, CounterInv, GrowthInv, EvictionInv, Content,
     Size, Allowed, Undone, Undisturbed, Full, Gap, Rotated
<1>4. ASSUME NEW n \in Lengths, fd.open, bytes' = bytes + n, pc' = "writev",
             pending' = [i \in 1 .. n |-> lines + 1]
      PROVE  IInv'
  <2>1. n \in Nat \ {0} /\ n <= Longest /\ Longest \in Nat /\ bytes \in Nat
    BY <1>1, Greatest DEF TypeOK
  <2>2. pending' \in Files /\ Len(pending') = n
    <3>1. lines + 1 \in Cells
      BY <1>1, <1>2 DEF TypeOK, Cells
    <3> QED BY <1>4, <2>1, <3>1 DEF Files
  <2>3. Size' = Size /\ Allowed' = Allowed /\ Size \in Nat /\ ext \in Nat /\ Allowed \in Nat
        /\ Len(pending) = 0
    BY <1>1, <1>2, StateTypes DEF Size, Allowed, Undone
  <2>4. TypeOK'
    BY <1>1, <1>2, <1>4, <2>1, <2>2 DEF TypeOK, Files
  <2>5. Shape'
    BY <1>1, <1>2, <1>4, <2>3 DEF Shape
  <2>6. CounterInv'
    BY <1>1, <1>2, <1>4, <2>1, <2>2, <2>3 DEF CounterInv
  <2>7. GrowthInv'
    <3>1. Size < Allowed
      BY <1>1, <1>2, <1>4 DEF GrowthInv
    <3>2. Size' + Len(pending') < Allowed' + Longest
      BY <2>1, <2>2, <2>3, <3>1
    <3> QED BY <1>1, <1>2, <1>4, <2>3, <3>2 DEF GrowthInv
  <2>8. EvictionInv'
    <3>1. Undisturbed' = Undisturbed /\ Gap = 0 /\ Gap' = 0 /\ Rotated' = Rotated
      BY <1>2, <1>4 DEF Undisturbed, Gap, Rotated
    <3>2. Undisturbed => bytes' = Size' + Len(pending')
      BY <1>1, <1>2, <1>4, <2>1, <2>2, <2>3 DEF EvictionInv
    <3>3. Undisturbed /\ ~fd.append => fd'.off = Size'
      BY <1>1, <1>2, <1>4, <2>3 DEF EvictionInv
    <3> QED BY <1>1, <1>2, <1>4, <3>1, <3>2, <3>3 DEF EvictionInv, Full
  <2> QED BY <2>4, <2>5, <2>6, <2>7, <2>8 DEF IInv
<1> QED BY <1>3, <1>4 DEF Write

\* rotate_locked() closes the file.
LEMMA CloseStep ==
  ASSUME IInv, Close
  PROVE  IInv'
<1>1. TypeOK /\ Shape /\ CounterInv /\ GrowthInv /\ EvictionInv
  BY DEF IInv
<1>2. /\ pc = "close" /\ pc' = (IF maxFiles >= 2 THEN "eldest" ELSE "unlink")
      /\ fd' = Closed /\ ~fd'.open /\ pending = <<>>
      /\ UNCHANGED <<maxFiles, intact, cleared, files, bytes, pending, shift, lines, faults,
                     crashes, restarts, ext, evicted>>
  BY <1>1 DEF Close, fixed, bounds, Shape, Closed
<1>3. TypeOK'
  BY <1>1, <1>2 DEF TypeOK, Closed
<1>4. Shape' /\ CounterInv'
  <2>1. maxFiles \in Nat \ {0}
    BY <1>1, StateTypes
  <2>2. ~(maxFiles >= 2) => maxFiles = 1
    BY <2>1
  <2> QED BY <1>1, <1>2, <2>2 DEF Shape, CounterInv
<1>5. GrowthInv'
  BY <1>1, <1>2 DEF GrowthInv, Allowed, Undone
<1>6. EvictionInv'
  BY <1>1, <1>2 DEF EvictionInv, Undisturbed, Gap, Rotated, Full
<1> QED BY <1>3, <1>4, <1>5, <1>6 DEF IInv

\* writev fails, and the rest of the line is given up.
LEMMA WritevFailsStep ==
  ASSUME IInv, WritevFails
  PROVE  IInv'
<1>1. TypeOK /\ Shape /\ CounterInv /\ GrowthInv /\ EvictionInv
  BY DEF IInv
<1>2. /\ pc = "writev" /\ pc' = AfterWritev /\ faults' = faults + 1 /\ pending' = <<>>
      /\ faults' \in 0 .. MaxIncidents
      /\ UNCHANGED <<maxFiles, intact, cleared, files, fd, bytes, shift, lines, crashes, restarts,
                     ext, evicted>>
  BY <1>1, Room DEF WritevFails, fixed
<1>3. /\ Size' = Size /\ Allowed' = Allowed /\ Size \in Nat /\ ext \in Nat /\ Allowed \in Nat
      /\ Len(pending) \in Nat /\ Len(pending') = 0 /\ faults \in Nat /\ crashes \in Nat
      /\ Allowed >= MaxBytes + ext /\ MaxBytes \in Nat /\ bytes \in Nat
  BY <1>1, <1>2, StateTypes DEF Size, Allowed, Undone, TypeOK
<1>4. pc' = (IF bytes >= MaxBytes THEN "close" ELSE "idle") /\ fd.open
  BY <1>1, <1>2 DEF AfterWritev, Shape
<1>5. TypeOK'
  <2>1. pending' \in Seq(Cells)
    BY <1>2
  <2> QED BY <1>1, <1>2, <1>4, <2>1 DEF TypeOK
<1>6. Shape'
  BY <1>1, <1>2, <1>3, <1>4 DEF Shape
<1>7. CounterInv'
  BY <1>1, <1>2, <1>3, <1>4 DEF CounterInv
<1>8. GrowthInv'
  <2>1. pc' = "idle" => Size' < Allowed'
    BY <1>1, <1>2, <1>3, <1>4 DEF CounterInv
  <2> QED BY <1>1, <1>2, <1>3, <1>4, <2>1 DEF GrowthInv
<1>9. EvictionInv'
  BY <1>2, <1>3 DEF EvictionInv, Undisturbed
<1> QED BY <1>5, <1>6, <1>7, <1>8, <1>9 DEF IInv

\* The process dies, or the sink is destroyed between two calls: what was over the
\* threshold by a line may grow by another one in the next process.
LEMMA EndStep ==
  ASSUME IInv, Crash \/ Destroy
  PROVE  IInv'
<1>1. TypeOK /\ Shape /\ CounterInv /\ GrowthInv /\ EvictionInv
  BY DEF IInv
<1>2. /\ pc' = "down" /\ fd' = Closed /\ ~fd'.open /\ bytes' = 0 /\ pending' = <<>>
      /\ UNCHANGED <<maxFiles, intact, cleared, files, lines, faults, ext, evicted>>
      /\ shift' \in {0, shift}
  BY <1>1 DEF Crash, Destroy, fixed, Closed, Shape
<1>3. crashes' \in 0 .. MaxIncidents /\ restarts' \in 0 .. MaxIncidents
  BY <1>1, Room DEF Crash, Destroy, TypeOK
<1>4. TypeOK'
  BY <1>1, <1>2, <1>3, Greatest DEF TypeOK, Closed
<1>5. Shape' /\ CounterInv'
  BY <1>1, <1>2 DEF Shape, CounterInv
<1>6. GrowthInv'
  <2>1. /\ Longest \in Nat /\ Allowed \in Nat /\ Size' = Size /\ Size \in Nat
        /\ \A i \in Names : Sz(files[i]) \in Nat
    BY <1>1, <1>2, StateTypes, Greatest DEF Size
  <2>2. 0 \in Names /\ crashes' \in Nat /\ restarts' \in Nat /\ ext' \in Nat
    BY <1>1, <1>2, <1>3, Greatest, StateTypes, ConstantsAssumption
  <2>3. CASE Crash
    <3>1. Allowed' = Allowed + Longest
      BY <1>1, <1>2, <2>2, <2>3, AllowedGrows DEF Crash
    <3>2. Size < Allowed + Longest
      BY <1>1, <2>2 DEF GrowthInv, Size
    <3> QED BY <1>1, <1>2, <2>1, <3>1, <3>2 DEF GrowthInv
  <2>4. CASE Destroy
    <3>1. Allowed' = IF cleared THEN Allowed ELSE Allowed + Longest
      BY <1>1, <1>2, <2>2, <2>4, AllowedGrows DEF Destroy
    <3>2. CASE cleared
      <4>1. Size < Allowed
        BY <1>1, <2>4, <3>2 DEF GrowthInv, Destroy
      <4> QED BY <1>1, <1>2, <2>1, <3>1, <3>2, <4>1 DEF GrowthInv
    <3>3. CASE ~cleared
      <4>1. Size < Allowed + Longest
        BY <1>1, <2>2 DEF GrowthInv, Size
      <4> QED BY <1>1, <1>2, <2>1, <3>1, <3>3, <4>1 DEF GrowthInv
    <3> QED BY <3>2, <3>3
  <2> QED BY <2>3, <2>4
<1>7. EvictionInv'
  <2>1. CASE Crash
    <3>1. crashes' = crashes + 1 /\ faults' = faults /\ ext' = ext
      BY <1>2, <2>1 DEF Crash
    <3>2. crashes \in Nat /\ faults \in Nat /\ ext \in Nat
      BY <1>1, StateTypes
    <3>3. ~Undisturbed'
      BY <3>1, <3>2 DEF Undisturbed
    <3> QED BY <3>3 DEF EvictionInv
  <2>2. CASE Destroy
    BY <1>1, <1>2, <2>2 DEF Destroy, EvictionInv, Undisturbed, Gap, Rotated, Full
  <2> QED BY <2>1, <2>2
<1> QED BY <1>4, <1>5, <1>6, <1>7 DEF IInv

-----------------------------------------------------------------------------
(* The actions on the active file                                          *)

\* A change of the active file only.
LEMMA ActiveOnly ==
  ASSUME TypeOK, NEW f \in Files \cup {NONE}, files' = [files EXCEPT ![0] = f]
  PROVE  /\ files' \in [Names -> Files \cup {NONE}] /\ files'[0] = f /\ Size' = Sz(f)
         /\ \A i \in Names : i # 0 => files'[i] = files[i]
         /\ \A i \in Rotated : i # 0 /\ files'[i] = files[i]
         /\ (\A i \in Names : i >= maxFiles => files[i] = NONE)
              => \A i \in Names : i >= maxFiles => files'[i] = NONE
<1>1. 0 \in Names /\ files \in [Names -> Files \cup {NONE}] /\ maxFiles \in Nat \ {0}
  BY Greatest, StateTypes DEF TypeOK, Files
<1>2. files' \in [Names -> Files \cup {NONE}] /\ files'[0] = f
      /\ \A i \in Names : i # 0 => files'[i] = files[i]
  BY <1>1
<1>3. \A i \in Rotated : i # 0 /\ files'[i] = files[i]
  BY <1>2, RotatedNames
<1> QED BY <1>1, <1>2, <1>3 DEF Size

\* The constructor finds the active file as the last process left it.
LEMMA ConstructStep ==
  ASSUME IInv, Construct
  PROVE  IInv'
<1>1. TypeOK /\ Shape /\ CounterInv /\ GrowthInv /\ EvictionInv
  BY DEF IInv
<1>2. /\ pc = "down" /\ pc' = "idle" /\ pending = <<>> /\ pending' = <<>>
      /\ UNCHANGED <<maxFiles, intact, cleared, pending, shift, lines, crashes, restarts, ext,
                     evicted>>
  BY <1>1 DEF Construct, fixed, Shape
<1>3. /\ 0 \in Names /\ Content(0) \in Files /\ Len(Content(0)) = Size /\ Size \in Nat
      /\ ext \in Nat /\ Allowed' = Allowed /\ Len(pending') = 0 /\ Size < Allowed
      /\ Allowed \in Nat /\ Longest \in Nat /\ faults \in Nat /\ crashes \in Nat
  BY <1>1, <1>2, StateTypes, Greatest DEF Size, Allowed, Undone, GrowthInv
<1>4. CASE /\ files' = [files EXCEPT ![0] = Content(0)]
           /\ fd' = [open |-> TRUE, append |-> TRUE, off |-> 0]
           /\ bytes' = SizeAtOpen /\ UNCHANGED faults
  <2>1. /\ files' \in [Names -> Files \cup {NONE}] /\ files'[0] = Content(0)
        /\ Size' = Sz(Content(0)) /\ \A i \in Names : i # 0 => files'[i] = files[i]
        /\ \A i \in Rotated : i # 0 /\ files'[i] = files[i]
        /\ \A i \in Names : i >= maxFiles => files'[i] = NONE
    BY <1>1, <1>3, <1>4, ActiveOnly DEF TypeOK
  <2>2. Content(0) # NONE /\ Sz(Content(0)) = Size /\ bytes' = Size
    BY <1>3, <1>4, SzFile DEF SizeAtOpen
  <2>3. TypeOK'
    BY <1>1, <1>2, <1>3, <1>4, <2>1, <2>2 DEF TypeOK, Files
  <2>4. Shape' /\ CounterInv'
    BY <1>1, <1>2, <1>3, <1>4, <2>1, <2>2 DEF Shape, CounterInv
  <2>5. GrowthInv'
    BY <1>1, <1>2, <1>3, <1>4, <2>1, <2>2 DEF GrowthInv, Size
  <2>6. EvictionInv'
    BY <1>1, <1>2, <1>3, <1>4, <2>1, <2>2 DEF EvictionInv, Undisturbed, Gap, Rotated, Full
  <2> QED BY <2>3, <2>4, <2>5, <2>6 DEF IInv
<1>5. CASE /\ MayHappen("open") /\ faults' = faults + 1 /\ fd' = Closed /\ bytes' = 0
           /\ UNCHANGED files
  <2>1. faults' \in 0 .. MaxIncidents
    BY <1>1, <1>5, Room
  <2>2. TypeOK'
    BY <1>1, <1>2, <1>5, <2>1 DEF TypeOK, Closed
  <2>3. Shape' /\ CounterInv' /\ GrowthInv'
    BY <1>1, <1>2, <1>3, <1>5 DEF Shape, CounterInv, GrowthInv, Size, Closed
  <2>4. EvictionInv'
    BY <1>2, <1>3, <1>5 DEF EvictionInv, Undisturbed
  <2> QED BY <2>2, <2>3, <2>4 DEF IInv
<1> QED BY <1>4, <1>5 DEF Construct

\* A writev of k bytes makes the file at most k bytes longer.
LEMMA WritevStep ==
  ASSUME IInv, Writev
  PROVE  IInv'
<1>1. TypeOK /\ Shape /\ CounterInv /\ GrowthInv /\ EvictionInv
  BY DEF IInv
<1>2. PICK k \in 1 .. Len(pending) :
         /\ k < Len(pending) => MayHappen("short")
         /\ faults' = IF k < Len(pending) THEN faults + 1 ELSE faults
         /\ files' = [files EXCEPT ![0] = PutAt(files[0], Offset, SubSeq(pending, 1, k))]
         /\ fd' = [fd EXCEPT !.off = Offset + k]
         /\ pending' = SubSeq(pending, k + 1, Len(pending))
         /\ pc' = IF k < Len(pending) THEN "writev" ELSE AfterWritev
  BY DEF Writev
<1>3. /\ pc = "writev" /\ fd.open /\ files[0] \in Files /\ files[0] # NONE
      /\ UNCHANGED <<maxFiles, intact, cleared, bytes, shift, lines, crashes, restarts, ext,
                     evicted>>
  BY <1>1, Greatest DEF Writev, fixed, Shape, TypeOK, Files
<1>4. /\ Size = Len(files[0]) /\ Size \in Nat /\ Content(0) = files[0] /\ Allowed' = Allowed
      /\ Allowed \in Nat /\ Longest \in Nat /\ ext \in Nat /\ bytes \in Nat
      /\ MaxBytes \in Nat /\ Allowed >= MaxBytes + ext
      /\ faults \in Nat /\ crashes \in Nat /\ k \in Nat \ {0} /\ pending \in Files
      /\ Len(pending) \in Nat
  <2>1. pending \in Files /\ Len(pending) \in Nat /\ k \in Nat \ {0}
    BY <1>1, StateTypes
  <2> QED BY <1>1, <1>3, <2>1, StateTypes, Greatest, SzFile
             DEF Size, Content, Allowed, Undone, TypeOK
<1>5. Offset \in 0 .. Len(files[0])
  BY <1>1, <1>3, <1>4 DEF Offset, Shape, TypeOK
<1>6. /\ SubSeq(pending, 1, k) \in Files /\ Len(SubSeq(pending, 1, k)) = k
      /\ pending' \in Files /\ Len(pending') = Len(pending) - k
  <2>1. k \in 0 .. Len(pending) /\ pending \in Seq(Cells)
    BY <1>2, <1>4 DEF Files
  <2>2. /\ SubSeq(pending, 1, k) \in Seq(Cells) /\ Len(SubSeq(pending, 1, k)) = k
        /\ SubSeq(pending, k + 1, Len(pending)) \in Seq(Cells)
        /\ Len(SubSeq(pending, k + 1, Len(pending))) = Len(pending) - k
    BY <2>1, SplitAt
  <2> QED BY <1>2, <2>2 DEF Files
<1> DEFINE f == PutAt(files[0], Offset, SubSeq(pending, 1, k))
<1>7. f \in Files /\ Len(f) = (IF Offset + k > Size THEN Offset + k ELSE Size)
  <2> DEFINE d == SubSeq(pending, 1, k)
  <2>1. files[0] \in Files /\ d \in Files /\ Len(d) = k /\ Offset \in 0 .. Len(files[0])
    BY <1>3, <1>5, <1>6
  <2> HIDE DEF d
  <2>2. /\ PutAt(files[0], Offset, d) \in Files
        /\ Len(PutAt(files[0], Offset, d))
             = IF Offset + Len(d) > Len(files[0]) THEN Offset + Len(d) ELSE Len(files[0])
    BY <2>1, PutAtProperties
  <2> QED BY <1>4, <2>1, <2>2 DEF d
<1>8. f # NONE /\ Sz(f) = Len(f) /\ f \in Files \cup {NONE} /\ files' = [files EXCEPT ![0] = f]
  BY <1>2, <1>7, SzFile
<1> HIDE DEF f
<1>9. /\ files' \in [Names -> Files \cup {NONE}] /\ files'[0] = f /\ Size' = Sz(f)
      /\ \A i \in Names : i # 0 => files'[i] = files[i]
      /\ \A i \in Rotated : i # 0 /\ files'[i] = files[i]
      /\ \A i \in Names : i >= maxFiles => files'[i] = NONE
  BY <1>1, <1>8, ActiveOnly DEF TypeOK
<1>10. /\ Size' \in Nat /\ Size' <= Size + k /\ Offset + k <= Size' /\ Offset \in Nat
       /\ Size' >= Size
  BY <1>4, <1>5, <1>7, <1>8, <1>9
<1>11. /\ fd'.open = fd.open /\ fd'.append = fd.append /\ fd'.off = Offset + k
       /\ fd' \in [open : BOOLEAN, append : BOOLEAN, off : Nat]
  <2>1. fd \in [open : BOOLEAN, append : BOOLEAN, off : Nat] /\ Offset + k \in Nat
    BY <1>1, <1>4, <1>10 DEF TypeOK
  <2> HIDE DEF Offset
  <2> QED BY <1>2, <2>1
<1>12. pc' \in {"writev", "close", "idle"} /\ (pc' = "idle" => bytes < MaxBytes)
       /\ (pc' # "writev" => k = Len(pending))
  BY <1>2, <1>4 DEF AfterWritev
<1>13. pc' # "writev" => pending' = <<>>
  BY <1>4, <1>6, <1>12, EmptySeq DEF Files
<1>14. TypeOK'
  <2>1. faults' \in 0 .. MaxIncidents
    BY <1>1, <1>2, Room DEF TypeOK
  <2> QED BY <1>1, <1>3, <1>6, <1>9, <1>11, <1>12, <2>1 DEF TypeOK, Files
<1>15. Shape'
  BY <1>1, <1>3, <1>8, <1>9, <1>10, <1>11, <1>12, <1>13 DEF Shape
<1>16. CounterInv'
  BY <1>1, <1>3, <1>4, <1>6, <1>10, <1>11 DEF CounterInv
<1>17. GrowthInv'
  <2>1. Size' + Len(pending') < Allowed' + Longest /\ Len(pending') \in Nat
    <3>1. Size + Len(pending) < Allowed + Longest
      BY <1>1, <1>3 DEF GrowthInv
    <3>2. Len(pending') = Len(pending) - k /\ k <= Len(pending)
      BY <1>6
    <3>3. Size' <= Size + k /\ Size' \in Nat
      BY <1>10
    <3>4. Len(pending') \in Nat
      BY <1>4, <3>2
    <3>5. Size' + Len(pending') <= Size + Len(pending)
      BY <1>4, <3>2, <3>3
    <3>6. Size' + Len(pending') < Allowed + Longest
      BY <1>4, <3>1, <3>3, <3>4, <3>5
    <3> QED BY <1>4, <3>4, <3>6
  <2>2. pc' = "idle" => Size' < Allowed'
    <3>1. bytes + ext >= Size + Len(pending)
      BY <1>1, <1>3 DEF CounterInv
    <3> QED BY <1>4, <1>10, <1>12, <3>1
  <2>3. \A i \in Names : Sz(files'[i]) < Allowed' + Longest
    BY <1>1, <1>4, <1>8, <1>9, <1>10, <2>1 DEF GrowthInv, Size
  <2> QED BY <1>12, <2>1, <2>2, <2>3 DEF GrowthInv
<1>18. EvictionInv'
  <2> SUFFICES ASSUME Undisturbed' PROVE EvictionInv'
    BY DEF EvictionInv
  <2>1. faults' = faults /\ k = Len(pending) /\ Undisturbed
    <3>0. k < Len(pending) => faults' = faults + 1
      BY <1>2
    <3>1. faults' + crashes + ext = 0 /\ (faults' = faults \/ faults' = faults + 1)
      BY <1>2, <1>3 DEF Undisturbed
    <3>2. faults' = faults /\ faults = 0 /\ ~(k < Len(pending))
      <4>1. faults \in Nat /\ crashes \in Nat /\ ext \in Nat
        BY <1>4
      <4>2. faults' = 0 /\ faults = 0
        BY <3>1, <4>1
      <4>3. ~(k < Len(pending))
        BY <3>0, <4>2
      <4> QED BY <4>2, <4>3
    <3>3. k = Len(pending)
      BY <1>4, <3>2
    <3> QED BY <3>1, <3>2, <3>3 DEF Undisturbed
  <2>2. bytes = Size + Len(pending) /\ Offset = Size
    BY <1>1, <1>3, <1>4, <2>1 DEF EvictionInv, Offset
  <2>3. Size' = Size + k /\ pc' # "writev" /\ Len(pending') = 0
    <3>1. Size' = Offset + k
      BY <1>4, <1>7, <1>8, <1>9, <2>2
    <3>2. pc' # "writev"
      BY <1>2, <1>4, <2>1 DEF AfterWritev
    <3> QED BY <1>4, <1>6, <2>1, <2>2, <3>1, <3>2
  <2>4. /\ fd'.open => bytes' = Size' + Len(pending')
        /\ fd'.open /\ ~fd'.append => fd'.off = Size'
    BY <1>3, <1>4, <1>11, <2>1, <2>2, <2>3
  <2>5. pc' = "close" => Sz(files'[0]) >= MaxBytes
    <3>1. pc' = "close" => bytes >= MaxBytes
      BY <1>2, <2>1 DEF AfterWritev
    <3> QED BY <1>4, <1>9, <2>1, <2>2, <2>3, <3>1
  <2> QED BY <1>1, <1>3, <1>9, <1>12, <2>1, <2>4, <2>5
             DEF EvictionInv, Undisturbed, Gap, Rotated, Full
<1> QED BY <1>14, <1>15, <1>16, <1>17, <1>18 DEF IInv

\* max_files = 1: the active file is removed, full as it is; if that fails, it
\* keeps its place, and all that follows is allowed for in Undone.
LEMMA UnlinkStep ==
  ASSUME IInv, UnlinkBase
  PROVE  IInv'
<1>1. TypeOK /\ Shape /\ CounterInv /\ GrowthInv /\ EvictionInv
  BY DEF IInv
<1>2. /\ pc = "unlink" /\ pc' = "reopen" /\ ~fd.open /\ maxFiles = 1
      /\ UNCHANGED <<maxFiles, intact, fd, bytes, pending, shift, lines, crashes,
                     restarts, ext>>
  BY <1>1 DEF UnlinkBase, Shape
<1>3. /\ 0 \in Names /\ Len(Content(0)) \in Nat /\ ext \in Nat
      /\ Allowed \in Nat /\ Longest \in Nat \ {0} /\ Sz(NONE) = 0 /\ evicted \in Nat
      /\ crashes' \in Nat /\ restarts' \in Nat /\ ext' \in Nat
      /\ \A i \in Names : Sz(files[i]) \in Nat
  BY <1>1, <1>2, StateTypes, Greatest, SzType DEF TypeOK
<1>4. Shape' /\ CounterInv'
  BY <1>1, <1>2 DEF Shape, CounterInv
<1>5. EvictionInv'
  <2>1. Rotated' = {}
    BY <1>2 DEF Rotated
  <2> QED BY <1>2, <2>1 DEF EvictionInv
<1>6. CASE Evict(0) /\ UNCHANGED <<faults, cleared>>
  <2>1. /\ files' = [files EXCEPT ![0] = NONE] /\ evicted' = evicted + Len(Content(0))
        /\ Allowed' = Allowed
    BY <1>2, <1>6 DEF Evict, Allowed, Undone
  <2>2. /\ files' \in [Names -> Files \cup {NONE}] /\ Size' = 0 /\ files'[0] = NONE
        /\ \A i \in Names : i # 0 => files'[i] = files[i]
        /\ \A i \in Names : i >= maxFiles => files'[i] = NONE
    BY <1>1, <1>3, <2>1, ActiveOnly DEF TypeOK
  <2>3. TypeOK'
    <3>1. evicted' \in Nat
      BY <1>3, <2>1
    <3> QED BY <1>1, <1>2, <1>6, <2>2, <3>1 DEF TypeOK, Files
  <2>4. GrowthInv'
    <3>1. \A i \in Names : Sz(files'[i]) < Allowed' + Longest
      BY <1>1, <1>3, <2>1, <2>2 DEF GrowthInv
    <3> QED BY <1>2, <1>3, <2>2, <3>1 DEF GrowthInv
  <2> QED BY <1>4, <1>5, <2>3, <2>4 DEF IInv
<1>7. CASE UnlinkFails /\ cleared' = FALSE
  <2>1. faults' \in 0 .. MaxIncidents /\ UNCHANGED <<files, evicted>>
    BY <1>1, <1>7, Room DEF UnlinkFails
  <2>2. TypeOK'
    BY <1>1, <1>2, <1>7, <2>1 DEF TypeOK
  <2>3. GrowthInv'
    <3>1. Allowed' \in Nat /\ Allowed' >= Allowed
      BY <1>1, <1>2, <1>3, <1>7, AllowedGrows
    <3>2. \A i \in Names : Sz(files[i]) < Allowed + Longest
      BY <1>1 DEF GrowthInv
    <3>3. \A i \in Names : Sz(files[i]) < Allowed' + Longest
      BY <1>3, <3>1, <3>2
    <3> QED BY <1>2, <1>7, <2>1, <3>3 DEF GrowthInv
  <2> QED BY <1>4, <1>5, <2>2, <2>3 DEF IInv
<1> QED BY <1>6, <1>7 DEF UnlinkBase

\* The active file begins anew, empty; if that fails, it is not written to.
LEMMA ReopenStep ==
  ASSUME IInv, Reopen
  PROVE  IInv'
<1>1. TypeOK /\ Shape /\ CounterInv /\ GrowthInv /\ EvictionInv
  BY DEF IInv
<1>2. /\ pc = "reopen" /\ pc' = "idle" /\ ~fd.open /\ bytes' = 0 /\ pending = <<>>
      /\ pending' = <<>>
      /\ UNCHANGED <<maxFiles, intact, cleared, shift, lines, crashes, restarts, ext, evicted>>
  BY <1>1 DEF Reopen, fixed, Shape
<1>3. /\ 0 \in Names /\ Allowed' = Allowed /\ ext \in Nat /\ Allowed \in Nat
      /\ Allowed > ext /\ Longest \in Nat \ {0} /\ Len(pending') = 0
      /\ faults \in Nat /\ crashes \in Nat /\ Size \in Nat
  <2>1. MaxBytes \in Nat \ {0} /\ Allowed >= MaxBytes + ext /\ ext \in Nat /\ Allowed \in Nat
    BY <1>1, StateTypes
  <2>2. Allowed > ext
    BY <2>1
  <2> QED BY <1>1, <1>2, <2>1, <2>2, StateTypes, Greatest DEF Allowed, Undone
<1>4. CASE /\ files' = [files EXCEPT ![0] = <<>>]
           /\ fd' = [open |-> TRUE, append |-> FALSE, off |-> 0] /\ UNCHANGED faults
  <2>1. <<>> \in Files /\ <<>> # NONE /\ Sz(<<>>) = 0
    <3>1. <<>> \in Files /\ Len(<<>>) = 0
      BY DEF Files
    <3> QED BY <3>1, SzFile
  <2>2. /\ files' \in [Names -> Files \cup {NONE}] /\ Size' = 0 /\ files'[0] = <<>>
        /\ \A i \in Names : i # 0 => files'[i] = files[i]
        /\ \A i \in Rotated : i # 0 /\ files'[i] = files[i]
        /\ \A i \in Names : i >= maxFiles => files'[i] = NONE
    BY <1>1, <1>4, <2>1, ActiveOnly DEF TypeOK
  <2>3. TypeOK'
    BY <1>1, <1>2, <1>4, <2>2 DEF TypeOK, Files
  <2>4. Shape' /\ CounterInv'
    BY <1>1, <1>2, <1>3, <1>4, <2>1, <2>2 DEF Shape, CounterInv
  <2>5. GrowthInv'
    <3>1. \A i \in Names : Sz(files'[i]) < Allowed' + Longest
      BY <1>1, <1>3, <2>1, <2>2 DEF GrowthInv
    <3> QED BY <1>2, <1>3, <2>2, <3>1 DEF GrowthInv
  <2>6. EvictionInv'
    BY <1>1, <1>2, <1>3, <1>4, <2>2 DEF EvictionInv, Undisturbed, Gap, Rotated, Full
  <2> QED BY <2>3, <2>4, <2>5, <2>6 DEF IInv
<1>5. CASE MayHappen("open") /\ faults' = faults + 1 /\ UNCHANGED <<files, fd>>
  <2>1. faults' \in 0 .. MaxIncidents /\ faults' # 0
    BY <1>1, <1>3, <1>5, Room
  <2>2. TypeOK'
    BY <1>1, <1>2, <1>5, <2>1 DEF TypeOK
  <2>3. Shape' /\ CounterInv'
    BY <1>1, <1>2, <1>5 DEF Shape, CounterInv
  <2>4. GrowthInv'
    BY <1>1, <1>2, <1>3, <1>5 DEF GrowthInv, Size
  <2>5. EvictionInv'
    BY <1>2, <1>3, <1>5 DEF EvictionInv, Undisturbed
  <2> QED BY <2>2, <2>3, <2>4, <2>5 DEF IInv
<1> QED BY <1>4, <1>5 DEF Reopen

\* Another process makes the active file a byte longer.
LEMMA ExternalStep ==
  ASSUME IInv, ExternalAppend
  PROVE  IInv'
<1>1. TypeOK /\ Shape /\ CounterInv /\ GrowthInv /\ EvictionInv
  BY DEF IInv
<1> DEFINE f == Append(Content(0), EXT)
<1>2. /\ ext' = ext + 1 /\ ext' \in 0 .. MaxIncidents /\ files' = [files EXCEPT ![0] = f]
      /\ UNCHANGED <<maxFiles, intact, cleared, pc, fd, bytes, pending, shift, lines, faults,
                     crashes, restarts, evicted>>
  BY <1>1, Room DEF ExternalAppend, fixed
<1>3. /\ 0 \in Names /\ Content(0) \in Files /\ Len(Content(0)) = Size /\ Size \in Nat
      /\ Allowed \in Nat /\ Longest \in Nat /\ ext \in Nat /\ bytes \in Nat
      /\ Len(pending) \in Nat /\ faults \in Nat /\ crashes \in Nat /\ restarts \in Nat
  BY <1>1, StateTypes, Greatest DEF Size, TypeOK
<1>4. f \in Files /\ Len(f) = Size + 1
  <2>1. EXT \in Cells
    BY ConstantsAssumption DEF EXT, Cells
  <2> QED BY <1>3, <2>1, AppendProperties DEF Files
<1>5. f # NONE /\ Sz(f) = Size + 1
  BY <1>4, SzFile
<1> HIDE DEF f
<1>6. /\ files' \in [Names -> Files \cup {NONE}] /\ Size' = Size + 1 /\ files'[0] = f
      /\ \A i \in Names : i # 0 => files'[i] = files[i]
      /\ \A i \in Names : i >= maxFiles => files'[i] = NONE
  BY <1>1, <1>2, <1>4, <1>5, ActiveOnly DEF TypeOK
<1>7. Allowed' = Allowed + 1
  BY <1>1, <1>2, <1>3, AllowedGrows
<1>8. TypeOK'
  BY <1>1, <1>2, <1>6 DEF TypeOK, Files
<1>9. Shape'
  BY <1>1, <1>2, <1>3, <1>5, <1>6 DEF Shape, TypeOK
<1>10. CounterInv'
  BY <1>1, <1>2, <1>3, <1>6 DEF CounterInv
<1>11. GrowthInv'
  <2>1. \A i \in Names : Sz(files'[i]) < Allowed' + Longest
    <3>1. \A i \in Names : Sz(files[i]) \in Nat
      BY <1>1, StateTypes
    <3> QED BY <1>1, <1>3, <1>5, <1>6, <1>7, <3>1 DEF GrowthInv, Size
  <2>2. pc = "writev" => Size' + Len(pending) < Allowed' + Longest
    BY <1>1, <1>3, <1>6, <1>7 DEF GrowthInv
  <2>3. pc = "down" \/ (pc = "idle" /\ (fd.open \/ cleared)) => Size' < Allowed'
    BY <1>1, <1>3, <1>6, <1>7 DEF GrowthInv
  <2>4. pc = "reopen" /\ cleared => Size' <= ext'
    BY <1>1, <1>2, <1>3, <1>6 DEF GrowthInv
  <2> QED BY <1>2, <2>1, <2>2, <2>3, <2>4 DEF GrowthInv
<1>12. EvictionInv'
  BY <1>2, <1>3 DEF EvictionInv, Undisturbed
<1> QED BY <1>8, <1>9, <1>10, <1>11, <1>12 DEF IInv

-----------------------------------------------------------------------------
(* The chain of renames                                                    *)

\* unlink of the eldest file leaves the gap that the renames move down; it only
\* counts as an eviction when that file was there, and then all others are.  If it
\* fails, the run is disturbed.
LEMMA RemoveEldestStep ==
  ASSUME IInv, RemoveEldest
  PROVE  IInv'
<1>1. TypeOK /\ Shape /\ CounterInv /\ GrowthInv /\ EvictionInv
  BY DEF IInv
<1> DEFINE e == maxFiles - 1
<1>2. /\ pc = "eldest" /\ pc' = "shift" /\ ~fd.open /\ maxFiles >= 2 /\ shift' = e
      /\ UNCHANGED <<maxFiles, intact, cleared, fd, bytes, pending, lines, crashes,
                     restarts, ext>>
  BY <1>1 DEF RemoveEldest, Eldest, fixed, Shape
<1>3. /\ 0 \in Names /\ Names \subseteq Nat /\ e \in Names /\ e \in Nat \ {0}
      /\ e < maxFiles /\ e \in Rotated /\ \A i \in Rotated : i <= e
  <2>1. 0 \in Names /\ Names \subseteq Nat /\ e \in Names /\ maxFiles \in Nat
    BY <1>1, StateTypes, Greatest
  <2>2. e \in Nat \ {0} /\ e < maxFiles
    BY <1>2, <2>1
  <2>3. e \in Rotated /\ \A i \in Rotated : i <= e
    BY <2>1, <2>2 DEF Rotated
  <2> QED BY <2>1, <2>2, <2>3
<1>4. /\ Len(Content(e)) = Sz(files[e]) /\ Sz(files[e]) \in Nat /\ Allowed' = Allowed
      /\ Allowed \in Nat /\ Longest \in Nat \ {0} /\ Sz(NONE) = 0 /\ evicted \in Nat
      /\ (files[e] = NONE => Sz(files[e]) = 0)
  BY <1>1, <1>2, <1>3, StateTypes, Greatest, SzType DEF Allowed, Undone, TypeOK
<1> HIDE DEF e
<1>5. Shape' /\ CounterInv'
  BY <1>1, <1>2, <1>3 DEF Shape, CounterInv
<1>6. CASE Evict(Eldest) /\ UNCHANGED faults
  <2>1. files' = [files EXCEPT ![e] = NONE] /\ evicted' = evicted + Len(Content(e))
    BY <1>6 DEF Evict, Eldest, e
  <2>2. /\ files' \in [Names -> Files \cup {NONE}] /\ files'[e] = NONE
        /\ \A i \in Names : i # e => files'[i] = files[i]
        /\ \A i \in Names : i >= maxFiles => files'[i] = NONE
    BY <1>1, <1>2, <1>3, <2>1 DEF TypeOK, Files
  <2>3. TypeOK'
    <3>1. evicted' \in Nat
      BY <1>4, <2>1
    <3> QED BY <1>1, <1>2, <1>3, <1>6, <2>2, <3>1 DEF TypeOK, Files
  <2>4. GrowthInv'
    <3>1. \A i \in Names : Sz(files'[i]) < Allowed' + Longest
      BY <1>1, <1>4, <2>2 DEF GrowthInv
    <3> QED BY <1>2, <3>1 DEF GrowthInv
  <2>5. EvictionInv'
    <3> SUFFICES ASSUME Undisturbed' PROVE EvictionInv'
      BY DEF EvictionInv
    <3>1. Undisturbed /\ Gap = 0 /\ Gap' = e /\ Rotated' = Rotated
          /\ \A i \in Rotated : i \in Names /\ i # 0
      BY <1>1, <1>2, <1>6, RotatedNames DEF Undisturbed, Gap, Rotated
    <3>2. /\ Full(0) /\ \A i \in Rotated : files[i] # NONE => Full(i)
          /\ \A i, j \in Rotated : i < j /\ files[j] # NONE => files[i] # NONE
          /\ evicted > 0 => \A i \in Rotated : files[i] # NONE
      BY <1>1, <1>2, <3>1 DEF EvictionInv
    <3>3. files'[0] = files[0] /\ \A i \in Rotated : files'[i] # NONE => files'[i] = files[i]
      BY <1>3, <2>2, <3>1
    <3>4. Full(0)' /\ \A i \in Rotated : files'[i] # NONE => Full(i)'
      BY <3>2, <3>3 DEF Full
    <3>5. \A i, j \in Rotated : i < j /\ i # e /\ files'[j] # NONE => files'[i] # NONE
      BY <2>2, <3>1, <3>2, <3>3
    <3>6. evicted' > 0 => \A i \in Rotated : i # e => files'[i] # NONE
      <4>1. CASE evicted > 0
        BY <2>2, <3>1, <3>2, <4>1
      <4>2. CASE files[e] # NONE
        <5>1. \A i \in Rotated : i # e => i < e
          BY <1>3, <3>1
        <5> QED BY <1>3, <2>2, <3>1, <3>2, <4>2, <5>1
      <4>3. evicted' > 0 => evicted > 0 \/ files[e] # NONE
        BY <1>4, <2>1
      <4> QED BY <4>1, <4>2, <4>3
    <3> QED BY <1>2, <2>2, <3>1, <3>4, <3>5, <3>6 DEF EvictionInv
  <2> QED BY <1>5, <2>3, <2>4, <2>5 DEF IInv
<1>7. CASE UnlinkFails
  <2>1. /\ faults' = faults + 1 /\ faults' \in 0 .. MaxIncidents /\ UNCHANGED <<files, evicted>>
        /\ faults \in Nat /\ crashes \in Nat /\ ext \in Nat
    BY <1>1, <1>7, Room, StateTypes DEF UnlinkFails
  <2>2. TypeOK'
    BY <1>1, <1>2, <1>3, <2>1 DEF TypeOK
  <2>3. GrowthInv'
    BY <1>1, <1>2, <1>4, <2>1 DEF GrowthInv
  <2>4. EvictionInv'
    BY <1>2, <2>1 DEF EvictionInv, Undisturbed
  <2> QED BY <1>5, <2>2, <2>3, <2>4 DEF IInv
<1> QED BY <1>6, <1>7 DEF RemoveEldest

\* A rename moves a file, finds none to move, or fails.
LEMMA RenameCases ==
  ASSUME TypeOK, NEW from \in Names, NEW to \in Names, from # to, to < maxFiles,
         Rename(from, to)
  PROVE  /\ files' \in [Names -> Files \cup {NONE}]
         /\ \A i \in Names : i >= maxFiles => files'[i] = NONE
         /\ \A i \in Names : files'[i] = NONE \/ \E j \in Names : files'[i] = files[j]
         /\ faults' \in 0 .. MaxIncidents /\ intact' \in BOOLEAN /\ (intact' => intact)
         /\ \/ /\ files[from] # NONE /\ UNCHANGED <<faults, intact>>
               /\ files'[to] = files[from] /\ files'[from] = NONE
               /\ \A i \in Names : i \notin {from, to} => files'[i] = files[i]
            \/ files[from] = NONE /\ UNCHANGED <<files, faults, intact>>
            \/ UNCHANGED files /\ faults' = faults + 1 /\ ~intact'
<1>1. /\ files \in [Names -> Files \cup {NONE}] /\ intact \in BOOLEAN
      /\ faults \in 0 .. MaxIncidents /\ \A i \in Names : i >= maxFiles => files[i] = NONE
      /\ maxFiles \in Nat /\ Names \subseteq Nat
  BY StateTypes, Greatest DEF TypeOK, Files
<1>2. CASE files[from] # NONE /\ files' = Renamed(from, to) /\ UNCHANGED <<faults, intact>>
  <2>1. /\ files'[to] = files[from] /\ files'[from] = NONE
        /\ \A i \in Names : i \notin {from, to} => files'[i] = files[i]
        /\ files' \in [Names -> Files \cup {NONE}]
    BY <1>1, <1>2 DEF Renamed
  <2>2. \A i \in Names : files'[i] = NONE \/ \E j \in Names : files'[i] = files[j]
    BY <2>1
  <2>3. \A i \in Names : i >= maxFiles => files'[i] = NONE
    BY <1>1, <2>1
  <2> QED BY <1>1, <1>2, <2>1, <2>2, <2>3
<1>3. CASE files[from] = NONE /\ UNCHANGED <<files, faults, intact>>
  BY <1>1, <1>3
<1>4. CASE MayHappen("rename") /\ faults' = faults + 1 /\ intact' = FALSE /\ UNCHANGED files
  <2>1. faults' \in 0 .. MaxIncidents
    BY <1>4, Room
  <2> QED BY <1>1, <1>4, <2>1
<1> QED BY <1>2, <1>3, <1>4 DEF Rename

\* A rename makes no file longer.
LEMMA RenameKeepsSizes ==
  ASSUME IInv, NEW from \in Names, NEW to \in Names, from # to, to < maxFiles,
         Rename(from, to), UNCHANGED <<crashes, restarts, ext>>, cleared' => cleared
  PROVE  \A i \in Names : Sz(files'[i]) < Allowed' + Longest
<1>1. TypeOK /\ \A i \in Names : Sz(files[i]) < Allowed + Longest /\ Sz(files[i]) \in Nat
  BY StateTypes DEF IInv, GrowthInv
<1>2. /\ Longest \in Nat \ {0} /\ Allowed \in Nat /\ Sz(NONE) = 0
      /\ crashes' \in Nat /\ restarts' \in Nat /\ ext' \in Nat
  BY <1>1, StateTypes, Greatest, SzType
<1>3. \A i \in Names : files'[i] = NONE \/ \E j \in Names : files'[i] = files[j]
  BY <1>1, RenameCases
<1>4. Allowed' \in Nat /\ Allowed' >= Allowed
  BY <1>1, <1>2, AllowedGrows
<1>5. \A j \in Names : Sz(files[j]) < Allowed' + Longest
  BY <1>1, <1>2, <1>4
<1> QED BY <1>2, <1>3, <1>4, <1>5

\* One turn of the loop: the gap moves one index down.
LEMMA ShiftStep ==
  ASSUME IInv, Shift
  PROVE  IInv'
<1>1. TypeOK /\ Shape /\ CounterInv /\ GrowthInv /\ EvictionInv
  BY DEF IInv
<1> DEFINE from == shift - 1
<1>2. /\ pc = "shift" /\ pc' = "shift" /\ ~fd.open /\ maxFiles >= 2 /\ shift' = from
      /\ shift < maxFiles /\ shift >= 2 /\ Rename(from, shift)
      /\ UNCHANGED <<maxFiles, cleared, fd, bytes, pending, lines, crashes, restarts, ext, evicted>>
  BY <1>1 DEF Shift, Shape
<1>3. /\ 0 \in Names /\ Names \subseteq Nat /\ shift \in Names /\ shift \in Nat
      /\ from \in Names /\ from \in Nat \ {0} /\ from # shift /\ shift = from + 1
      /\ from \in Rotated /\ shift \in Rotated /\ from < maxFiles
  <2>1. /\ 0 \in Names /\ Names \subseteq Nat /\ shift \in Names /\ maxFiles \in Nat
        /\ Max(FileCounts) \in Nat
    BY <1>1, StateTypes, Greatest DEF TypeOK
  <2>2. /\ shift \in Nat /\ from \in Nat \ {0} /\ from # shift /\ shift = from + 1
        /\ from < maxFiles
    BY <1>2, <2>1
  <2>3. from \in Names
    BY <2>1, <2>2 DEF Names
  <2>4. from \in Rotated /\ shift \in Rotated
    BY <1>2, <2>1, <2>2 DEF Rotated
  <2> QED BY <2>1, <2>2, <2>3, <2>4
<1> HIDE DEF from
<1>4. /\ files' \in [Names -> Files \cup {NONE}]
      /\ \A i \in Names : i >= maxFiles => files'[i] = NONE
      /\ faults' \in 0 .. MaxIncidents /\ intact' \in BOOLEAN /\ (intact' => intact)
  BY <1>1, <1>2, <1>3, RenameCases
<1>5. \/ /\ files[from] # NONE /\ UNCHANGED <<faults, intact>>
         /\ files'[shift] = files[from] /\ files'[from] = NONE
         /\ \A i \in Names : i \notin {from, shift} => files'[i] = files[i]
      \/ files[from] = NONE /\ UNCHANGED <<files, faults, intact>>
      \/ UNCHANGED files /\ faults' = faults + 1 /\ ~intact'
  BY <1>1, <1>2, <1>3, RenameCases
<1>6. TypeOK'
  BY <1>1, <1>2, <1>3, <1>4 DEF TypeOK, Files
<1>7. Shape' /\ CounterInv'
  BY <1>1, <1>2, <1>3 DEF Shape, CounterInv
<1>8. GrowthInv'
  <2>1. \A i \in Names : Sz(files'[i]) < Allowed' + Longest
    BY <1>2, <1>3, RenameKeepsSizes
  <2> QED BY <1>2, <2>1 DEF GrowthInv
<1>9. EvictionInv'
  <2> SUFFICES ASSUME Undisturbed' PROVE EvictionInv'
    BY DEF EvictionInv
  <2>1. faults \in Nat /\ crashes \in Nat /\ ext \in Nat
    BY <1>1, StateTypes
  <2>2. Undisturbed /\ UNCHANGED faults
    BY <1>2, <1>5, <2>1 DEF Undisturbed
  <2>3. Gap = shift /\ Gap' = from /\ Rotated' = Rotated
        /\ \A i \in Rotated : i \in Names /\ i # 0 /\ i \in Nat
    BY <1>1, <1>2, RotatedNames DEF Gap, Rotated
  <2>4. /\ Full(0) /\ \A i \in Rotated : files[i] # NONE => Full(i)
        /\ files[shift] = NONE
        /\ \A i, j \in Rotated : i < j /\ i # shift /\ files[j] # NONE => files[i] # NONE
        /\ evicted > 0 => \A i \in Rotated : i # shift => files[i] # NONE
    BY <1>1, <1>2, <2>2, <2>3 DEF EvictionInv
  <2> SUFFICES /\ Full(0)' /\ \A i \in Rotated : files'[i] # NONE => Full(i)'
               /\ files'[from] = NONE
               /\ \A i, j \in Rotated : i < j /\ i # from /\ files'[j] # NONE
                                          => files'[i] # NONE
               /\ evicted > 0 => \A i \in Rotated : i # from => files'[i] # NONE
    BY <1>2, <2>3 DEF EvictionInv
  <2>5. CASE /\ files[from] # NONE
             /\ files'[shift] = files[from] /\ files'[from] = NONE
             /\ \A i \in Names : i \notin {from, shift} => files'[i] = files[i]
    <3>1. files'[0] = files[0] /\ \A i \in Rotated : i \notin {from, shift} => files'[i] = files[i]
      BY <1>3, <2>3, <2>5
    <3>2. Full(0)' /\ \A i \in Rotated : files'[i] # NONE => Full(i)'
      BY <1>3, <2>4, <2>5, <3>1 DEF Full
    <3>3. ASSUME NEW i \in Rotated, NEW j \in Rotated, i < j, i # from, files'[j] # NONE
          PROVE  files'[i] # NONE
      <4>1. CASE i = shift
        BY <2>5, <4>1
      <4>2. CASE i # shift /\ j = shift
        <5>1. i < from
          BY <1>3, <2>3, <3>3, <4>2
        <5> QED BY <1>3, <2>4, <2>5, <3>1, <3>3, <4>2, <5>1
      <4>3. CASE i # shift /\ j # shift
        BY <2>4, <2>5, <3>1, <3>3, <4>3
      <4> QED BY <4>1, <4>2, <4>3
    <3>4. evicted > 0 => \A i \in Rotated : i # from => files'[i] # NONE
      BY <2>4, <2>5, <3>1
    <3> QED BY <2>5, <3>2, <3>3, <3>4
  <2>6. CASE files[from] = NONE /\ UNCHANGED files
    <3>1. Full(0)' /\ \A i \in Rotated : files'[i] # NONE => Full(i)'
      BY <2>4, <2>6 DEF Full
    <3>2. ASSUME NEW i \in Rotated, NEW j \in Rotated, i < j, i # from, files[j] # NONE
          PROVE  files[i] # NONE
      <4>1. CASE i = shift
        <5>1. from < j
          BY <1>3, <2>3, <3>2, <4>1
        <5> QED BY <1>3, <2>4, <2>6, <3>2, <5>1
      <4> QED BY <2>4, <3>2, <4>1
    <3>3. ~(evicted > 0)
      BY <1>3, <2>4, <2>6
    <3> QED BY <2>6, <3>1, <3>2, <3>3
  <2> QED BY <1>5, <2>1, <2>2, <2>5, <2>6
<1> QED BY <1>6, <1>7, <1>8, <1>9 DEF IInv

\* The active file becomes the newest rotated one, and the gap is closed.
LEMMA RenameBaseStep ==
  ASSUME IInv, RenameBase
  PROVE  IInv'
<1>1. TypeOK /\ Shape /\ CounterInv /\ GrowthInv /\ EvictionInv
  BY DEF IInv
<1>2. /\ pc = "shift" /\ pc' = "reopen" /\ ~fd.open /\ maxFiles >= 2 /\ shift' = 0
      /\ shift < 2 /\ Rename(0, 1) /\ pending = <<>>
      /\ cleared' = (cleared /\ faults' = faults)
      /\ UNCHANGED <<maxFiles, fd, bytes, pending, lines, crashes, restarts, ext, evicted>>
  BY <1>1 DEF RenameBase, Shape
<1>3. /\ 0 \in Names /\ Names \subseteq Nat /\ 1 \in Names /\ 1 < maxFiles /\ 1 \in Rotated
      /\ shift \in Nat /\ shift \in {0, 1}
  <2>1. /\ 0 \in Names /\ Names \subseteq Nat /\ maxFiles \in Nat /\ shift \in Nat
        /\ maxFiles - 1 \in Names
    BY <1>1, StateTypes, Greatest
  <2>2. 1 \in Names
    BY <1>2, <2>1, Greatest DEF Names
  <2>3. 1 < maxFiles /\ 1 \in Rotated /\ shift \in {0, 1}
    BY <1>2, <2>1 DEF Rotated
  <2> QED BY <2>1, <2>2, <2>3
<1>4. /\ files' \in [Names -> Files \cup {NONE}]
      /\ \A i \in Names : i >= maxFiles => files'[i] = NONE
      /\ faults' \in 0 .. MaxIncidents /\ intact' \in BOOLEAN /\ (intact' => intact)
  BY <1>1, <1>2, <1>3, RenameCases
<1>5. \/ /\ files[0] # NONE /\ UNCHANGED <<faults, intact>>
         /\ files'[1] = files[0] /\ files'[0] = NONE
         /\ \A i \in Names : i \notin {0, 1} => files'[i] = files[i]
      \/ files[0] = NONE /\ UNCHANGED <<files, faults, intact>>
      \/ UNCHANGED files /\ faults' = faults + 1 /\ ~intact'
  BY <1>1, <1>2, <1>3, RenameCases
<1>6. TypeOK'
  BY <1>1, <1>2, <1>3, <1>4 DEF TypeOK, Files
<1>7. Shape' /\ CounterInv'
  BY <1>1, <1>2 DEF Shape, CounterInv
<1>8. GrowthInv'
  <2>1. \A i \in Names : Sz(files'[i]) < Allowed' + Longest
    <3>1. cleared' => cleared
      BY <1>2
    <3> QED BY <1>2, <1>3, <3>1, RenameKeepsSizes
  <2>2. cleared' => Size' <= ext'
    <3>1. Sz(NONE) = 0 /\ ext \in Nat
      BY <1>1, StateTypes, SzType
    <3>2. cleared' => files'[0] = NONE
      <4>1. faults \in Nat /\ (cleared' => faults' = faults)
        BY <1>1, <1>2, StateTypes
      <4> QED BY <1>5, <4>1
    <3> QED BY <1>2, <3>1, <3>2 DEF Size
  <2> QED BY <1>2, <2>1, <2>2 DEF GrowthInv
<1>9. EvictionInv'
  <2> SUFFICES ASSUME Undisturbed' PROVE EvictionInv'
    BY DEF EvictionInv
  <2>1. /\ faults \in Nat /\ crashes \in Nat /\ ext \in Nat /\ MaxBytes \in Nat \ {0}
        /\ Sz(NONE) = 0
    BY <1>1, StateTypes, SzType
  <2>2. Undisturbed /\ UNCHANGED faults
    BY <1>2, <1>5, <2>1 DEF Undisturbed
  <2>3. Gap = shift /\ Gap' = 0 /\ Rotated' = Rotated
        /\ \A i \in Rotated : i \in Names /\ i # 0 /\ i \in Nat
    BY <1>1, <1>2, RotatedNames DEF Gap, Rotated
  <2>4. /\ Full(0) /\ \A i \in Rotated : files[i] # NONE => Full(i)
        /\ \A i, j \in Rotated : i < j /\ i # shift /\ files[j] # NONE => files[i] # NONE
        /\ evicted > 0 => \A i \in Rotated : i # shift => files[i] # NONE
    BY <1>1, <1>2, <2>2, <2>3 DEF EvictionInv
  <2>5. files[0] # NONE
    BY <2>1, <2>4 DEF Full
  <2>6. /\ files'[1] = files[0]
        /\ \A i \in Rotated : i # 1 => files'[i] = files[i]
    BY <1>5, <2>1, <2>2, <2>3, <2>5
  <2>7. \A i \in Rotated : files'[i] # NONE => Full(i)'
    BY <2>4, <2>6 DEF Full
  <2>8. \A i, j \in Rotated : i < j /\ files'[j] # NONE => files'[i] # NONE
    <3> SUFFICES ASSUME NEW i \in Rotated, NEW j \in Rotated, i < j, files'[j] # NONE,
                        i # 1
                 PROVE  files'[i] # NONE
      BY <2>5, <2>6
    <3>1. i # shift /\ j # 1
      BY <1>3, <2>3
    <3> QED BY <2>4, <2>6, <3>1
  <2>9. evicted > 0 => \A i \in Rotated : files'[i] # NONE
    BY <1>3, <2>3, <2>4, <2>5, <2>6
  <2> QED BY <1>2, <2>3, <2>7, <2>8, <2>9 DEF EvictionInv
<1> QED BY <1>6, <1>7, <1>8, <1>9 DEF IInv

-----------------------------------------------------------------------------
(* The order of the lines                                                  *)

\* What a file, an empty one or none says of the lines in it.
LEMMA OfFile ==
  /\ Of(NONE) = {} /\ Of(<<>>) = {} /\ Ordered(NONE) /\ Ordered(<<>>)
  /\ \A f \in Files : Of(f) = {f[p] : p \in 1 .. Len(f)} \ {EXT}
<1>1. <<>> \in Files /\ 1 .. Len(<<>>) = {}
  BY DEF Files
<1>2. ASSUME NEW f \in Files PROVE Of(f) = {f[p] : p \in 1 .. Len(f)} \ {EXT}
  <2>1. f # NONE /\ DOMAIN f = 1 .. Len(f)
    BY SzFile, LenProperties DEF Files
  <2> QED BY <2>1 DEF Of, ToSet
<1>3. Of(<<>>) = {}
  BY <1>1, <1>2
<1> QED BY <1>1, <1>2, <1>3 DEF Of, Ordered

\* Bytes of the newest line, written where only foreign bytes follow, keep a file
\* in order and leave only foreign bytes behind them.
LEMMA PutAtOrder ==
  ASSUME NEW f \in Files, NEW d \in Files, NEW off \in 0 .. Len(f), NEW n \in Nat \ {0},
         Ordered(f), \A c \in Of(f) : c <= n, \A p \in 1 .. Len(d) : d[p] = n,
         \A p \in off + 1 .. Len(f) : f[p] = EXT
  PROVE  /\ Ordered(PutAt(f, off, d)) /\ Of(PutAt(f, off, d)) \subseteq Of(f) \cup {n}
         /\ \A p \in off + Len(d) + 1 .. Len(PutAt(f, off, d)) : PutAt(f, off, d)[p] = EXT
<1> DEFINE g == PutAt(f, off, d)
<1>1. /\ g \in Files /\ Len(g) = (IF off + Len(d) > Len(f) THEN off + Len(d) ELSE Len(f))
      /\ \A p \in 1 .. Len(g) :
            g[p] = IF off < p /\ p <= off + Len(d) THEN d[p - off] ELSE f[p]
  BY PutAtProperties
<1> HIDE DEF g
<1>2. Len(f) \in Nat /\ Len(d) \in Nat /\ off \in Nat
  BY LenProperties DEF Files
<1>3. f # NONE /\ g # NONE
  BY <1>1, SzFile
<1>4. ASSUME NEW p \in 1 .. Len(g)
      PROVE  \/ p <= off /\ p \in 1 .. Len(f) /\ g[p] = f[p]
             \/ off < p /\ p <= off + Len(d) /\ g[p] = n
             \/ off + Len(d) < p /\ g[p] = EXT
  <2>1. CASE p <= off
    <3>1. p \in 1 .. Len(f) /\ ~(off < p)
      BY <1>2, <2>1
    <3> QED BY <1>1, <2>1, <3>1
  <2>2. CASE off < p /\ p <= off + Len(d)
    <3>1. p - off \in 1 .. Len(d)
      BY <1>2, <2>2
    <3> QED BY <1>1, <2>2, <3>1
  <2>3. CASE off + Len(d) < p
    <3>1. p \in off + 1 .. Len(f) /\ ~(p <= off + Len(d))
      BY <1>1, <1>2, <2>3
    <3> QED BY <1>1, <2>3, <3>1
  <2> QED BY <1>2, <2>1, <2>2, <2>3
<1>5. Of(g) \subseteq Of(f) \cup {n}
  <2>1. /\ Of(f) = {f[p] : p \in 1 .. Len(f)} \ {EXT}
        /\ Of(g) = {g[p] : p \in 1 .. Len(g)} \ {EXT}
    BY <1>1, OfFile
  <2>2. \A p \in 1 .. Len(g) : g[p] \in {f[i] : i \in 1 .. Len(f)} \cup {n, EXT}
    BY <1>4
  <2> QED BY <2>1, <2>2
<1>6. \A p \in off + Len(d) + 1 .. Len(g) : g[p] = EXT
  BY <1>2, <1>4
<1>7. Ordered(g)
  <2> SUFFICES ASSUME NEW p \in 1 .. Len(g), NEW q \in 1 .. Len(g), p < q,
                      g[p] # EXT, g[q] # EXT
               PROVE  g[p] <= g[q]
    BY DEF Ordered
  <2>1. CASE q <= off
    <3>1. p <= off /\ g[p] = f[p] /\ g[q] = f[q] /\ p \in 1 .. Len(f) /\ q \in 1 .. Len(f)
      BY <1>2, <1>4, <2>1
    <3> QED BY <1>3, <3>1 DEF Ordered
  <2>2. CASE ~(q <= off)
    <3>1. g[q] = n
      BY <1>4, <2>2
    <3>2. g[p] \in Of(f) \cup {n}
      BY <1>1, <1>5, OfFile
    <3> QED BY <3>1, <3>2
  <2> QED BY <2>1, <2>2
<1> QED BY <1>5, <1>6, <1>7 DEF g

\* A foreign byte at the end says nothing of the lines.
LEMMA AppendOrder ==
  ASSUME NEW f \in Files
  PROVE  /\ Ordered(f) => Ordered(Append(f, EXT))
         /\ Of(Append(f, EXT)) = Of(f)
         /\ Len(Append(f, EXT)) = Len(f) + 1 /\ Append(f, EXT) \in Files
         /\ \A p \in 1 .. Len(f) : Append(f, EXT)[p] = f[p]
         /\ Append(f, EXT)[Len(f) + 1] = EXT
<1> DEFINE g == Append(f, EXT)
<1>1. EXT \in Cells /\ Len(f) \in Nat
  BY ConstantsAssumption, LenProperties DEF EXT, Cells, Files
<1>2. /\ g \in Files /\ Len(g) = Len(f) + 1 /\ \A p \in 1 .. Len(f) : g[p] = f[p]
      /\ g[Len(f) + 1] = EXT
  BY <1>1, AppendProperties DEF Files
<1> HIDE DEF g
<1>3. \A p \in 1 .. Len(g) : p \in 1 .. Len(f) \/ p = Len(f) + 1
  BY <1>1, <1>2
<1>4. \A p \in 1 .. Len(f) : p \in 1 .. Len(g)
  BY <1>1, <1>2
<1>5. Of(g) = Of(f)
  <2>1. Of(g) = {g[p] : p \in 1 .. Len(g)} \ {EXT} /\ Of(f) = {f[p] : p \in 1 .. Len(f)} \ {EXT}
    BY <1>2, OfFile
  <2>2. ASSUME NEW c \in Of(g) PROVE c \in Of(f)
    <3>1. PICK p \in 1 .. Len(g) : c = g[p] /\ c # EXT
      BY <2>1, <2>2
    <3> QED BY <1>2, <1>3, <2>1, <3>1
  <2>3. ASSUME NEW c \in Of(f) PROVE c \in Of(g)
    <3>1. PICK p \in 1 .. Len(f) : c = f[p] /\ c # EXT
      BY <2>1, <2>3
    <3> QED BY <1>2, <1>4, <2>1, <3>1
  <2> QED BY <2>2, <2>3
<1>6. Ordered(f) => Ordered(g)
  <2>1. f # NONE
    BY SzFile
  <2> QED BY <1>2, <1>3, <2>1 DEF Ordered
<1> QED BY <1>2, <1>5, <1>6 DEF g

\* A file that stays, is emptied or goes away disturbs no order.
LEMMA Thinned ==
  ASSUME TypeOK, OrderInv, UNCHANGED lines, pc' # "writev",
         \A i \in Names : files'[i] \in {files[i], NONE, <<>>},
         fd'.open /\ ~fd'.append => \A p \in fd'.off + 1 .. Size' : files'[0][p] = EXT
  PROVE  OrderInv'
<1>1. \A i \in Names : Ordered(files'[i]) /\ Of(files'[i]) \subseteq Of(files[i])
  BY OfFile DEF OrderInv
<1>2. \A i \in Names : \A c \in Of(files'[i]) : c <= lines'
  BY <1>1 DEF OrderInv
<1>3. \A i, j \in Names : i > j => Before(files'[i], files'[j])
  BY <1>1 DEF OrderInv, Before
<1> QED BY <1>1, <1>2, <1>3 DEF OrderInv

\* At the start there is no file and no line.
LEMMA OrderInitially == Init => OrderInv
<1> SUFFICES ASSUME Init PROVE OrderInv
  OBVIOUS
<1>1. /\ \A i \in Names : files[i] = NONE
      /\ pc = "down" /\ ~fd.open
  BY DEF Init, Closed
<1> QED BY <1>1, OfFile DEF OrderInv, Before

\* Every step keeps the order.
LEMMA OrderKept ==
  ASSUME IInv, IInv', OrderInv, [Next]_vars
  PROVE  OrderInv'
<1>1. TypeOK /\ Shape /\ TypeOK'
  BY DEF IInv
<1>2. CASE Write
  <2>1. /\ pc = "idle" /\ lines' = lines + 1 /\ lines \in Nat /\ UNCHANGED <<files, fd>>
        /\ Size' = Size
    BY <1>1, <1>2 DEF Write, fixed, TypeOK, Size
  <2>2. pc' = "writev" => \A p \in 1 .. Len(pending') : pending'[p] = lines'
    <3>1. CASE ~fd.open /\ UNCHANGED pc
      BY <2>1, <3>1
    <3>2. ASSUME NEW n \in Lengths, pending' = [i \in 1 .. n |-> lines + 1]
          PROVE  \A p \in 1 .. Len(pending') : pending'[p] = lines'
      <4>1. n \in Nat
        BY Greatest
      <4> QED BY <2>1, <3>2, <4>1
    <3> QED BY <1>2, <3>1, <3>2 DEF Write
  <2>3. \A i \in Names : \A c \in Of(files[i]) : c <= lines /\ c \in Nat
    <3>1. \A i \in Names : files[i] \in Files \cup {NONE}
      BY <1>1, StateTypes
    <3>2. \A f \in Files \cup {NONE} : Of(f) \subseteq Nat
      <4>1. \A f \in Files : \A p \in 1 .. Len(f) : f[p] \in Nat
        BY ElementOfSeq, ConstantsAssumption DEF Files, Cells
      <4> QED BY <4>1, OfFile
    <3> QED BY <3>1, <3>2 DEF OrderInv
  <2>4. \A i \in Names : \A c \in Of(files[i]) : c < lines' /\ c <= lines'
    BY <2>1, <2>3
  <2> QED BY <2>1, <2>2, <2>4 DEF OrderInv
<1>3. CASE Writev
  <2>1. PICK k \in 1 .. Len(pending) :
          /\ files' = [files EXCEPT ![0] = PutAt(files[0], Offset, SubSeq(pending, 1, k))]
          /\ fd' = [fd EXCEPT !.off = Offset + k]
          /\ pending' = SubSeq(pending, k + 1, Len(pending))
          /\ pc' = IF k < Len(pending) THEN "writev" ELSE AfterWritev
    BY <1>3 DEF Writev
  <2>2. /\ pc = "writev" /\ fd.open /\ files[0] \in Files /\ UNCHANGED lines /\ 0 \in Names
        /\ files[0] # NONE
    BY <1>1, <1>3, Greatest DEF Writev, Shape, TypeOK, Files
  <2>3. /\ Size = Len(files[0]) /\ Content(0) = files[0] /\ Size \in Nat
        /\ pending \in Seq(Cells) /\ k \in 0 .. Len(pending) /\ Len(pending) \in Nat
    BY <1>1, <2>2, SzFile, StateTypes DEF Size, Content, Files
  <2>4. Offset \in 0 .. Len(files[0]) /\ \A p \in Offset + 1 .. Len(files[0]) : files[0][p] = EXT
    <3>1. CASE fd.append
      BY <2>3, <3>1 DEF Offset
    <3>2. CASE ~fd.append
      <4>1. fd.off \in Nat /\ Offset = fd.off
        BY <1>1, <3>2 DEF Offset, TypeOK
      <4>2. fd.off <= Size /\ \A p \in fd.off + 1 .. Size : files[0][p] = EXT
        BY <1>1, <2>2, <3>2 DEF Shape, OrderInv
      <4> QED BY <2>3, <4>1, <4>2
    <3> QED BY <3>1, <3>2
  <2> DEFINE d == SubSeq(pending, 1, k)
             g == PutAt(files[0], Offset, d)
  <2>5. d \in Files /\ Len(d) = k /\ \A p \in 1 .. k : d[p] = lines
    <3>1. \A p \in 1 .. Len(pending) : pending[p] = lines
      BY <2>2 DEF OrderInv
    <3>2. d \in Seq(Cells) /\ Len(d) = k
      BY <2>3, SplitAt
    <3>3. \A p \in 1 .. k : d[p] = pending[p] /\ p \in 1 .. Len(pending)
      BY <2>3
    <3> QED BY <3>1, <3>2, <3>3 DEF Files
  <2>6. \A p \in 1 .. Len(pending') : pending'[p] = lines
    <3>1. \A p \in 1 .. Len(pending) : pending[p] = lines
      BY <2>2 DEF OrderInv
    <3>2. Len(pending') = Len(pending) - k
      BY <2>1, <2>3, SplitAt
    <3>3. \A p \in 1 .. Len(pending) - k : pending'[p] = pending[k + p] /\ k + p \in 1 .. Len(pending)
      BY <2>1, <2>3
    <3> QED BY <3>1, <3>2, <3>3
  <2>7. lines \in Nat \ {0} /\ Ordered(files[0]) /\ \A c \in Of(files[0]) : c <= lines
    BY <1>1, <2>2 DEF TypeOK, OrderInv
  <2> HIDE DEF d
  <2>8. /\ Ordered(g) /\ Of(g) \subseteq Of(files[0]) \cup {lines}
        /\ \A p \in Offset + k + 1 .. Len(g) : g[p] = EXT
        /\ g \in Files
    BY <2>2, <2>4, <2>5, <2>7, PutAtOrder, PutAtProperties
  <2>9. files' = [files EXCEPT ![0] = g]
    BY <2>1 DEF d
  <2> HIDE DEF g
  <2>10. /\ files'[0] = g /\ Size' = Len(g) /\ \A i \in Names : i # 0 => files'[i] = files[i]
    BY <1>1, <2>2, <2>8, <2>9, SzFile DEF TypeOK, Size
  <2>11. \A i \in Names : i # 0 => \A c \in Of(files'[i]) : c < lines
    BY <2>2, <2>10 DEF OrderInv
  <2>12. \A i, j \in Names : i > j => Before(files'[i], files'[j])
    <3> SUFFICES ASSUME NEW i \in Names, NEW j \in Names, i > j
                 PROVE  Before(files'[i], files'[j])
      OBVIOUS
    <3>1. i # 0
      BY Greatest
    <3>2. CASE j = 0
      <4>1. Before(files[i], files[0])
        BY <2>2, <3>2 DEF OrderInv
      <4>2. \A c \in Of(files[i]) : c < lines
        BY <2>10, <2>11, <3>1
      <4> QED BY <2>8, <2>10, <3>1, <3>2, <4>1, <4>2 DEF Before
    <3>3. CASE j # 0
      BY <2>10, <3>1, <3>3 DEF OrderInv
    <3> QED BY <3>2, <3>3
  <2>13. \A i \in Names : Ordered(files'[i]) /\ \A c \in Of(files'[i]) : c <= lines
    BY <2>7, <2>8, <2>10 DEF OrderInv
  <2>14. \A p \in fd'.off + 1 .. Size' : files'[0][p] = EXT
    <3>1. fd'.off = Offset + k
      BY <1>1, <2>1 DEF TypeOK
    <3> QED BY <2>8, <2>10, <3>1
  <2> QED BY <2>2, <2>6, <2>7, <2>11, <2>12, <2>13, <2>14 DEF OrderInv
<1>4. CASE WritevFails \/ Close \/ Crash \/ Destroy
  <2>1. UNCHANGED <<lines, files>> /\ pc' # "writev" /\ (UNCHANGED fd \/ fd' = Closed)
    BY <1>4 DEF WritevFails, Close, Crash, Destroy, fixed, bounds, AfterWritev
  <2>2. fd'.open /\ ~fd'.append => \A p \in fd'.off + 1 .. Size' : files'[0][p] = EXT
    BY <2>1 DEF OrderInv, Size, Closed
  <2> QED BY <1>1, <2>1, <2>2, Thinned
<1>5. CASE Construct
  <2>1. UNCHANGED lines /\ pc' # "writev" /\ (fd'.append \/ ~fd'.open)
    BY <1>5 DEF Construct, Closed
  <2>2. \A i \in Names : files'[i] \in {files[i], <<>>}
    BY <1>1, <1>5 DEF Construct, Content, TypeOK
  <2> QED BY <1>1, <2>1, <2>2, Thinned
<1>6. CASE RemoveEldest \/ UnlinkBase
  <2>1. UNCHANGED lines /\ pc' # "writev" /\ ~fd'.open
    BY <1>1, <1>6 DEF RemoveEldest, UnlinkBase, Shape
  <2>2. \A i \in Names : files'[i] \in {files[i], NONE}
    BY <1>1, <1>6 DEF RemoveEldest, UnlinkBase, Evict, UnlinkFails, TypeOK
  <2> QED BY <1>1, <2>1, <2>2, Thinned
<1>7. CASE Reopen
  <2>1. UNCHANGED lines /\ pc' # "writev" /\ ~fd.open
    BY <1>1, <1>7 DEF Reopen, Shape
  <2>2. \A i \in Names : files'[i] \in {files[i], <<>>}
    BY <1>1, <1>7 DEF Reopen, TypeOK
  <2>3. CASE files' = [files EXCEPT ![0] = <<>>]
    <3>1. files'[0] = <<>> /\ Len(<<>>) = 0
      BY <1>1, <2>3, Greatest DEF TypeOK
    <3>2. Size' = 0
      BY <3>1 DEF Size, Sz
    <3>3. fd'.off \in Nat
      BY <1>1 DEF TypeOK
    <3>4. fd'.off + 1 .. Size' = {}
      BY <3>2, <3>3
    <3> QED BY <1>1, <2>1, <2>2, <3>4, Thinned
  <2>4. CASE UNCHANGED fd
    BY <1>1, <2>1, <2>2, <2>4, Thinned
  <2> QED BY <1>7, <2>3, <2>4 DEF Reopen
<1>8. CASE Shift \/ RenameBase
  <2>1. PICK from \in Names, to \in Names :
           from \in Nat /\ to = from + 1 /\ to < maxFiles /\ Rename(from, to)
    <3>1. CASE Shift
      <4>1. shift \in Nat /\ shift >= 2 /\ shift < maxFiles /\ Rename(shift - 1, shift)
            /\ shift \in 0 .. Max(FileCounts) /\ Max(FileCounts) \in Nat
        BY <1>1, <3>1, StateTypes, Greatest DEF Shift, Shape, TypeOK, Names
      <4>2. /\ shift - 1 \in 0 .. Max(FileCounts) /\ shift - 1 \in Nat
            /\ shift = (shift - 1) + 1
        BY <4>1
      <4> QED BY <4>1, <4>2 DEF Names
    <3>2. CASE RenameBase
      <4>1. maxFiles >= 2 /\ maxFiles \in Nat /\ maxFiles - 1 \in 0 .. Max(FileCounts)
            /\ Max(FileCounts) \in Nat /\ Rename(0, 1)
        BY <1>1, <3>2, StateTypes, Greatest DEF RenameBase, Shape, Names
      <4>2. 0 \in 0 .. Max(FileCounts) /\ 1 \in 0 .. Max(FileCounts) /\ 1 < maxFiles /\ 1 = 0 + 1
        BY <4>1
      <4> QED BY <4>1, <4>2 DEF Names
    <3> QED BY <1>8, <3>1, <3>2
  <2>2. UNCHANGED lines /\ pc' # "writev" /\ ~fd'.open
    BY <1>1, <1>8 DEF Shift, RenameBase, Shape
  <2>3. \/ /\ files'[to] = files[from] /\ files'[from] = NONE
           /\ \A i \in Names : i \notin {from, to} => files'[i] = files[i]
        \/ UNCHANGED files
    BY <1>1, <2>1, RenameCases
  <2>4. CASE UNCHANGED files
    BY <1>1, <2>2, <2>4, Thinned
  <2>5. CASE /\ files'[to] = files[from] /\ files'[from] = NONE
             /\ \A i \in Names : i \notin {from, to} => files'[i] = files[i]
    <3>1. \A i \in Names : Ordered(files'[i]) /\ \A c \in Of(files'[i]) : c <= lines
      BY <2>5, OfFile DEF OrderInv
    <3>2. ASSUME NEW i \in Names, NEW j \in Names, i > j
          PROVE  Before(files'[i], files'[j])
      <4>1. i \in Nat /\ j \in Nat
        BY Greatest
      <4>2. CASE i = from \/ j = from
        BY <2>5, <4>2, OfFile DEF Before
      <4>3. CASE i = to /\ j # from
        <5>1. from > j /\ j # to
          BY <2>1, <3>2, <4>1, <4>3
        <5> QED BY <2>5, <4>3, <5>1 DEF OrderInv
      <4>4. CASE j = to /\ i # from
        <5>1. i > from /\ i # to
          BY <2>1, <3>2, <4>1, <4>4
        <5> QED BY <2>5, <4>4, <5>1 DEF OrderInv
      <4>5. CASE i \notin {from, to} /\ j \notin {from, to}
        BY <2>5, <3>2, <4>5 DEF OrderInv
      <4> QED BY <4>2, <4>3, <4>4, <4>5
    <3> QED BY <2>2, <3>1, <3>2 DEF OrderInv
  <2> QED BY <2>3, <2>4, <2>5
<1>9. CASE ExternalAppend
  <2> DEFINE g == Append(Content(0), EXT)
  <2>1. /\ files' = [files EXCEPT ![0] = g] /\ Content(0) \in Files /\ 0 \in Names
        /\ UNCHANGED <<pc, fd, pending, lines>>
    BY <1>1, <1>9, StateTypes, Greatest DEF ExternalAppend
  <2>2. /\ Ordered(Content(0)) => Ordered(g)
        /\ Of(g) = Of(Content(0)) /\ Len(g) = Len(Content(0)) + 1 /\ g \in Files
        /\ \A p \in 1 .. Len(Content(0)) : g[p] = Content(0)[p]
        /\ g[Len(Content(0)) + 1] = EXT
    BY <2>1, AppendOrder
  <2> HIDE DEF g
  <2>3. Ordered(Content(0)) /\ Of(Content(0)) = Of(files[0])
    BY <2>1, OfFile DEF OrderInv, Content
  <2>4. /\ files'[0] = g /\ Size' = Len(g) /\ \A i \in Names : i # 0 => files'[i] = files[i]
    BY <1>1, <2>1, <2>2, SzFile DEF TypeOK, Size
  <2>5. \A i \in Names : Ordered(files'[i]) /\ Of(files'[i]) = Of(files[i])
    BY <2>2, <2>3, <2>4 DEF OrderInv
  <2>6. fd.open /\ ~fd.append => \A p \in fd.off + 1 .. Size' : files'[0][p] = EXT
    <3> SUFFICES ASSUME fd.open, ~fd.append, NEW p \in fd.off + 1 .. Size'
                 PROVE  files'[0][p] = EXT
      OBVIOUS
    <3>1. /\ fd.off \in Nat /\ files[0] # NONE /\ Content(0) = files[0]
          /\ Size = Len(Content(0)) /\ Size \in Nat
      BY <1>1, <2>1, StateTypes DEF Shape, TypeOK, Content, Size
    <3>2. p \in 1 .. Size + 1 /\ p >= fd.off + 1
      BY <2>2, <2>4, <3>1
    <3>3. CASE p = Size + 1
      BY <2>2, <2>4, <3>1, <3>3
    <3>4. CASE p # Size + 1
      <4>1. p \in 1 .. Size /\ p \in fd.off + 1 .. Size
        BY <3>1, <3>2, <3>4
      <4>2. files[0][p] = EXT
        BY <4>1 DEF OrderInv
      <4> QED BY <2>2, <2>4, <3>1, <4>1, <4>2
    <3> QED BY <3>3, <3>4
  <2> QED BY <2>1, <2>5, <2>6 DEF OrderInv, Before
<1>10. CASE UNCHANGED vars
  BY <1>10 DEF vars, OrderInv, Size
<1> QED BY <1>2, <1>3, <1>4, <1>5, <1>6, <1>7, <1>8, <1>9, <1>10 DEF Next, Step, Idle

-----------------------------------------------------------------------------
(* The theorems                                                            *)

\* Every step keeps the invariant.
LEMMA Preservation == IInv /\ [Next]_vars => IInv'
<1> SUFFICES ASSUME IInv, [Next]_vars PROVE IInv'
  OBVIOUS
<1>1. CASE Construct
  BY <1>1, ConstructStep
<1>2. CASE Writev
  BY <1>2, WritevStep
<1>3. CASE WritevFails
  BY <1>3, WritevFailsStep
<1>4. CASE Close
  BY <1>4, CloseStep
<1>5. CASE RemoveEldest
  BY <1>5, RemoveEldestStep
<1>6. CASE Shift
  BY <1>6, ShiftStep
<1>7. CASE RenameBase
  BY <1>7, RenameBaseStep
<1>8. CASE UnlinkBase
  BY <1>8, UnlinkStep
<1>9. CASE Reopen
  BY <1>9, ReopenStep
<1>10. CASE Write
  BY <1>10, WriteStep
<1>11. CASE Crash \/ Destroy
  BY <1>11, EndStep
<1>12. CASE ExternalAppend
  BY <1>12, ExternalStep
<1>13. CASE UNCHANGED vars
  BY <1>13 DEF vars, IInv, TypeOK, Shape, CounterInv, GrowthInv, EvictionInv, Size, Allowed,
               Undone, Undisturbed, Full, Gap, Rotated
<1> QED BY <1>1, <1>2, <1>3, <1>4, <1>5, <1>6, <1>7, <1>8, <1>9, <1>10, <1>11, <1>12, <1>13
           DEF Next, Step, Idle

\* The inductive invariant holds in every reachable state.
THEOREM Invariance == Spec => []IInv
BY Initially, Preservation, PTL DEF Spec

\* The variables stay in their ranges, and no file ever exists beyond max_files:
\* the rename chain of rotate_locked() begins at the eldest index.
THEOREM TypeCorrect == Spec => []TypeOK
<1>1. IInv => TypeOK
  BY DEF IInv
<1> QED BY <1>1, Invariance, PTL

\* How far a file may exceed max_bytes: by less than the longest line, the foreign
\* bytes, and a line for every process death and, once a rotation has failed to
\* rename or unlink the active file, for every destruction of the sink.
THEOREM FilesBounded == Spec => []GrowthBound
<1>1. ASSUME IInv PROVE GrowthBound
  <2>1. TypeOK /\ GrowthInv
    BY <1>1 DEF IInv
  <2>2. /\ Undone \in Nat /\ Longest \in Nat /\ MaxBytes \in Nat /\ ext \in Nat
        /\ \A i \in Names : Len(Content(i)) = Sz(files[i]) /\ Sz(files[i]) \in Nat
    BY <2>1, StateTypes, Greatest
  <2>3. Undone * Longest \in Nat /\ (1 + Undone) * Longest = Undone * Longest + Longest
    BY <2>2, Times
  <2>4. Allowed + Longest = MaxBytes + (1 + Undone) * Longest + ext
    BY <2>2, <2>3 DEF Allowed
  <2>5. \A i \in Names : Len(Content(i)) < Allowed + Longest
    BY <2>1, <2>2 DEF GrowthInv
  <2> QED BY <2>4, <2>5 DEF GrowthBound, Longest
<1> QED BY <1>1, Invariance, PTL

\* bytes_written_ never falls behind what the sink put into the active file, so a
\* rotation is never late, whatever writev did with the lines.
THEOREM CounterCovers == Spec => []CounterCoversFile
<1>1. ASSUME IInv PROVE CounterCoversFile
  <2> SUFFICES ASSUME pc = "idle", fd.open PROVE bytes + ext >= Len(Content(0))
    BY DEF CounterCoversFile
  <2>1. pending = <<>> /\ bytes + ext >= Size + Len(pending)
    BY <1>1 DEF IInv, Shape, CounterInv
  <2>2. Size \in Nat /\ Len(Content(0)) = Size /\ Len(pending) = 0
    BY <1>1, <2>1, StateTypes, Greatest DEF IInv, Size
  <2> QED BY <2>1, <2>2
<1> QED BY <1>1, Invariance, PTL

\* Across any number of destructions and new sinks, and left in peace, the sink
\* drops its eldest file only when all the others are there and full.
THEOREM EvictsOnlyWhenFull == Spec => []NoPrematureEviction
<1>1. ASSUME IInv PROVE NoPrematureEviction
  <2> SUFFICES ASSUME pc = "idle", evicted > 0, Undisturbed, NEW i \in Rotated
               PROVE  Len(Content(i)) >= MaxBytes
    BY DEF NoPrematureEviction, Undisturbed, Rotated
  <2>1. TypeOK /\ EvictionInv
    BY <1>1 DEF IInv
  <2>2. i \in Names /\ i # 0 /\ maxFiles >= 2 /\ Len(Content(i)) = Sz(files[i])
    <3>1. i \in Names /\ i \in Nat /\ 1 <= i /\ i < maxFiles /\ maxFiles \in Nat
      BY <2>1, RotatedNames, StateTypes
    <3> QED BY <2>1, <3>1, StateTypes
  <2>3. files[i] # NONE
    BY <2>1, <2>2 DEF EvictionInv, Gap
  <2> QED BY <2>1, <2>2, <2>3 DEF EvictionInv, Full
<1> QED BY <1>1, Invariance, PTL

\* Whatever fails, short and failing writes, unlinks, renames, openings, deaths of
\* the process and foreign bytes: the sink's bytes that are left are in order within
\* every file and from the eldest file to the active one, and no line is in two.
THEOREM OrderSurvives == Spec => []LinesInOrder
<1>1. Init => OrderInv
  BY OrderInitially
<1>2. IInv /\ IInv' /\ OrderInv /\ [Next]_vars => OrderInv'
  BY OrderKept
<1>3. ASSUME IInv, OrderInv PROVE LinesInOrder
  <2>1. ASSUME NEW i \in Names
        PROVE  /\ Content(i) \in Files /\ DOMAIN Content(i) = 1 .. Len(Content(i))
               /\ Content(i) # NONE /\ Own(i) = Of(files[i]) /\ Ordered(Content(i))
    <3>1. Content(i) \in Files /\ files[i] \in Files \cup {NONE}
      BY <1>3, StateTypes DEF IInv
    <3>2. DOMAIN Content(i) = 1 .. Len(Content(i)) /\ Content(i) # NONE
      BY <3>1, SzFile, LenProperties DEF Files
    <3>3. Of(Content(i)) = Of(files[i]) /\ Ordered(Content(i))
      BY <1>3, OfFile DEF OrderInv, Content
    <3> QED BY <3>1, <3>2, <3>3 DEF Own, Of
  <2>2. \A i \in Names : \A p, q \in DOMAIN Content(i) :
           p < q /\ EXT \notin {Content(i)[p], Content(i)[q]}
             => Content(i)[p] <= Content(i)[q]
    BY <2>1 DEF Ordered
  <2>3. \A i, j \in Names : i > j => \A c \in Own(i), d \in Own(j) : c < d
    BY <1>3, <2>1 DEF OrderInv, Before
  <2> QED BY <2>2, <2>3 DEF LinesInOrder
<1> QED BY <1>1, <1>2, <1>3, Invariance, PTL DEF Spec

-----------------------------------------------------------------------------
(* The sink's own bytes of a file                                          *)

\* Every byte of a file as a sequence of its own, a foreign one as none.
Pieces(f) == [p \in 1 .. Len(f) |-> IF f[p] = EXT THEN <<>> ELSE <<f[p]>>]

\* The sink's own bytes are the pieces joined; all of them are of lines the file
\* holds.
LEMMA OwnIsJoined ==
  ASSUME NEW f \in Files
  PROVE  /\ Pieces(f) \in Seq(Seq(Of(f))) /\ Len(Pieces(f)) = Len(f)
         /\ OwnOf(f) = FlattenSeq(Pieces(f)) /\ OwnOf(f) \in Seq(Of(f))
<1> DEFINE n == Len(f)
           ss == Pieces(f)
           Rec(g) == [i \in 0 .. Len(f) |->
                        IF i = 0 THEN <<>>
                        ELSE IF f[i] = EXT THEN g[i - 1] ELSE Append(g[i - 1], f[i])]
           own == CHOOSE g : g = Rec(g)
<1>1. n \in Nat /\ \A i \in 1 .. n : f[i] # EXT => f[i] \in Of(f)
  BY OfFile, LenProperties DEF Files
<1>2. ss \in Seq(Seq(Of(f))) /\ Len(ss) = n
  <2>1. \A i \in 1 .. n : (IF f[i] = EXT THEN <<>> ELSE <<f[i]>>) \in Seq(Of(f))
    BY <1>1
  <2> QED BY <1>1, <2>1 DEF Pieces
<1>3. PICK h \in [0 .. Len(ss) -> Seq(Of(f))] :
           /\ h[0] = <<>>
           /\ \A i \in 1 .. Len(ss) : h[i] = h[i - 1] \o ss[i]
           /\ FlattenSeq(ss) = h[Len(ss)]
  BY <1>2, FlattenSteps
<1>4. ASSUME NEW i \in 1 .. n
      PROVE  h[i] = IF f[i] = EXT THEN h[i - 1] ELSE Append(h[i - 1], f[i])
  <2>1. h[i - 1] \in Seq(Of(f)) /\ h[i] = h[i - 1] \o ss[i]
    <3>1. i - 1 \in 0 .. Len(ss) /\ i \in 1 .. Len(ss)
      BY <1>1, <1>2
    <3> QED BY <1>3, <3>1
  <2>2. CASE f[i] = EXT
    <3>1. ss[i] = <<>>
      BY <2>2 DEF Pieces
    <3> QED BY <2>1, <2>2, <3>1, ConcatEmptySeq
  <2>3. CASE f[i] # EXT
    <3>1. ss[i] = <<f[i]>> /\ f[i] \in Of(f)
      BY <1>1, <2>3 DEF Pieces
    <3>2. Append(h[i - 1], f[i]) = h[i - 1] \o <<f[i]>>
      BY <2>1, <3>1, AppendIsConcat
    <3> QED BY <2>1, <2>3, <3>1, <3>2
  <2> QED BY <2>2, <2>3
<1>5. h = Rec(h)
  <2>1. \A i \in 0 .. n : h[i] = Rec(h)[i]
    BY <1>1, <1>3, <1>4
  <2> QED BY <1>2, <1>3, <2>1
<1>6. \A i \in 0 .. n : own[i] = Rec(own)[i]
  <2>1. own = Rec(own)
    BY <1>5
  <2> QED BY <2>1
<1>7. OwnOf(f) = own[n]
  BY DEF OwnOf
<1> HIDE DEF own, ss
<1> DEFINE G == {i \in 0 .. n : own[i] = h[i]}
<1>8. \A i \in 0 .. n : i \in G
  <2>1. 0 \in G
    BY <1>1, <1>3, <1>6
  <2>2. ASSUME NEW i \in 0 .. n, i < n, i \in G PROVE i + 1 \in G
    <3>1. i + 1 \in 1 .. n /\ i + 1 \in 0 .. n /\ i + 1 # 0 /\ (i + 1) - 1 = i
      BY <1>1, <2>2
    <3>2. own[i + 1] = IF f[i + 1] = EXT THEN own[i] ELSE Append(own[i], f[i + 1])
      BY <1>6, <3>1
    <3>3. h[i + 1] = IF f[i + 1] = EXT THEN h[i] ELSE Append(h[i], f[i + 1])
      BY <1>4, <3>1
    <3> QED BY <2>2, <3>1, <3>2, <3>3
  <2> HIDE DEF G, n
  <2> QED BY <1>1, <2>1, <2>2, IntervalInduction
<1>9. own[n] = h[n] /\ h[n] \in Seq(Of(f))
  BY <1>1, <1>2, <1>3, <1>8
<1> QED BY <1>2, <1>3, <1>7, <1>9 DEF ss

\* The sink's bytes of a file in two parts.
LEMMA OwnConcat ==
  ASSUME NEW f \in Files, NEW g \in Files
  PROVE  f \o g \in Files /\ OwnOf(f \o g) = OwnOf(f) \o OwnOf(g)
<1> DEFINE S == Of(f) \cup Of(g)
           c == f \o g
<1>1. /\ c \in Files /\ Len(c) = Len(f) + Len(g) /\ Len(f) \in Nat /\ Len(g) \in Nat
      /\ \A i \in 1 .. Len(f) + Len(g) : c[i] = IF i <= Len(f) THEN f[i] ELSE g[i - Len(f)]
  BY ConcatProperties, LenProperties DEF Files
<1>2. /\ Pieces(f) \in Seq(Seq(S)) /\ Len(Pieces(f)) = Len(f)
      /\ Pieces(g) \in Seq(Seq(S)) /\ Len(Pieces(g)) = Len(g)
  <2>1. Seq(Of(f)) \subseteq Seq(S) /\ Seq(Of(g)) \subseteq Seq(S)
    OBVIOUS
  <2>2. Seq(Seq(Of(f))) \subseteq Seq(Seq(S)) /\ Seq(Seq(Of(g))) \subseteq Seq(Seq(S))
    BY <2>1
  <2> QED BY <2>2, OwnIsJoined
<1> HIDE DEF S, c
<1>3. Pieces(c) = Pieces(f) \o Pieces(g)
  <2>1. /\ Pieces(f) \o Pieces(g) \in Seq(Seq(S))
        /\ Len(Pieces(f) \o Pieces(g)) = Len(f) + Len(g)
        /\ \A i \in 1 .. Len(f) + Len(g) :
              (Pieces(f) \o Pieces(g))[i]
                = IF i <= Len(f) THEN Pieces(f)[i] ELSE Pieces(g)[i - Len(f)]
    <3> DEFINE T == Seq(S)
    <3>1. \A x, y \in Seq(T) :
             /\ x \o y \in Seq(T) /\ Len(x \o y) = Len(x) + Len(y)
             /\ \A i \in 1 .. Len(x) + Len(y) :
                   (x \o y)[i] = IF i <= Len(x) THEN x[i] ELSE y[i - Len(x)]
      BY ConcatProperties
    <3>2. Pieces(f) \in Seq(T) /\ Pieces(g) \in Seq(T)
      BY <1>2
    <3> HIDE DEF T
    <3>3. /\ Pieces(f) \o Pieces(g) \in Seq(T)
          /\ Len(Pieces(f) \o Pieces(g)) = Len(Pieces(f)) + Len(Pieces(g))
          /\ \A i \in 1 .. Len(Pieces(f)) + Len(Pieces(g)) :
                (Pieces(f) \o Pieces(g))[i]
                  = IF i <= Len(Pieces(f)) THEN Pieces(f)[i] ELSE Pieces(g)[i - Len(Pieces(f))]
      BY <3>1, <3>2
    <3> QED BY <1>2, <3>3 DEF T
  <2>2. Pieces(c) \in Seq(Seq(Of(c))) /\ Len(Pieces(c)) = Len(f) + Len(g)
    BY <1>1, OwnIsJoined
  <2>3. ASSUME NEW i \in 1 .. Len(f) + Len(g)
        PROVE  Pieces(c)[i] = (Pieces(f) \o Pieces(g))[i]
    <3>1. Pieces(c)[i] = IF c[i] = EXT THEN <<>> ELSE <<c[i]>>
      BY <1>1 DEF Pieces
    <3>2. CASE i <= Len(f)
      <4>1. i \in 1 .. Len(f)
        BY <1>1, <3>2
      <4>2. Pieces(f)[i] = IF f[i] = EXT THEN <<>> ELSE <<f[i]>>
        BY <4>1 DEF Pieces
      <4> QED BY <1>1, <2>1, <3>1, <3>2, <4>2
    <3>3. CASE ~(i <= Len(f))
      <4>1. i - Len(f) \in 1 .. Len(g)
        BY <1>1, <3>3
      <4>2. Pieces(g)[i - Len(f)] = IF g[i - Len(f)] = EXT THEN <<>> ELSE <<g[i - Len(f)]>>
        BY <4>1 DEF Pieces
      <4> QED BY <1>1, <2>1, <3>1, <3>3, <4>2
    <3> QED BY <3>2, <3>3
  <2>4. Pieces(c) \in Seq(Seq(Of(c)) \cup Seq(S)) /\ Pieces(f) \o Pieces(g) \in Seq(Seq(Of(c)) \cup Seq(S))
    BY <2>1, <2>2
  <2> QED BY <2>1, <2>2, <2>3, <2>4, SeqEqual
<1>4. FlattenSeq(Pieces(f) \o Pieces(g)) = FlattenSeq(Pieces(f)) \o FlattenSeq(Pieces(g))
  BY <1>2, FlattenConcat
<1> QED BY <1>1, <1>3, <1>4, OwnIsJoined DEF c

\* A file of foreign bytes only, and one of own bytes only.
LEMMA OwnExtremes ==
  /\ OwnOf(<<>>) = <<>>
  /\ \A f \in Files : Of(f) = {} => OwnOf(f) = <<>>
  /\ \A f \in Files : EXT \notin {f[p] : p \in 1 .. Len(f)} => OwnOf(f) = f
<1>1. ASSUME NEW f \in Files, Of(f) = {} PROVE OwnOf(f) = <<>>
  <2>1. OwnOf(f) \in Seq({})
    BY <1>1, OwnIsJoined
  <2> QED BY <2>1
<1>2. OwnOf(<<>>) = <<>>
  <2>1. <<>> \in Files
    BY DEF Files
  <2> QED BY <1>1, <2>1, OfFile
<1>3. ASSUME NEW f \in Files, EXT \notin {f[p] : p \in 1 .. Len(f)} PROVE OwnOf(f) = f
  <2> DEFINE n == Len(f)
             ss == Pieces(f)
             g == [i \in 0 .. n |-> SubSeq(f, 1, i)]
  <2>1. /\ n \in Nat /\ ss \in Seq(Seq(Of(f))) /\ Len(ss) = n /\ OwnOf(f) = FlattenSeq(ss)
        /\ \A i \in 1 .. n : f[i] \in Cells
    BY OwnIsJoined, LenProperties, ElementOfSeq DEF Files
  <2>2. g[0] = <<>>
    <3>1. SubSeq(f, 1, 0) = <<>> /\ 0 \in 0 .. n
      BY <2>1, SubSeqEmpty
    <3> QED BY <3>1
  <2>3. ASSUME NEW i \in 1 .. n PROVE g[i] = g[i - 1] \o ss[i]
    <3>1. ss[i] = <<f[i]>>
      BY <1>3 DEF Pieces
    <3>2. i - 1 \in 0 .. n /\ i \in 0 .. n /\ i - 1 \in 0 .. Len(f) /\ i \in 0 .. Len(f)
      BY <2>1
    <3> DEFINE a == SubSeq(f, 1, i - 1)
               b == SubSeq(f, 1, i)
    <3>3. a \in Seq(Cells) /\ Len(a) = i - 1 /\ \A p \in 1 .. i - 1 : a[p] = f[p]
      <4>1. \A p \in 1 .. i - 1 : f[p] \in Cells
        BY <2>1, <3>2
      <4> QED BY <2>1, <3>2, <4>1, SubSeqProperties
    <3>4. b \in Seq(Cells) /\ Len(b) = i /\ \A p \in 1 .. i : b[p] = f[p]
      <4>1. \A p \in 1 .. i : f[p] \in Cells
        BY <2>1, <3>2
      <4> QED BY <2>1, <3>2, <4>1, SubSeqProperties
    <3> HIDE DEF a, b
    <3>5. a \o <<f[i]>> = b
      <4>1. <<f[i]>> \in Seq(Cells) /\ Len(<<f[i]>>) = 1 /\ <<f[i]>>[1] = f[i]
        BY <2>1
      <4>2. /\ a \o <<f[i]>> \in Seq(Cells) /\ Len(a \o <<f[i]>>) = i
            /\ \A p \in 1 .. i : (a \o <<f[i]>>)[p] = IF p <= i - 1 THEN a[p] ELSE <<f[i]>>[p - (i - 1)]
        BY <3>2, <3>3, <4>1, ConcatProperties
      <4>3. \A p \in 1 .. i : (a \o <<f[i]>>)[p] = b[p]
        BY <2>1, <3>3, <3>4, <4>1, <4>2
      <4> QED BY <3>4, <4>2, <4>3, SeqEqual
    <3> QED BY <3>1, <3>2, <3>5 DEF a, b
  <2>4. SubSeq(f, 1, n) = f
    BY SubSeqFull DEF Files
  <2>5. g[n] = f
    BY <2>1, <2>4
  <2> HIDE DEF g, ss, n
  <2>6. FlattenSeq(ss) = g[n]
    BY <2>1, <2>2, <2>3, FlattenUnique
  <2> QED BY <2>1, <2>5, <2>6
<1> QED BY <1>1, <1>2, <1>3

\* Where nothing but foreign bytes follows the offset, a write adds its bytes to
\* the sink's own.
LEMMA PutAtOwn ==
  ASSUME NEW f \in Files, NEW d \in Files, NEW off \in 0 .. Len(f),
         \A p \in off + 1 .. Len(f) : f[p] = EXT,
         \A p \in 1 .. Len(d) : d[p] # EXT
  PROVE  OwnOf(PutAt(f, off, d)) = OwnOf(f) \o d
<1> DEFINE x == SubSeq(f, 1, off)
           y == SubSeq(f, off + 1, Len(f))
           z == SubSeq(f, off + Len(d) + 1, Len(f))
<1>1. /\ Len(f) \in Nat /\ Len(d) \in Nat /\ off \in Nat
      /\ \A i \in 1 .. Len(f) : f[i] \in Cells
  BY LenProperties, ElementOfSeq DEF Files
<1>2. x \in Files /\ y \in Files /\ x \o y = f
  BY SplitAt DEF Files
<1>3. z \in Files /\ \A p \in 1 .. Len(z) : z[p] = EXT
  <2>1. \A i \in off + Len(d) + 1 .. Len(f) : f[i] \in Cells /\ f[i] = EXT
    BY <1>1
  <2>2. /\ z \in Seq(Cells)
        /\ Len(z) = IF off + Len(d) + 1 <= Len(f) THEN Len(f) - (off + Len(d) + 1) + 1 ELSE 0
        /\ \A p \in 1 .. Len(z) : z[p] = f[off + Len(d) + p]
    BY <1>1, <2>1, SubSeqProperties
  <2>3. \A p \in 1 .. Len(z) : off + Len(d) + p \in off + Len(d) + 1 .. Len(f)
    BY <1>1, <2>2
  <2> QED BY <2>1, <2>2, <2>3 DEF Files
<1>4. \A p \in 1 .. Len(y) : y[p] = EXT
  <2>1. \A i \in off + 1 .. Len(f) : f[i] \in Cells /\ f[i] = EXT
    BY <1>1
  <2>2. /\ Len(y) = IF off + 1 <= Len(f) THEN Len(f) - (off + 1) + 1 ELSE 0
        /\ \A p \in 1 .. Len(y) : y[p] = f[off + p]
    BY <1>1, <2>1, SubSeqProperties
  <2>3. \A p \in 1 .. Len(y) : off + p \in off + 1 .. Len(f)
    BY <1>1, <2>2
  <2> QED BY <2>1, <2>2, <2>3
<1> HIDE DEF x, y, z
<1>5. OwnOf(y) = <<>> /\ OwnOf(z) = <<>> /\ OwnOf(d) = d
  <2>1. Of(y) = {} /\ Of(z) = {}
    BY <1>2, <1>3, <1>4, OfFile
  <2> QED BY <1>2, <1>3, <2>1, OwnExtremes
<1>6. OwnOf(x) \in Files
  <2>1. Of(x) \subseteq Cells
    <3>1. \A p \in 1 .. Len(x) : x[p] \in Cells
      BY <1>2, ElementOfSeq DEF Files
    <3> QED BY <1>2, <3>1, OfFile
  <2> QED BY <1>2, <2>1, OwnIsJoined DEF Files
<1>c. \A g, h \in Files : g \o h \in Files /\ OwnOf(g \o h) = OwnOf(g) \o OwnOf(h)
  BY OwnConcat
<1>e. x \in Files /\ y \in Files
  BY <1>2
<1>7. OwnOf(f) = OwnOf(x)
  <2>1. OwnOf(x \o y) = OwnOf(x) \o <<>>
    <3>1. OwnOf(x \o y) = OwnOf(x) \o OwnOf(y)
      BY <1>e, <1>c
    <3> QED BY <1>5, <3>1
  <2>2. OwnOf(x) \o <<>> = OwnOf(x)
    BY <1>6, ConcatEmptySeq DEF Files
  <2> QED BY <1>2, <2>1, <2>2
<1>8. x \o d \in Files /\ OwnOf(x \o d) = OwnOf(x) \o d
  <2>1. x \o d \in Files /\ OwnOf(x \o d) = OwnOf(x) \o OwnOf(d)
    BY <1>e, <1>c
  <2> QED BY <1>5, <2>1
<1>9. OwnOf(x \o d \o z) = (OwnOf(x) \o d) \o <<>>
  <2>1. OwnOf((x \o d) \o z) = OwnOf(x \o d) \o OwnOf(z)
    BY <1>3, <1>8, OwnConcat
  <2> QED BY <1>5, <1>8, <2>1
<1>10. OwnOf(x) \o d \in Seq(Cells)
  BY <1>6, ConcatProperties DEF Files
<1>11. PutAt(f, off, d) = x \o d \o z
  BY DEF PutAt, x, z
<1> QED BY <1>7, <1>9, <1>10, <1>11, ConcatEmptySeq

-----------------------------------------------------------------------------
(* The chain of files as one sequence                                      *)

\* The own bytes of the files hi-1 down to lo of a directory, as the chain lists
\* them.
Directories == [Names -> Files \cup {NONE}]
OwnAt(fs, i) == OwnOf(IF fs[i] = NONE THEN <<>> ELSE fs[i])
Links(fs, hi, lo) == [i \in 1 .. hi - lo |-> OwnAt(fs, hi - i)]
Span(fs, hi, lo) == FlattenSeq(Links(fs, hi, lo))

\* The own bytes of one file of a directory.
LEMMA OwnAtType ==
  ASSUME NEW fs \in Directories, NEW i \in Names
  PROVE  /\ OwnAt(fs, i) \in Seq(Of(fs[i])) /\ OwnAt(fs, i) \in Files
         /\ Of(fs[i]) = {} => OwnAt(fs, i) = <<>>
         /\ fs[i] = NONE => OwnAt(fs, i) = <<>>
<1>1. fs[i] \in Files \cup {NONE} /\ <<>> \in Seq(Of(fs[i]))
  BY DEF Directories
<1>2. OwnAt(fs, i) \in Seq(Of(fs[i]))
  BY <1>1, OwnIsJoined, OwnExtremes DEF OwnAt
<1>3. Of(fs[i]) \subseteq Cells
  <2>1. \A f \in Files : \A p \in 1 .. Len(f) : f[p] \in Cells
    BY ElementOfSeq DEF Files
  <2> QED BY <1>1, <2>1, OfFile
<1>4. OwnAt(fs, i) \in Files
  BY <1>2, <1>3 DEF Files
<1>5. Of(fs[i]) = {} => OwnAt(fs, i) = <<>>
  BY <1>1, OwnExtremes DEF OwnAt
<1> QED BY <1>2, <1>4, <1>5, OfFile

\* The types of a part of the chain.
LEMMA SpanType ==
  ASSUME NEW fs \in Directories, NEW hi \in Names, NEW lo \in 0 .. hi, NEW S,
         \A i \in Names : Of(fs[i]) \subseteq S
  PROVE  /\ Links(fs, hi, lo) \in Seq(Seq(S)) /\ Len(Links(fs, hi, lo)) = hi - lo
         /\ Span(fs, hi, lo) \in Seq(S)
         /\ \A i \in 1 .. hi - lo : hi - i \in Names
<1>1. hi \in Nat /\ lo \in Nat /\ hi - lo \in Nat /\ \A i \in 1 .. hi - lo : hi - i \in Names
  BY Greatest DEF Names
<1>2. \A i \in Names : OwnAt(fs, i) \in Seq(S)
  BY OwnAtType
<1>3. Links(fs, hi, lo) \in Seq(Seq(S)) /\ Len(Links(fs, hi, lo)) = hi - lo
  BY <1>1, <1>2 DEF Links
<1> QED BY <1>1, <1>3, FlattenProperties DEF Span

\* The chain in two parts, and a part of one file.
LEMMA SpanSplit ==
  ASSUME NEW fs \in Directories, NEW hi \in Names, NEW lo \in 0 .. hi, NEW k \in lo .. hi
  PROVE  Span(fs, hi, lo) = Span(fs, hi, k) \o Span(fs, k, lo)
<1> DEFINE T == Seq(Cells)
           a == Links(fs, hi, k)
           b == Links(fs, k, lo)
           c == Links(fs, hi, lo)
<1>1. /\ k \in Names /\ k \in 0 .. hi /\ lo \in 0 .. k /\ hi \in Nat /\ lo \in Nat /\ k \in Nat
      /\ hi - k \in Nat /\ k - lo \in Nat /\ (hi - k) + (k - lo) = hi - lo
  BY Greatest DEF Names
<1>2. \A i \in Names : Of(fs[i]) \subseteq Cells
  <2>1. \A f \in Files : \A p \in 1 .. Len(f) : f[p] \in Cells
    BY ElementOfSeq DEF Files
  <2> QED BY <2>1, OfFile DEF Directories
<1>3. /\ a \in Seq(T) /\ b \in Seq(T) /\ c \in Seq(T)
      /\ Len(a) = hi - k /\ Len(b) = k - lo /\ Len(c) = hi - lo
  BY <1>1, <1>2, SpanType
<1>4. /\ \A i \in 1 .. hi - k : a[i] = OwnAt(fs, hi - i)
      /\ \A i \in 1 .. k - lo : b[i] = OwnAt(fs, k - i)
      /\ \A i \in 1 .. hi - lo : c[i] = OwnAt(fs, hi - i)
  BY DEF Links
<1> HIDE DEF a, b, c, T
<1>5. /\ a \o b \in Seq(T) /\ Len(a \o b) = hi - lo
      /\ \A i \in 1 .. hi - lo : (a \o b)[i] = IF i <= hi - k THEN a[i] ELSE b[i - (hi - k)]
  <2>1. /\ a \o b \in Seq(T) /\ Len(a \o b) = Len(a) + Len(b)
        /\ \A i \in 1 .. Len(a) + Len(b) :
              (a \o b)[i] = IF i <= Len(a) THEN a[i] ELSE b[i - Len(a)]
    BY <1>3, ConcatProperties
  <2>2. Len(a) + Len(b) = hi - lo /\ Len(a) = hi - k
    BY <1>1, <1>3
  <2> QED BY <2>1, <2>2
<1>6. ASSUME NEW i \in 1 .. hi - lo PROVE c[i] = (a \o b)[i]
  <2>1. CASE i <= hi - k
    <3>1. i \in 1 .. hi - k
      BY <1>1, <2>1
    <3> QED BY <1>4, <1>5, <2>1, <3>1
  <2>2. CASE ~(i <= hi - k)
    <3>1. i - (hi - k) \in 1 .. k - lo /\ k - (i - (hi - k)) = hi - i
      BY <1>1, <2>2
    <3> QED BY <1>4, <1>5, <2>2, <3>1
  <2> QED BY <2>1, <2>2
<1>7. c = a \o b
  BY <1>3, <1>5, <1>6, SeqEqual
<1>8. FlattenSeq(a \o b) = FlattenSeq(a) \o FlattenSeq(b)
  BY <1>3, FlattenConcat DEF T
<1> QED BY <1>7, <1>8 DEF Span, a, b, c

\* A part of the chain that is a single file, and none.
LEMMA SpanEnds ==
  ASSUME NEW fs \in Directories, NEW k \in Names
  PROVE  /\ Span(fs, k, k) = <<>>
         /\ k + 1 \in Names => Span(fs, k + 1, k) = OwnAt(fs, k)
<1>1. k \in Nat
  BY Greatest
<1>2. Span(fs, k, k) = <<>>
  <2>1. k - k = 0
    BY <1>1
  <2>2. Links(fs, k, k) = <<>>
    BY <2>1 DEF Links
  <2> QED BY <2>2, FlattenProperties DEF Span
<1>3. ASSUME k + 1 \in Names PROVE Span(fs, k + 1, k) = OwnAt(fs, k)
  <2>1. (k + 1) - k = 1 /\ (k + 1) - 1 = k
    BY <1>1
  <2>2. Links(fs, k + 1, k) = <<OwnAt(fs, k)>>
    BY <2>1 DEF Links
  <2>3. OwnAt(fs, k) \in Seq(Of(fs[k]))
    BY OwnAtType
  <2> QED BY <2>2, <2>3, FlattenProperties DEF Span
<1> QED BY <1>2, <1>3

\* A part of the chain depends on its own files only.
LEMMA SpanSame ==
  ASSUME NEW fs \in Directories, NEW gs \in Directories, NEW hi \in Names, NEW lo \in 0 .. hi,
         \A i \in Names : lo <= i /\ i < hi => fs[i] = gs[i]
  PROVE  Span(fs, hi, lo) = Span(gs, hi, lo)
<1>1. hi \in Nat /\ lo \in Nat
  BY Greatest
<1>2. ASSUME NEW i \in 1 .. hi - lo PROVE OwnAt(fs, hi - i) = OwnAt(gs, hi - i)
  <2>1. hi - i \in Names /\ lo <= hi - i /\ hi - i < hi
    BY <1>1, Greatest DEF Names
  <2> QED BY <2>1 DEF OwnAt
<1> QED BY <1>2 DEF Span, Links

\* The retained bytes are the chain of all files.
LEMMA RetainedIsSpan ==
  ASSUME TypeOK
  PROVE  /\ files \in Directories /\ maxFiles \in Names /\ maxFiles \in Nat \ {0}
         /\ OwnBytes = Span(files, maxFiles, 0)
<1>1. files \in Directories
  BY DEF TypeOK, Directories, Files
<1>2. maxFiles \in Nat \ {0} /\ maxFiles \in Names
  <2>1. Max(FileCounts) \in FileCounts /\ \A n \in FileCounts : Max(FileCounts) >= n
    BY MaxOfFinite, ConstantsAssumption
  <2> QED BY <2>1, ConstantsAssumption DEF TypeOK, Names
<1>3. maxFiles - 0 = maxFiles
  BY <1>2
<1>4. [i \in 1 .. maxFiles |-> OwnOf(Content(maxFiles - i))] = Links(files, maxFiles, 0)
  BY <1>3 DEF Links, OwnAt, Content
<1> QED BY <1>1, <1>2, <1>4 DEF OwnBytes, Span

\* The bytes of a part of the chain.
LEMMA SpanFile ==
  ASSUME NEW fs \in Directories, NEW hi \in Names, NEW lo \in 0 .. hi
  PROVE  Span(fs, hi, lo) \in Files
<1>1. \A f \in Files : \A p \in 1 .. Len(f) : f[p] \in Cells
  BY ElementOfSeq DEF Files
<1>2. \A i \in Names : Of(fs[i]) \subseteq Cells
  BY <1>1, OfFile DEF Directories
<1> QED BY <1>2, SpanType DEF Files

\* The chain when only the active file changes.
LEMMA ActiveChanges ==
  ASSUME NEW fs \in Directories, NEW gs \in Directories, NEW m \in Names, m # 0,
         \A i \in Names : i # 0 => gs[i] = fs[i]
  PROVE  \E a \in Files : /\ Span(fs, m, 0) = a \o OwnAt(fs, 0)
                          /\ Span(gs, m, 0) = a \o OwnAt(gs, 0)
<1>1. m \in Nat /\ 1 \in 0 .. m /\ 0 \in 0 .. m /\ 0 \in Names /\ 0 + 1 \in Names /\ 0 + 1 = 1
  BY Greatest DEF Names
<1>2. \A i \in Names : 1 <= i /\ i < m => fs[i] = gs[i]
  BY Greatest
<1>3. Span(fs, m, 1) = Span(gs, m, 1)
  BY <1>1, <1>2, SpanSame
<1>4. Span(fs, 1, 0) = OwnAt(fs, 0) /\ Span(gs, 1, 0) = OwnAt(gs, 0)
  BY <1>1, SpanEnds
<1>5. /\ Span(fs, m, 0) = Span(fs, m, 1) \o Span(fs, 1, 0)
      /\ Span(gs, m, 0) = Span(gs, m, 1) \o Span(gs, 1, 0)
  BY <1>1, SpanSplit
<1>6. Span(fs, m, 1) \in Files
  BY <1>1, SpanFile
<1> QED BY <1>3, <1>4, <1>5, <1>6

\* The chain when the eldest file goes, or loses all the sink's bytes.
LEMMA EldestGoes ==
  ASSUME NEW fs \in Directories, NEW gs \in Directories, NEW m \in Names, m # 0,
         Of(gs[m - 1]) = {}, \A i \in Names : i # m - 1 => gs[i] = fs[i]
  PROVE  /\ Span(fs, m, 0) = OwnAt(fs, m - 1) \o Span(gs, m, 0)
         /\ OwnAt(fs, m - 1) \in Files /\ Span(gs, m, 0) \in Files
<1> DEFINE k == m - 1
<1>1. m \in Nat /\ k \in 0 .. m /\ 0 \in 0 .. m /\ k \in Names /\ k + 1 = m /\ 0 \in 0 .. k /\ k \in Nat
  BY Greatest DEF Names
<1>2. \A i \in Names : 0 <= i /\ i < k => fs[i] = gs[i]
  BY <1>1
<1>3. Span(fs, k, 0) = Span(gs, k, 0) /\ Span(gs, k, 0) \in Files
  BY <1>1, <1>2, SpanSame, SpanFile
<1>4. Span(fs, m, k) = OwnAt(fs, k) /\ Span(gs, m, k) = OwnAt(gs, k)
  BY <1>1, SpanEnds
<1>5. OwnAt(gs, k) = <<>> /\ OwnAt(fs, k) \in Files
  BY <1>1, OwnAtType
<1>6. /\ Span(fs, m, 0) = Span(fs, m, k) \o Span(fs, k, 0)
      /\ Span(gs, m, 0) = Span(gs, m, k) \o Span(gs, k, 0)
  BY <1>1, SpanSplit
<1>7. <<>> \o Span(gs, k, 0) = Span(gs, k, 0)
  BY <1>3, ConcatEmptySeq DEF Files
<1> QED BY <1>3, <1>4, <1>5, <1>6, <1>7

\* The chain when a file goes to the next index, where nothing of the sink's is.
LEMMA FileMovesUp ==
  ASSUME NEW fs \in Directories, NEW gs \in Directories, NEW m \in Names, NEW k \in Names,
         k + 1 < m, Of(fs[k + 1]) = {}, gs[k + 1] = fs[k], gs[k] = NONE,
         \A i \in Names : i \notin {k, k + 1} => gs[i] = fs[i]
  PROVE  Span(gs, m, 0) = Span(fs, m, 0)
<1> DEFINE n == k + 2
<1>1. /\ m \in Nat /\ k \in Nat /\ k \in 0 .. n /\ k + 1 \in k .. n /\ k + 1 \in 0 .. n /\ n \in 0 .. m
      /\ n \in Names /\ k + 1 \in Names /\ 0 \in 0 .. m /\ 0 \in 0 .. n /\ 0 \in 0 .. k /\ k \in 0 .. k + 1
      /\ (k + 1) + 1 = n /\ k \in 0 .. k + 1 /\ k \in 0 .. n /\ n \in Nat
  BY Greatest DEF Names
<1>2. \A fs1 \in Directories :
         /\ Span(fs1, m, 0) = Span(fs1, m, n) \o Span(fs1, n, 0)
         /\ Span(fs1, n, 0) = Span(fs1, n, k) \o Span(fs1, k, 0)
         /\ Span(fs1, n, k) = Span(fs1, n, k + 1) \o Span(fs1, k + 1, k)
         /\ Span(fs1, n, k + 1) = OwnAt(fs1, k + 1) /\ Span(fs1, k + 1, k) = OwnAt(fs1, k)
  BY <1>1, SpanSplit, SpanEnds
<1>3. Span(fs, m, n) = Span(gs, m, n) /\ Span(fs, k, 0) = Span(gs, k, 0)
  <2>1. \A i \in Names : n <= i /\ i < m => fs[i] = gs[i]
    BY <1>1, Greatest
  <2>2. \A i \in Names : 0 <= i /\ i < k => fs[i] = gs[i]
    BY <1>1, Greatest
  <2> QED BY <1>1, <2>1, <2>2, SpanSame
<1>4. /\ OwnAt(fs, k + 1) = <<>> /\ OwnAt(gs, k) = <<>> /\ OwnAt(gs, k + 1) = OwnAt(fs, k)
      /\ OwnAt(fs, k) \in Seq(Cells)
  BY <1>1, OwnAtType DEF OwnAt, Files
<1>5. <<>> \o OwnAt(fs, k) = OwnAt(fs, k) \o <<>>
  BY <1>4, ConcatEmptySeq
<1>6. Span(gs, n, k) = Span(fs, n, k)
  BY <1>2, <1>4, <1>5
<1> QED BY <1>2, <1>3, <1>6

-----------------------------------------------------------------------------
(* The chain implements the retained log                                   *)

\* Bytes of the newest line behind those of no newer one: a step of the retained
\* log.
LEMMA NewestAdded ==
  ASSUME NEW s \in Files, NEW d \in Files, NEW n \in Nat, d # <<>>,
         \A p \in 1 .. Len(d) : d[p] = n, \A p \in 1 .. Len(s) : s[p] <= n
  PROVE  /\ IsStrictPrefix(s, s \o d)
         /\ \A i \in Len(s) + 1 .. Len(s \o d) :
               /\ (s \o d)[i] = (s \o d)[Len(s \o d)]
               /\ s # <<>> => (s \o d)[i] >= Last(s)
<1>1. IsStrictPrefix(s, s \o d)
  BY PrefixOfConcat DEF Files
<1>2. /\ Len(s \o d) = Len(s) + Len(d) /\ Len(s) \in Nat /\ Len(d) \in Nat /\ Len(d) # 0
      /\ \A i \in 1 .. Len(s) + Len(d) :
            (s \o d)[i] = IF i <= Len(s) THEN s[i] ELSE d[i - Len(s)]
  BY ConcatProperties, LenProperties, EmptySeq DEF Files
<1>3. ASSUME NEW i \in Len(s) + 1 .. Len(s) + Len(d) PROVE (s \o d)[i] = n
  <2>1. i \in 1 .. Len(s) + Len(d) /\ ~(i <= Len(s)) /\ i - Len(s) \in 1 .. Len(d)
    BY <1>2
  <2> QED BY <1>2, <2>1
<1>4. Len(s) + Len(d) \in Len(s) + 1 .. Len(s) + Len(d)
  BY <1>2
<1>5. s # <<>> => n >= Last(s)
  <2> SUFFICES ASSUME s # <<>> PROVE n >= Last(s)
    OBVIOUS
  <2>1. Len(s) \in 1 .. Len(s)
    BY <1>2, EmptySeq DEF Files
  <2>2. s[Len(s)] \in Cells /\ s[Len(s)] <= n
    BY <2>1, ElementOfSeq DEF Files
  <2> QED BY <2>2, ConstantsAssumption DEF Last, Cells
<1> QED BY <1>1, <1>2, <1>3, <1>4, <1>5

\* As long as the renames succeed: the index that is filled next is empty, unless
\* it is the eldest, whose unlink may have failed, and the active file has left
\* its place before it is opened anew, unless it is the only one.
GapInv ==
    intact =>
      /\ pc = "shift" => shift >= 1 /\ (shift # maxFiles - 1 => files[shift] = NONE)
      /\ pc = "reopen" => maxFiles = 1 \/ Of(files[0]) = {}

\* Every step keeps that.
LEMMA GapKept ==
  ASSUME IInv, GapInv, [Next]_vars
  PROVE  GapInv'
<1>1. /\ TypeOK /\ Shape /\ 0 \in Names /\ files \in [Names -> Files \cup {NONE}]
      /\ maxFiles \in Nat /\ shift \in Names /\ shift \in Nat /\ maxFiles - 1 \in Names
  BY StateTypes, Greatest DEF IInv, TypeOK, Files
<1>2. CASE RemoveEldest
  <2>1. maxFiles >= 2 /\ shift' = maxFiles - 1 /\ maxFiles' = maxFiles /\ pc' = "shift"
    BY <1>1, <1>2 DEF RemoveEldest, Eldest, Shape, fixed
  <2> QED BY <1>1, <2>1 DEF GapInv
<1>3. CASE Shift
  <2> SUFFICES ASSUME intact' PROVE shift' >= 1 /\ files'[shift'] = NONE
    BY <1>3 DEF GapInv, Shift
  <2>1. /\ shift >= 2 /\ shift' = shift - 1 /\ shift - 1 \in Names /\ shift - 1 # shift
        /\ files' = IF files[shift - 1] = NONE THEN files ELSE Renamed(shift - 1, shift)
    BY <1>1, <1>3, Greatest DEF Shift, Rename, Names
  <2>2. files'[shift - 1] = NONE
    BY <1>1, <2>1 DEF Renamed
  <2> QED BY <1>1, <2>1, <2>2
<1>4. CASE RenameBase
  <2> SUFFICES ASSUME intact' PROVE Of(files'[0]) = {}
    BY <1>4 DEF GapInv, RenameBase
  <2>1. files' = IF files[0] = NONE THEN files ELSE Renamed(0, 1)
    BY <1>4 DEF RenameBase, Rename
  <2>2. files'[0] = NONE
    BY <1>1, <2>1 DEF Renamed
  <2> QED BY <2>2, OfFile
<1>5. CASE UnlinkBase
  <2>1. maxFiles' = 1 /\ pc' = "reopen"
    BY <1>1, <1>5 DEF UnlinkBase, Shape
  <2> QED BY <2>1 DEF GapInv
<1>6. CASE ExternalAppend
  <2>1. /\ files' = [files EXCEPT ![0] = Append(Content(0), EXT)] /\ Content(0) \in Files
        /\ UNCHANGED <<pc, shift, intact, maxFiles>>
    BY <1>1, <1>6, StateTypes DEF ExternalAppend, fixed
  <2>2. shift >= 1 => files'[shift] = files[shift]
    BY <1>1, <2>1
  <2>3. Of(files'[0]) = Of(files[0])
    <3>1. Of(Content(0)) = Of(files[0])
      BY <1>1, OfFile DEF Content
    <3> QED BY <1>1, <2>1, <3>1, AppendOrder
  <2> QED BY <2>1, <2>2, <2>3 DEF GapInv
<1>7. CASE Construct \/ Write \/ Writev \/ WritevFails \/ Close \/ Reopen \/ Crash \/ Destroy
  <2>1. pc' \notin {"shift", "reopen"}
    BY <1>7 DEF Construct, Write, Writev, WritevFails, Close, Reopen, Crash, Destroy, AfterWritev
  <2> QED BY <2>1 DEF GapInv
<1>8. CASE UNCHANGED vars
  BY <1>8 DEF vars, GapInv
<1> QED BY <1>2, <1>3, <1>4, <1>5, <1>6, <1>7, <1>8 DEF Next, Step, Idle

\* What a reader of the files finds of the sink's bytes.
Log == IF intact THEN OwnBytes ELSE <<>>

\* The operators of the abstract log are those of the sequences here.
LEMMA SameOperators ==
  ASSUME NEW s, NEW t
  PROVE  /\ RetainedLog!IsStrictPrefix(s, t) <=> IsStrictPrefix(s, t)
         /\ RetainedLog!IsStrictSuffix(s, t) <=> IsStrictSuffix(s, t)
         /\ RetainedLog!Last(s) = Last(s)
BY DEF RetainedLog!IsStrictPrefix, RetainedLog!IsPrefix, IsStrictPrefix, IsPrefix,
       RetainedLog!IsStrictSuffix, RetainedLog!IsSuffix, IsStrictSuffix, IsSuffix,
       RetainedLog!Reverse, Reverse, RetainedLog!Last, Last

\* Where the directory stays as it is, so does the log.
LEMMA LogStays ==
  ASSUME UNCHANGED <<files, maxFiles, intact>>
  PROVE  Log' = Log
BY DEF Log, OwnBytes, Content

\* A failing rename ends what is promised.
LEMMA LogEnds ==
  ASSUME TypeOK, ~intact'
  PROVE  RetainedLog!DropOldest \/ Log' = Log
<1>1. Log' = <<>>
  BY DEF Log
<1>2. Log \in Files
  <2>1. OwnBytes \in Files
    <3>1. 0 \in 0 .. maxFiles
      BY RetainedIsSpan
    <3> QED BY <3>1, RetainedIsSpan, SpanFile
  <2> QED BY <2>1 DEF Log, Files
<1>3. ASSUME Log # <<>> PROVE RetainedLog!DropOldest
  <2>1. IsStrictSuffix(<<>>, Log \o <<>>)
    <3>1. <<>> \in Seq(Cells) /\ Log \in Seq(Cells)
      BY <1>2 DEF Files
    <3> QED BY <1>3, <3>1, SuffixOfConcat
  <2>2. Log \o <<>> = Log
    BY <1>2, ConcatEmptySeq DEF Files
  <2>3. IsStrictSuffix(Log', Log)
    BY <1>1, <2>1, <2>2
  <2> QED BY <2>3, SameOperators DEF RetainedLog!DropOldest, Log
<1> QED BY <1>1, <1>3

\* The retained bytes change with the directory.
LEMMA RetainedNext ==
  ASSUME TypeOK, TypeOK', maxFiles' = maxFiles
  PROVE  /\ files' \in Directories
         /\ OwnBytes' = Span(files', maxFiles, 0)
<1>1. files' \in Directories
  BY DEF TypeOK, Directories, Files
<1>2. maxFiles \in Nat \ {0} /\ maxFiles - 0 = maxFiles
  BY RetainedIsSpan
<1>3. OwnBytes' = FlattenSeq([i \in 1 .. maxFiles |-> OwnOf(Content(maxFiles - i)')])
  BY DEF OwnBytes
<1>4. [i \in 1 .. maxFiles |-> OwnOf(Content(maxFiles - i)')] = Links(files', maxFiles, 0)
  BY <1>2 DEF Links, OwnAt, Content
<1> QED BY <1>1, <1>3, <1>4 DEF Span

\* A step that changes the active file only, and none of the sink's bytes in it.
LEMMA ActiveKeeps ==
  ASSUME TypeOK, TypeOK', UNCHANGED <<maxFiles, intact>>,
         \A i \in Names : i # 0 => files'[i] = files[i],
         OwnAt(files', 0) = OwnAt(files, 0)
  PROVE  Log' = Log
<1>1. /\ files \in Directories /\ maxFiles \in Names /\ maxFiles # 0
      /\ OwnBytes = Span(files, maxFiles, 0)
      /\ files' \in Directories /\ OwnBytes' = Span(files', maxFiles, 0)
  BY RetainedIsSpan, RetainedNext
<1>2. Span(files', maxFiles, 0) = Span(files, maxFiles, 0)
  <2>1. PICK a \in Files : /\ Span(files, maxFiles, 0) = a \o OwnAt(files, 0)
                           /\ Span(files', maxFiles, 0) = a \o OwnAt(files', 0)
    BY <1>1, ActiveChanges
  <2> QED BY <2>1
<1> QED BY <1>1, <1>2 DEF Log

\* A step that takes bytes away at the old end.
LEMMA OldEndDrops ==
  ASSUME UNCHANGED intact, NEW x \in Files, OwnBytes' \in Files, OwnBytes = x \o OwnBytes'
  PROVE  RetainedLog!DropOldest \/ Log' = Log
<1>1. CASE ~intact
  BY <1>1 DEF Log
<1>2. CASE intact /\ x = <<>>
  <2>1. <<>> \o OwnBytes' = OwnBytes'
    BY ConcatEmptySeq DEF Files
  <2> QED BY <1>2, <2>1 DEF Log
<1>3. CASE intact /\ x # <<>>
  <2>1. IsStrictSuffix(OwnBytes', x \o OwnBytes')
    BY <1>3, SuffixOfConcat DEF Files
  <2>2. IsStrictSuffix(OwnBytes', OwnBytes)
    BY <2>1
  <2>3. IsStrictSuffix(Log', Log)
    BY <1>3, <2>2 DEF Log
  <2> QED BY <2>3, SameOperators DEF RetainedLog!DropOldest, Log
<1> QED BY <1>1, <1>2, <1>3

\* A step that removes the eldest file or empties it.
LEMMA EldestDrops ==
  ASSUME TypeOK, TypeOK', UNCHANGED <<maxFiles, intact>>, NEW f, Of(f) = {},
         files' = [files EXCEPT ![maxFiles - 1] = f]
  PROVE  RetainedLog!DropOldest \/ Log' = Log
<1>1. /\ files \in Directories /\ maxFiles \in Names /\ maxFiles # 0
      /\ OwnBytes = Span(files, maxFiles, 0)
      /\ files' \in Directories /\ OwnBytes' = Span(files', maxFiles, 0)
  BY RetainedIsSpan, RetainedNext
<1>2. files'[maxFiles - 1] = f /\ \A i \in Names : i # maxFiles - 1 => files'[i] = files[i]
  BY <1>1, StateTypes DEF Directories
<1>3. PICK x \in Files : OwnBytes = x \o OwnBytes' /\ OwnBytes' \in Files
  BY <1>1, <1>2, EldestGoes
<1> QED BY <1>3, OldEndDrops

\* A writev of the sink: its bytes come behind all others.
LEMMA WritevAdds ==
  ASSUME IInv, IInv', OrderInv, Writev
  PROVE  RetainedLog!Append1 \/ Log' = Log
<1>1. TypeOK /\ Shape /\ TypeOK'
  BY DEF IInv
<1>2. PICK k \in 1 .. Len(pending) :
        files' = [files EXCEPT ![0] = PutAt(files[0], Offset, SubSeq(pending, 1, k))]
  BY DEF Writev
<1>3. /\ pc = "writev" /\ fd.open /\ files[0] \in Files /\ 0 \in Names
      /\ files[0] # NONE /\ UNCHANGED <<maxFiles, intact>>
  BY <1>1, Greatest DEF Writev, Shape, TypeOK, Files, fixed
<1>4. /\ Size = Len(files[0]) /\ Content(0) = files[0] /\ Size \in Nat
      /\ pending \in Seq(Cells) /\ k \in 0 .. Len(pending) /\ k # 0
  BY <1>1, <1>3, SzFile, StateTypes DEF Size, Content, Files
<1>5. Offset \in 0 .. Len(files[0]) /\ \A p \in Offset + 1 .. Len(files[0]) : files[0][p] = EXT
  <2>1. CASE fd.append
    BY <1>4, <2>1 DEF Offset
  <2>2. CASE ~fd.append
    <3>1. fd.off \in Nat /\ Offset = fd.off
      BY <1>1, <2>2 DEF Offset, TypeOK
    <3>2. fd.off <= Size /\ \A p \in fd.off + 1 .. Size : files[0][p] = EXT
      BY <1>1, <1>3, <2>2 DEF Shape, OrderInv
    <3> QED BY <1>4, <3>1, <3>2
  <2> QED BY <2>1, <2>2
<1> DEFINE d == SubSeq(pending, 1, k)
           g == PutAt(files[0], Offset, d)
<1>6. d \in Files /\ Len(d) = k /\ \A p \in 1 .. k : d[p] = lines
  <2>1. \A p \in 1 .. Len(pending) : pending[p] = lines
    BY <1>3 DEF OrderInv
  <2>2. d \in Seq(Cells) /\ Len(d) = k
    BY <1>4, SplitAt
  <2>3. \A p \in 1 .. k : d[p] = pending[p] /\ p \in 1 .. Len(pending)
    BY <1>4
  <2> QED BY <2>1, <2>2, <2>3 DEF Files
<1>7. lines \in Nat /\ lines # EXT /\ d # <<>>
  <2>1. lines \in Nat /\ lines > 0
    BY <1>1, <1>3 DEF TypeOK, OrderInv
  <2> QED BY <1>4, <1>6, <2>1 DEF EXT
<1> HIDE DEF d
<1>8. OwnOf(g) = OwnOf(files[0]) \o d /\ g \in Files
  <2>1. \A p \in 1 .. Len(d) : d[p] # EXT
    BY <1>6, <1>7
  <2> QED BY <1>3, <1>5, <1>6, <2>1, PutAtOwn, PutAtProperties
<1>9. files' = [files EXCEPT ![0] = g]
  BY <1>2 DEF d
<1> HIDE DEF g
<1>10. files'[0] = g /\ g # NONE /\ \A i \in Names : i # 0 => files'[i] = files[i]
  BY <1>1, <1>3, <1>8, <1>9, SzFile DEF TypeOK
<1>11. OwnAt(files', 0) = OwnAt(files, 0) \o d
  BY <1>3, <1>8, <1>10 DEF OwnAt
<1>12. /\ files \in Directories /\ maxFiles \in Names /\ maxFiles # 0
       /\ OwnBytes = Span(files, maxFiles, 0) /\ OwnAt(files, 0) \in Files
       /\ files' \in Directories /\ OwnBytes' = Span(files', maxFiles, 0)
  BY <1>1, <1>3, RetainedIsSpan, RetainedNext, OwnAtType
<1>13. OwnBytes' = OwnBytes \o d
  <2>1. PICK a \in Files : OwnBytes = a \o OwnAt(files, 0) /\ OwnBytes' = a \o OwnAt(files', 0)
    BY <1>10, <1>12, ActiveChanges
  <2>2. \A x, y, z \in Files : (x \o y) \o z = x \o (y \o z)
    BY ConcatAssociative DEF Files
  <2>3. (a \o OwnAt(files, 0)) \o d = a \o (OwnAt(files, 0) \o d)
    BY <1>6, <1>12, <2>2
  <2> QED BY <1>11, <2>1, <2>3
<1>14. OwnBytes \in Files /\ \A p \in 1 .. Len(OwnBytes) : OwnBytes[p] <= lines
  <2> DEFINE S == {c \in Cells : c <= lines}
  <2>1. \A i \in Names : Of(files[i]) \subseteq S
    <3>1. \A f \in Files : \A p \in 1 .. Len(f) : f[p] \in Cells
      BY ElementOfSeq DEF Files
    <3>2. \A i \in Names : Of(files[i]) \subseteq Cells
      BY <1>12, <3>1, OfFile DEF Directories
    <3> QED BY <3>2 DEF OrderInv
  <2>2. 0 \in 0 .. maxFiles
    BY <1>1, RetainedIsSpan
  <2>3. OwnBytes \in Seq(S)
    <3> HIDE DEF S
    <3> QED BY <1>12, <2>1, <2>2, SpanType
  <2>4. \A p \in 1 .. Len(OwnBytes) : OwnBytes[p] \in S
    BY <2>3, ElementOfSeq
  <2> QED BY <2>3, <2>4 DEF Files
<1>15. /\ IsStrictPrefix(OwnBytes, OwnBytes')
       /\ \A i \in Len(OwnBytes) + 1 .. Len(OwnBytes') :
             /\ OwnBytes'[i] = OwnBytes'[Len(OwnBytes')]
             /\ OwnBytes # <<>> => OwnBytes'[i] >= Last(OwnBytes)
  <2> DEFINE s == OwnBytes
  <2>1. s \in Files /\ \A p \in 1 .. Len(s) : s[p] <= lines
    BY <1>14
  <2> HIDE DEF s
  <2>2. /\ IsStrictPrefix(s, s \o d)
        /\ \A i \in Len(s) + 1 .. Len(s \o d) :
              /\ (s \o d)[i] = (s \o d)[Len(s \o d)]
              /\ s # <<>> => (s \o d)[i] >= Last(s)
    BY <1>6, <1>7, <2>1, NewestAdded
  <2>3. OwnBytes' = s \o d
    BY <1>13 DEF s
  <2> QED BY <2>2, <2>3 DEF s
<1>16. CASE intact
  <2>1. Log = OwnBytes /\ Log' = OwnBytes'
    BY <1>3, <1>16 DEF Log
  <2>2. /\ IsStrictPrefix(Log, Log')
        /\ \A i \in Len(Log) + 1 .. Len(Log') :
              /\ Log'[i] = Log'[Len(Log')]
              /\ Log # <<>> => Log'[i] >= Last(Log)
    BY <1>15, <2>1
  <2> QED BY <2>2, SameOperators DEF RetainedLog!Append1, Log
<1>17. CASE ~intact
  BY <1>3, <1>17 DEF Log
<1> QED BY <1>16, <1>17

\* A rename of the rotation, to an index where nothing is or, at the old end, to
\* the eldest file, which it replaces.
LEMMA RenameKeeps ==
  ASSUME TypeOK, TypeOK', NEW k \in Names, k + 1 < maxFiles, Rename(k, k + 1), maxFiles' = maxFiles,
         intact /\ k + 1 # maxFiles - 1 => files[k + 1] = NONE
  PROVE  RetainedLog!DropOldest \/ Log' = Log
<1>1. CASE ~intact'
  BY <1>1, LogEnds
<1>2. CASE intact'
  <2>1. UNCHANGED intact /\ intact /\ files' = IF files[k] = NONE THEN files ELSE Renamed(k, k + 1)
    BY <1>2 DEF Rename
  <2>2. CASE files' = files
    BY <2>1, <2>2, LogStays
  <2>3. CASE files' = Renamed(k, k + 1)
    <3>1. /\ files \in Directories /\ maxFiles \in Names /\ maxFiles \in Nat \ {0}
          /\ OwnBytes = Span(files, maxFiles, 0)
          /\ files' \in Directories /\ OwnBytes' = Span(files', maxFiles, 0)
      BY RetainedIsSpan, RetainedNext
    <3>2. k \in Nat /\ k + 1 \in Names /\ k # k + 1
      BY <3>1, Greatest DEF Names
    <3>3. /\ files'[k + 1] = files[k] /\ files'[k] = NONE
          /\ \A i \in Names : i \notin {k, k + 1} => files'[i] = files[i]
      BY <2>3, <3>1, <3>2 DEF Renamed, Directories
    <3>4. CASE k + 1 # maxFiles - 1
      <4>1. Of(files[k + 1]) = {}
        BY <2>1, <3>4, OfFile
      <4>2. OwnBytes' = OwnBytes
        BY <3>1, <3>3, <4>1, FileMovesUp
      <4> QED BY <2>1, <4>2 DEF Log
    <3>5. CASE k + 1 = maxFiles - 1
      <4> DEFINE without == [files EXCEPT ![k + 1] = NONE]
      <4>1. /\ without \in Directories /\ without[k + 1] = NONE /\ without[k] = files[k]
            /\ \A i \in Names : i # k + 1 => without[i] = files[i]
        BY <3>1, <3>2 DEF Directories
      <4> HIDE DEF without
      <4>2. PICK x \in Files : /\ OwnBytes = x \o Span(without, maxFiles, 0)
                               /\ Span(without, maxFiles, 0) \in Files
        <5>1. Of(without[maxFiles - 1]) = {}
          BY <3>5, <4>1, OfFile
        <5>2. \A i \in Names : i # maxFiles - 1 => without[i] = files[i]
          BY <3>5, <4>1
        <5> QED BY <3>1, <4>1, <5>1, <5>2, EldestGoes
      <4>3. Span(files', maxFiles, 0) = Span(without, maxFiles, 0)
        <5>1. Of(without[k + 1]) = {} /\ files'[k + 1] = without[k]
          BY <3>3, <4>1, OfFile
        <5>2. \A i \in Names : i \notin {k, k + 1} => files'[i] = without[i]
          BY <3>3, <4>1
        <5> QED BY <3>1, <3>3, <4>1, <5>1, <5>2, FileMovesUp
      <4> QED BY <2>1, <3>1, <4>2, <4>3, OldEndDrops
    <3> QED BY <3>4, <3>5
  <2> QED BY <2>1, <2>2, <2>3
<1> QED BY <1>1, <1>2

\* Every step of the sink and of its environment is one of the retained log, or
\* leaves it as it is.
LEMMA LogStep ==
  ASSUME IInv, IInv', OrderInv, GapInv, [Next]_vars
  PROVE  RetainedLog!Next \/ Log' = Log
<1>1. /\ TypeOK /\ TypeOK' /\ Shape /\ 0 \in Names /\ files \in [Names -> Files \cup {NONE}]
      /\ files \in Directories /\ maxFiles \in Nat
  BY StateTypes, Greatest DEF IInv, TypeOK, Files, Directories
<1>2. CASE Write \/ WritevFails \/ Close \/ Crash \/ Destroy \/ UNCHANGED vars
  <2>1. UNCHANGED <<files, maxFiles, intact>>
    BY <1>2 DEF Write, WritevFails, Close, Crash, Destroy, vars, fixed
  <2> QED BY <2>1, LogStays
<1>3. CASE Writev
  BY <1>3, WritevAdds DEF RetainedLog!Next
<1>4. CASE RemoveEldest
  <2>1. UNCHANGED <<maxFiles, intact>>
    BY <1>4 DEF RemoveEldest, fixed
  <2>2. CASE files' = [files EXCEPT ![maxFiles - 1] = NONE]
    BY <1>1, <2>1, <2>2, EldestDrops, OfFile DEF RetainedLog!Next
  <2>3. CASE UNCHANGED files
    BY <2>1, <2>3, LogStays
  <2> QED BY <1>4, <2>2, <2>3 DEF RemoveEldest, Evict, UnlinkFails, Eldest
<1>5. CASE UnlinkBase
  <2>1. UNCHANGED <<maxFiles, intact>> /\ maxFiles - 1 = 0
    BY <1>1, <1>5 DEF UnlinkBase, Shape
  <2>2. CASE files' = [files EXCEPT ![0] = NONE]
    BY <1>1, <2>1, <2>2, EldestDrops, OfFile DEF RetainedLog!Next
  <2>3. CASE UNCHANGED files
    BY <2>1, <2>3, LogStays
  <2> QED BY <1>5, <2>2, <2>3 DEF UnlinkBase, Evict, UnlinkFails
<1>6. CASE Shift
  <2>1. /\ shift \in Nat /\ shift >= 2 /\ shift < maxFiles /\ shift - 1 \in Names
        /\ (shift - 1) + 1 = shift
    BY <1>1, <1>6, Greatest DEF Shift, Shape, TypeOK, Names
  <2>2. maxFiles' = maxFiles /\ Rename(shift - 1, (shift - 1) + 1) /\ (shift - 1) + 1 < maxFiles
    BY <1>6, <2>1 DEF Shift
  <2>3. intact /\ (shift - 1) + 1 # maxFiles - 1 => files[(shift - 1) + 1] = NONE
    BY <1>6, <2>1 DEF GapInv, Shift
  <2> QED BY <1>1, <2>1, <2>2, <2>3, RenameKeeps DEF RetainedLog!Next
<1>7. CASE RenameBase
  <2>1. maxFiles >= 2 /\ shift \in Nat /\ shift < 2
    BY <1>1, <1>7, Greatest DEF RenameBase, Shape, TypeOK
  <2>2. maxFiles' = maxFiles /\ Rename(0, 0 + 1) /\ 0 + 1 < maxFiles
    BY <1>1, <1>7, <2>1 DEF RenameBase
  <2>3. intact /\ 0 + 1 # maxFiles - 1 => files[0 + 1] = NONE
    <3> SUFFICES ASSUME intact, 1 # maxFiles - 1 PROVE files[1] = NONE
      OBVIOUS
    <3>1. shift >= 1 /\ (shift # maxFiles - 1 => files[shift] = NONE)
      BY <1>7 DEF GapInv, RenameBase
    <3>2. shift = 1
      BY <2>1, <3>1
    <3> QED BY <3>1, <3>2
  <2> QED BY <1>1, <2>2, <2>3, RenameKeeps DEF RetainedLog!Next
<1>8. CASE Construct
  <2>1. UNCHANGED <<maxFiles, intact>> /\ (UNCHANGED files \/ files' = [files EXCEPT ![0] = Content(0)])
    BY <1>8 DEF Construct, fixed
  <2>2. /\ \A i \in Names : i # 0 => files'[i] = files[i]
        /\ files'[0] \in {files[0], Content(0)}
    BY <1>1, <2>1
  <2>3. OwnAt(files', 0) = OwnAt(files, 0)
    BY <2>2 DEF OwnAt, Content
  <2> QED BY <1>1, <2>1, <2>2, <2>3, ActiveKeeps
<1>9. CASE Reopen
  <2>1. UNCHANGED <<maxFiles, intact>> /\ (UNCHANGED files \/ files' = [files EXCEPT ![0] = <<>>])
    BY <1>9 DEF Reopen, fixed
  <2>2. CASE UNCHANGED files \/ ~intact
    BY <2>1, <2>2, LogStays DEF Log
  <2>3. CASE files' = [files EXCEPT ![0] = <<>>] /\ maxFiles = 1
    <3>1. maxFiles - 1 = 0
      BY <2>3
    <3> QED BY <1>1, <2>1, <2>3, <3>1, EldestDrops, OfFile DEF RetainedLog!Next
  <2>4. CASE intact /\ files' = [files EXCEPT ![0] = <<>>] /\ maxFiles # 1
    <3>1. \A i \in Names : i # 0 => files'[i] = files[i]
      BY <1>1, <2>4
    <3>2. files'[0] = <<>> /\ Of(files[0]) = {}
      BY <1>1, <1>9, <2>4 DEF GapInv, Reopen
    <3>3. OwnAt(files, 0) = <<>>
      BY <1>1, <3>2, OwnAtType
    <3>4. OwnAt(files', 0) = <<>>
      BY <3>2, OwnExtremes DEF OwnAt
    <3> QED BY <1>1, <2>1, <3>1, <3>3, <3>4, ActiveKeeps
  <2> QED BY <2>1, <2>2, <2>3, <2>4
<1>10. CASE ExternalAppend
  <2>1. /\ UNCHANGED <<maxFiles, intact>> /\ files' = [files EXCEPT ![0] = Append(Content(0), EXT)]
        /\ Content(0) \in Files
    BY <1>1, <1>10, StateTypes DEF ExternalAppend, fixed
  <2> DEFINE f == Content(0)
             e == <<EXT>>
  <2>2. e \in Files /\ OwnOf(e) = <<>>
    <3>1. e \in Files /\ Len(e) = 1 /\ e[1] = EXT
      BY ConstantsAssumption DEF Files, Cells, EXT
    <3>2. Of(e) = {}
      BY <3>1, OfFile
    <3> QED BY <3>1, <3>2, OwnExtremes
  <2>3. Append(f, EXT) = f \o e
    <3>1. EXT \in Cells /\ f \in Seq(Cells)
      BY <2>1, ConstantsAssumption DEF Cells, EXT, Files
    <3> QED BY <3>1, AppendIsConcat
  <2>4. OwnAt(files, 0) = OwnOf(f) /\ OwnAt(files, 0) \in Files
    BY <1>1, OwnAtType DEF OwnAt, Content
  <2> HIDE DEF f, e
  <2>5. f \o e \in Files /\ OwnOf(f \o e) = OwnOf(f) \o OwnOf(e)
    BY <2>1, <2>2, OwnConcat DEF f
  <2>6. OwnOf(f) \o <<>> = OwnOf(f)
    BY <2>4, ConcatEmptySeq DEF Files
  <2>7. files'[0] = f \o e /\ \A i \in Names : i # 0 => files'[i] = files[i]
    BY <1>1, <2>1, <2>3 DEF f
  <2>8. OwnAt(files', 0) = OwnAt(files, 0)
    BY <2>2, <2>4, <2>5, <2>6, <2>7, SzFile DEF OwnAt
  <2> QED BY <1>1, <2>1, <2>7, <2>8, ActiveKeeps
<1> QED BY <1>2, <1>3, <1>4, <1>5, <1>6, <1>7, <1>8, <1>9, <1>10 DEF Next, Step, Idle

\* As long as every rename succeeds, and whatever else fails, dies or is written
\* by others: the sink's bytes in the chain are the most recent ones it wrote, in
\* order.  No step duplicates, swaps or drops anything but the eldest.
THEOREM RetainsTheTail == Spec => TailSpec
<1>1. Init => RetainedLog!Init /\ OrderInv /\ GapInv
  <2> SUFFICES ASSUME Init PROVE RetainedLog!Init /\ OrderInv /\ GapInv
    OBVIOUS
  <2>1. TypeOK /\ \A i \in Names : files[i] = NONE
    BY Initially DEF IInv, Init
  <2>2. OwnBytes = <<>>
    <3>1. \A i \in Names : Of(files[i]) \subseteq {}
      BY <2>1, OfFile
    <3>2. OwnBytes \in Seq({})
      BY <2>1, <3>1, RetainedIsSpan, SpanType
    <3> QED BY <3>2
  <2>3. GapInv
    BY DEF Init, GapInv
  <2> QED BY <2>2, <2>3, OrderInitially DEF RetainedLog!Init
<1>2. ASSUME IInv, IInv', OrderInv, GapInv, [Next]_vars
      PROVE  [RetainedLog!Next]_Log
  BY <1>2, LogStep
<1>3. IInv /\ IInv' /\ OrderInv /\ [Next]_vars => OrderInv'
  BY OrderKept
<1>4. IInv /\ GapInv /\ [Next]_vars => GapInv'
  BY GapKept
<1> QED BY <1>1, <1>2, <1>3, <1>4, Invariance, PTL DEF Spec, TailSpec, RetainedLog!Spec, Log

=============================================================================
