---------------------------- MODULE FdSinkProofs ----------------------------
(***************************************************************************)
(* Theorems about FdSink for any threads, lines, arrays on the stack and   *)
(* ways to split and fail a writev.                                        *)
(***************************************************************************)
EXTENDS FdSink, FiniteSetTheorems, SequenceLemmas

-----------------------------------------------------------------------------
(* What is kept of a sequence                                              *)

\* Every element as a sequence of its own, one that is not in S as none.
Pieces(s, S) == [i \in 1 .. Len(s) |-> IF s[i] \in S THEN <<s[i]>> ELSE <<>>]

\* The pieces are as many as the elements, and Kept joins them.
LEMMA KeptIsJoined ==
  ASSUME NEW T, NEW s \in Seq(T), NEW S
  PROVE  /\ Pieces(s, S) \in Seq(Seq(T)) /\ Len(Pieces(s, S)) = Len(s)
         /\ \A i \in 1 .. Len(s) :
               Pieces(s, S)[i] = IF s[i] \in S THEN <<s[i]>> ELSE <<>>
         /\ Kept(s, S) = FlattenSeq(Pieces(s, S)) /\ Kept(s, S) \in Seq(T)
<1>1. Len(s) \in Nat /\ \A i \in 1 .. Len(s) : s[i] \in T
  BY LenProperties, ElementOfSeq
<1>2. \A i \in 1 .. Len(s) : (IF s[i] \in S THEN <<s[i]>> ELSE <<>>) \in Seq(T)
  BY <1>1
<1>3. Pieces(s, S) \in Seq(Seq(T)) /\ Len(Pieces(s, S)) = Len(s)
  BY <1>1, <1>2 DEF Pieces
<1>4. Kept(s, S) = FlattenSeq(Pieces(s, S))
  BY DEF Kept, Pieces
<1>5. Kept(s, S) \in Seq(T)
  BY <1>3, <1>4, FlattenProperties
<1> QED BY <1>3, <1>4, <1>5 DEF Pieces

\* What is kept of two parts.
LEMMA KeptConcat ==
  ASSUME NEW T, NEW a \in Seq(T), NEW b \in Seq(T), NEW S
  PROVE  Kept(a \o b, S) = Kept(a, S) \o Kept(b, S)
<1> DEFINE c == a \o b
<1>1. /\ c \in Seq(T) /\ Len(c) = Len(a) + Len(b) /\ Len(a) \in Nat /\ Len(b) \in Nat
      /\ \A i \in 1 .. Len(a) + Len(b) : c[i] = IF i <= Len(a) THEN a[i] ELSE b[i - Len(a)]
  BY ConcatProperties, LenProperties
<1>2. /\ Pieces(a, S) \in Seq(Seq(T)) /\ Len(Pieces(a, S)) = Len(a)
      /\ Pieces(b, S) \in Seq(Seq(T)) /\ Len(Pieces(b, S)) = Len(b)
  BY KeptIsJoined
<1> HIDE DEF c
<1>3. Pieces(c, S) = Pieces(a, S) \o Pieces(b, S)
  <2> DEFINE U == Seq(T)
             x == Pieces(a, S)
             y == Pieces(b, S)
  <2>1. x \in Seq(U) /\ y \in Seq(U) /\ Len(x) = Len(a) /\ Len(y) = Len(b)
    BY <1>2
  <2>2. Pieces(c, S) \in Seq(U) /\ Len(Pieces(c, S)) = Len(a) + Len(b)
    BY <1>1, KeptIsJoined
  <2>3. \A i \in 1 .. Len(a) + Len(b) :
           Pieces(c, S)[i] = IF c[i] \in S THEN <<c[i]>> ELSE <<>>
    BY <1>1, KeptIsJoined
  <2>4. \A i \in 1 .. Len(a) : x[i] = IF a[i] \in S THEN <<a[i]>> ELSE <<>>
    BY KeptIsJoined
  <2>5. \A i \in 1 .. Len(b) : y[i] = IF b[i] \in S THEN <<b[i]>> ELSE <<>>
    BY KeptIsJoined
  <2> HIDE DEF U, x, y
  <2>6. /\ x \o y \in Seq(U) /\ Len(x \o y) = Len(a) + Len(b)
        /\ \A i \in 1 .. Len(a) + Len(b) :
              (x \o y)[i] = IF i <= Len(a) THEN x[i] ELSE y[i - Len(a)]
    <3>1. /\ x \o y \in Seq(U) /\ Len(x \o y) = Len(x) + Len(y)
          /\ \A i \in 1 .. Len(x) + Len(y) :
                (x \o y)[i] = IF i <= Len(x) THEN x[i] ELSE y[i - Len(x)]
      BY <2>1, ConcatProperties
    <3> QED BY <2>1, <3>1
  <2>7. ASSUME NEW i \in 1 .. Len(a) + Len(b) PROVE Pieces(c, S)[i] = (x \o y)[i]
    <3>1. CASE i <= Len(a)
      <4>1. i \in 1 .. Len(a)
        BY <1>1, <3>1
      <4> QED BY <1>1, <2>3, <2>4, <2>6, <3>1, <4>1
    <3>2. CASE ~(i <= Len(a))
      <4>1. i - Len(a) \in 1 .. Len(b)
        BY <1>1, <3>2
      <4>2. c[i] = b[i - Len(a)] /\ (x \o y)[i] = y[i - Len(a)]
        BY <1>1, <2>6, <3>2
      <4> QED BY <2>3, <2>5, <4>1, <4>2
    <3> QED BY <3>1, <3>2
  <2>8. Pieces(c, S) = x \o y
    BY <2>2, <2>6, <2>7, SeqEqual
  <2> QED BY <2>8 DEF x, y
<1>4. FlattenSeq(Pieces(c, S)) = FlattenSeq(Pieces(a, S)) \o FlattenSeq(Pieces(b, S))
  BY <1>2, <1>3, FlattenConcat
<1>5. Kept(a, S) = FlattenSeq(Pieces(a, S)) /\ Kept(b, S) = FlattenSeq(Pieces(b, S))
  BY KeptIsJoined
<1>6. Kept(c, S) = FlattenSeq(Pieces(c, S))
  BY <1>1, KeptIsJoined
<1> QED BY <1>4, <1>5, <1>6 DEF c

\* Where everything is kept, and where nothing is.
LEMMA KeptAll ==
  ASSUME NEW T, NEW s \in Seq(T), NEW S, \A i \in 1 .. Len(s) : s[i] \in S
  PROVE  Kept(s, S) = s
<1> DEFINE g == [i \in 0 .. Len(s) |-> SubSeq(s, 1, i)]
           ss == Pieces(s, S)
<1>1. Len(s) \in Nat /\ \A i \in 1 .. Len(s) : s[i] \in T
  BY LenProperties, ElementOfSeq
<1>2. /\ ss \in Seq(Seq(T)) /\ Len(ss) = Len(s) /\ Kept(s, S) = FlattenSeq(ss)
      /\ \A i \in 1 .. Len(s) : ss[i] = <<s[i]>>
  BY KeptIsJoined
<1>3. g[0] = <<>>
  BY <1>1, SubSeqEmpty
<1>4. ASSUME NEW i \in 1 .. Len(s) PROVE g[i] = g[i - 1] \o ss[i]
  <2>1. i - 1 \in 0 .. Len(s) /\ i \in 0 .. Len(s) /\ 1 \in 1 .. Len(s)
    BY <1>1
  <2>2. /\ SubSeq(s, 1, i) \in Seq(T) /\ Len(SubSeq(s, 1, i)) = i
        /\ \A j \in 1 .. i : SubSeq(s, 1, i)[j] = s[j]
    BY <1>1, <2>1, SubSeqProperties
  <2>3. /\ SubSeq(s, 1, i - 1) \in Seq(T) /\ Len(SubSeq(s, 1, i - 1)) = i - 1
        /\ \A j \in 1 .. i - 1 : SubSeq(s, 1, i - 1)[j] = s[j]
    BY <1>1, <2>1, SubSeqProperties
  <2> DEFINE a == SubSeq(s, 1, i)
             b == SubSeq(s, 1, i - 1)
  <2>4. Append(b, s[i]) = b \o ss[i]
    BY <1>1, <1>2, <2>3, AppendIsConcat
  <2>5. /\ Append(b, s[i]) \in Seq(T) /\ Len(Append(b, s[i])) = i
        /\ \A j \in 1 .. i : Append(b, s[i])[j] = s[j]
    BY <1>1, <2>3, AppendProperties
  <2>6. Append(b, s[i]) = a
    BY <2>2, <2>5, SeqEqual
  <2> QED BY <2>1, <2>4, <2>6
<1> HIDE DEF g, ss
<1>5. FlattenSeq(ss) = g[Len(s)]
  <2>1. g[0] = <<>> /\ \A i \in 1 .. Len(ss) : g[i] = g[i - 1] \o ss[i]
    BY <1>2, <1>3, <1>4
  <2>2. FlattenSeq(ss) = g[Len(ss)]
    BY <1>2, <2>1, FlattenUnique
  <2> QED BY <1>2, <2>2
<1>6. g[Len(s)] = s
  <2>1. SubSeq(s, 1, Len(s)) = s
    BY SubSeqFull
  <2> QED BY <1>1, <2>1 DEF g
<1> QED BY <1>2, <1>5, <1>6

\* Where nothing is in S, nothing is kept.
LEMMA KeptNone ==
  ASSUME NEW T, NEW s \in Seq(T), NEW S, \A i \in 1 .. Len(s) : s[i] \notin S
  PROVE  Kept(s, S) = <<>>
<1> DEFINE g == [i \in 0 .. Len(s) |-> <<>>]
           ss == Pieces(s, S)
<1>1. Len(s) \in Nat /\ <<>> \in Seq(T)
  BY LenProperties
<1>2. /\ ss \in Seq(Seq(T)) /\ Len(ss) = Len(s) /\ Kept(s, S) = FlattenSeq(ss)
      /\ \A i \in 1 .. Len(s) : ss[i] = <<>>
  <2>1. /\ ss \in Seq(Seq(T)) /\ Len(ss) = Len(s) /\ Kept(s, S) = FlattenSeq(ss)
        /\ \A i \in 1 .. Len(s) : ss[i] = IF s[i] \in S THEN <<s[i]>> ELSE <<>>
    BY KeptIsJoined
  <2> HIDE DEF ss
  <2> QED BY <2>1
<1>3. <<>> \o <<>> = <<>>
  BY <1>1, ConcatEmptySeq
<1>4. ASSUME NEW i \in 1 .. Len(s) PROVE g[i] = g[i - 1] \o ss[i]
  <2>1. i - 1 \in 0 .. Len(s) /\ i \in 0 .. Len(s)
    BY <1>1
  <2> QED BY <1>2, <1>3, <2>1
<1>5. g[0] = <<>> /\ g[Len(s)] = <<>>
  BY <1>1
<1> HIDE DEF g, ss
<1>6. g[0] = <<>> /\ \A i \in 1 .. Len(ss) : g[i] = g[i - 1] \o ss[i]
  BY <1>2, <1>4, <1>5
<1>7. FlattenSeq(ss) = g[Len(ss)]
  BY <1>2, <1>6, FlattenUnique
<1> QED BY <1>2, <1>5, <1>7

-----------------------------------------------------------------------------
(* writev_all(): what it has of an array of iovecs, and how it goes on     *)

\* Joined is FlattenSeq of the first iovecs.
LEMMA JoinedIsFlat ==
  ASSUME NEW S, NEW p \in Seq(Seq(S)), NEW i \in 0 .. Len(p)
  PROVE  Joined(p, i) = FlattenSeq(SubSeq(p, 1, i)) /\ Joined(p, i) \in Seq(S)
<1> DEFINE ss == SubSeq(p, 1, i)
           Rec(g) == [j \in 0 .. i |-> IF j = 0 THEN <<>> ELSE g[j - 1] \o p[j]]
           join == CHOOSE g : g = Rec(g)
<1>1. Len(p) \in Nat /\ i \in Nat /\ i <= Len(p) /\ \A j \in 1 .. Len(p) : p[j] \in Seq(S)
  BY LenProperties, ElementOfSeq
<1>2. ss \in Seq(Seq(S)) /\ Len(ss) = i /\ \A j \in 1 .. i : ss[j] = p[j]
  BY <1>1, SplitAt, SubSeqProperties
<1> HIDE DEF ss
<1>3. PICK h \in [0 .. Len(ss) -> Seq(S)] :
           /\ h[0] = <<>>
           /\ \A j \in 1 .. Len(ss) : h[j] = h[j - 1] \o ss[j]
           /\ FlattenSeq(ss) = h[Len(ss)]
  BY <1>2, FlattenSteps
<1>4. /\ h \in [0 .. i -> Seq(S)] /\ h[0] = <<>> /\ FlattenSeq(ss) = h[i]
      /\ \A j \in 1 .. i : h[j] = h[j - 1] \o p[j]
  BY <1>2, <1>3
<1>5. h = Rec(h)
  <2>1. ASSUME NEW j \in 0 .. i PROVE h[j] = IF j = 0 THEN <<>> ELSE h[j - 1] \o p[j]
    <3>1. CASE j = 0
      BY <1>4, <3>1
    <3>2. CASE j # 0
      <4>1. j \in 1 .. i
        BY <1>1, <3>2
      <4> QED BY <1>4, <3>2, <4>1
    <3> QED BY <3>1, <3>2
  <2> QED BY <1>4, <2>1
<1>6. \A j \in 0 .. i : join[j] = Rec(join)[j]
  <2>1. join = Rec(join)
    BY <1>5
  <2> QED BY <2>1
<1>7. Joined(p, i) = join[i]
  BY DEF Joined
<1> HIDE DEF join
<1> DEFINE G == {j \in 0 .. i : join[j] = h[j]}
<1>8. i \in G
  <2>1. 0 \in G
    BY <1>1, <1>4, <1>6
  <2>2. ASSUME NEW j \in 0 .. i, j < i, j \in G PROVE j + 1 \in G
    <3>1. j + 1 \in 1 .. i /\ j + 1 \in 0 .. i /\ j + 1 # 0 /\ (j + 1) - 1 = j
      BY <1>1, <2>2
    <3>2. join[j + 1] = join[j] \o p[j + 1] /\ h[j + 1] = h[j] \o p[j + 1]
      BY <1>4, <1>6, <3>1
    <3> QED BY <2>2, <3>1, <3>2
  <2> HIDE DEF G
  <2>3. \A j \in 0 .. i : j \in G
    BY <1>1, <2>1, <2>2, IntervalInduction
  <2> QED BY <1>1, <2>3
<1>9. join[i] = h[i] /\ h[i] \in Seq(S)
  BY <1>1, <1>4, <1>8
<1> QED BY <1>4, <1>7, <1>9 DEF ss

\* All of the iovecs, none of them, and one more.
LEMMA JoinedSteps ==
  ASSUME NEW S, NEW p \in Seq(Seq(S))
  PROVE  /\ Joined(p, Len(p)) = FlattenSeq(p) /\ FlattenSeq(p) \in Seq(S)
         /\ Joined(p, 0) = <<>>
         /\ \A i \in 0 .. Len(p) : Joined(p, i) \in Seq(S) /\ Bytes(p, i) \in Nat
         /\ \A i \in 0 .. Len(p) : i < Len(p) =>
               /\ p[i + 1] \in Seq(S)
               /\ Bytes(p, i + 1) = Bytes(p, i) + Len(p[i + 1])
               /\ FlattenSeq(p)
                    = Joined(p, i) \o (p[i + 1] \o FlattenSeq(SubSeq(p, i + 2, Len(p))))
               /\ SubSeq(p, i + 2, Len(p)) \in Seq(Seq(S))
<1>1. Len(p) \in Nat /\ \A i \in 1 .. Len(p) : p[i] \in Seq(S)
  BY LenProperties, ElementOfSeq
<1>2. Joined(p, Len(p)) = FlattenSeq(p) /\ FlattenSeq(p) \in Seq(S)
  <2>1. SubSeq(p, 1, Len(p)) = p
    BY SubSeqFull
  <2>2. Len(p) \in 0 .. Len(p)
    BY <1>1
  <2> QED BY <2>1, <2>2, JoinedIsFlat
<1>3. Joined(p, 0) = <<>>
  <2>1. 0 \in 0 .. Len(p) /\ SubSeq(p, 1, 0) = <<>>
    BY <1>1, SubSeqEmpty
  <2>2. Joined(p, 0) = FlattenSeq(SubSeq(p, 1, 0))
    BY <2>1, JoinedIsFlat
  <2> QED BY <2>1, <2>2, FlattenProperties
<1>4. \A i \in 0 .. Len(p) : Joined(p, i) \in Seq(S) /\ Bytes(p, i) \in Nat
  <2>1. \A i \in 0 .. Len(p) : Joined(p, i) \in Seq(S)
    BY JoinedIsFlat
  <2> QED BY <2>1, LenProperties DEF Bytes
<1>5. ASSUME NEW i \in 0 .. Len(p), i < Len(p)
      PROVE  /\ p[i + 1] \in Seq(S)
             /\ Bytes(p, i + 1) = Bytes(p, i) + Len(p[i + 1])
             /\ FlattenSeq(p)
                  = Joined(p, i) \o (p[i + 1] \o FlattenSeq(SubSeq(p, i + 2, Len(p))))
             /\ SubSeq(p, i + 2, Len(p)) \in Seq(Seq(S))
  <2> DEFINE a == SubSeq(p, 1, i)
             b == SubSeq(p, 1, i + 1)
             c == SubSeq(p, i + 2, Len(p))
             e == p[i + 1]
  <2>1. i + 1 \in 0 .. Len(p) /\ i + 1 \in 1 .. Len(p) /\ (i + 1) + 1 = i + 2
    BY <1>1, <1>5
  <2>2. /\ a \in Seq(Seq(S)) /\ Len(a) = i
        /\ b \in Seq(Seq(S)) /\ Len(b) = i + 1
        /\ c \in Seq(Seq(S)) /\ b \o c = p
    BY <2>1, SplitAt
  <2>3. e \in Seq(S)
    BY <1>1, <2>1
  <2>4. b = Append(a, e)
    <3>1. (\A j \in 1 .. i : a[j] = p[j]) /\ \A j \in 1 .. i + 1 : b[j] = p[j]
      BY <1>1, <2>1, SubSeqProperties
    <3> HIDE DEF a, b
    <3>2. /\ Append(a, e) \in Seq(Seq(S)) /\ Len(Append(a, e)) = i + 1
          /\ \A j \in 1 .. i + 1 : Append(a, e)[j] = p[j]
      BY <2>1, <2>2, <2>3, <3>1, AppendProperties
    <3> QED BY <2>2, <3>1, <3>2, SeqEqual
  <2> HIDE DEF a, b, c, e
  <2>5. /\ FlattenSeq(a) \in Seq(S) /\ FlattenSeq(c) \in Seq(S)
        /\ FlattenSeq(b) = FlattenSeq(a) \o e
    BY <2>2, <2>3, <2>4, FlattenProperties
  <2>6. FlattenSeq(p) = FlattenSeq(b) \o FlattenSeq(c)
    BY <2>2, FlattenConcat
  <2>7. (FlattenSeq(a) \o e) \o FlattenSeq(c) = FlattenSeq(a) \o (e \o FlattenSeq(c))
    BY <2>3, <2>5, ConcatAssociates, SMTT(30)
  <2>8. Joined(p, i) = FlattenSeq(a) /\ Joined(p, i + 1) = FlattenSeq(b)
    BY <2>1, JoinedIsFlat DEF a, b
  <2>9. Bytes(p, i + 1) = Bytes(p, i) + Len(e)
    BY <2>3, <2>5, <2>8, ConcatProperties DEF Bytes
  <2> QED BY <2>2, <2>3, <2>5, <2>6, <2>7, <2>8, <2>9 DEF c, e
<1> QED BY <1>2, <1>3, <1>4, <1>5

\* Whatever the kernel took, what it took and what is offered next are what was
\* to be written; nothing is left when it took all.
LEMMA AdvanceTakes ==
  ASSUME NEW S, NEW p \in Seq(Seq(S)), NEW n \in 0 .. Len(FlattenSeq(p))
  PROVE  /\ Advance(p, n) \in Seq(Seq(S))
         /\ SubSeq(FlattenSeq(p), 1, n) \in Seq(S)
         /\ SubSeq(FlattenSeq(p), 1, n) \o FlattenSeq(Advance(p, n)) = FlattenSeq(p)
         /\ n = Len(FlattenSeq(p)) => Advance(p, n) = <<>>
<1> DEFINE s == FlattenSeq(p)
           Fits == {j \in 0 .. Len(p) : Bytes(p, j) <= n}
           i == Max(Fits)
<1>1. /\ s \in Seq(S) /\ Len(s) \in Nat /\ Len(p) \in Nat /\ Bytes(p, Len(p)) = Len(s)
      /\ Bytes(p, 0) = 0
      /\ \A j \in 0 .. Len(p) : Joined(p, j) \in Seq(S) /\ Bytes(p, j) \in Nat
  <2>1. /\ s \in Seq(S) /\ Joined(p, Len(p)) = s /\ Joined(p, 0) = <<>>
        /\ \A j \in 0 .. Len(p) : Joined(p, j) \in Seq(S) /\ Bytes(p, j) \in Nat
    BY JoinedSteps
  <2>2. Len(s) \in Nat /\ Len(p) \in Nat
    BY <2>1, LenProperties
  <2> HIDE DEF s
  <2> QED BY <2>1, <2>2 DEF Bytes
<1>2. i \in 0 .. Len(p) /\ Bytes(p, i) <= n /\ \A j \in Fits : i >= j
  <2>1. Fits \in SUBSET Nat /\ IsFiniteSet(Fits)
    <3>1. IsFiniteSet(0 .. Len(p))
      BY <1>1, FS_Interval
    <3> QED BY <3>1, FS_Subset
  <2>2. 0 \in Fits
    BY <1>1
  <2>3. \E m \in Fits : \A y \in Fits : m >= y
    <3> HIDE DEF Fits
    <3> QED BY <2>1, <2>2, GreatestOfFinite
  <2>4. i \in Fits /\ \A j \in Fits : i >= j
    <3> HIDE DEF Fits
    <3> QED BY <2>3 DEF Max
  <2> QED BY <2>4
<1>3. n \in Nat /\ n <= Len(s)
  BY <1>1
<1>4. n = Len(s) => i = Len(p)
  <2>1. Len(p) \in 0 .. Len(p)
    BY <1>1
  <2>2. n = Len(s) => Len(p) \in Fits
    BY <1>1, <2>1
  <2> HIDE DEF Fits
  <2>3. n = Len(s) => i >= Len(p)
    BY <1>2, <2>2
  <2> HIDE DEF i
  <2> QED BY <1>1, <1>2, <2>3
<1>5. Advance(p, n)
        = IF i = Len(p) THEN <<>>
          ELSE <<SubSeq(p[i + 1], n - Bytes(p, i) + 1, Len(p[i + 1]))>>
                 \o SubSeq(p, i + 2, Len(p))
  BY DEF Advance
<1>6. i < Len(p) => Bytes(p, i + 1) > n
  <2>1. i < Len(p) => i + 1 \in 0 .. Len(p) /\ ~(i >= i + 1)
    BY <1>1, <1>2
  <2>2. i < Len(p) => i + 1 \notin Fits
    BY <1>2, <2>1
  <2> HIDE DEF i
  <2> QED BY <1>1, <1>3, <2>1, <2>2
<1> HIDE DEF i, s, Fits
<1>7. CASE i = Len(p)
  <2>1. n = Len(s) /\ Advance(p, n) = <<>>
    BY <1>1, <1>2, <1>3, <1>5, <1>7
  <2>2. SubSeq(s, 1, n) = s /\ s \o <<>> = s
    BY <1>1, <2>1, SubSeqFull, ConcatEmptySeq
  <2>3. FlattenSeq(Advance(p, n)) = <<>>
    BY <2>1, FlattenProperties
  <2> QED BY <1>1, <2>1, <2>2, <2>3 DEF s
<1>8. CASE i # Len(p)
  <2> DEFINE a == Joined(p, i)
             e == p[i + 1]
             c == SubSeq(p, i + 2, Len(p))
             m == n - Bytes(p, i)
             e1 == SubSeq(e, 1, m)
             e2 == SubSeq(e, m + 1, Len(e))
  <2>1. i < Len(p)
    BY <1>1, <1>2, <1>8
  <2>2. /\ e \in Seq(S) /\ Bytes(p, i + 1) = Bytes(p, i) + Len(e)
        /\ s = a \o (e \o FlattenSeq(c)) /\ c \in Seq(Seq(S)) /\ a \in Seq(S)
    BY <1>1, <1>2, <2>1, JoinedSteps DEF s
  <2>3. Len(e) \in Nat /\ Bytes(p, i) \in Nat /\ Len(a) = Bytes(p, i)
    BY <1>1, <1>2, <2>2, LenProperties DEF Bytes
  <2>4. m \in 0 .. Len(e)
    BY <1>2, <1>3, <1>6, <2>1, <2>2, <2>3
  <2>5. e1 \in Seq(S) /\ Len(e1) = m /\ e2 \in Seq(S) /\ e1 \o e2 = e
    BY <2>2, <2>4, SplitAt
  <2>6. Advance(p, n) = <<e2>> \o c
    BY <1>5, <1>8
  <2>7. Len(a) + m = n
    BY <1>3, <2>3
  <2> HIDE DEF a, e, c, m, e1, e2
  <2>8. /\ Advance(p, n) \in Seq(Seq(S))
        /\ FlattenSeq(Advance(p, n)) = e2 \o FlattenSeq(c)
        /\ FlattenSeq(c) \in Seq(S)
    <3>1. <<e2>> \in Seq(Seq(S))
      BY <2>5
    <3>2. FlattenSeq(<<e2>> \o c) = FlattenSeq(<<e2>>) \o FlattenSeq(c)
      BY <2>2, <3>1, FlattenConcat
    <3>3. FlattenSeq(<<e2>>) = e2 /\ FlattenSeq(c) \in Seq(S)
      BY <2>2, <2>5, FlattenProperties
    <3>4. <<e2>> \o c \in Seq(Seq(S))
      BY <2>2, <3>1, ConcatProperties
    <3> QED BY <2>6, <3>2, <3>3, <3>4
  <2> DEFINE z == FlattenSeq(c)
  <2>9. z \in Seq(S) /\ s = a \o (e \o z)
    BY <2>2, <2>8
  <2> HIDE DEF z
  <2>10. s = (a \o e1) \o (e2 \o z)
    <3>1. \A x, y, w \in Seq(S) : (x \o y) \o w = x \o (y \o w)
      BY ConcatAssociates, SMTT(30)
    <3>2. (e1 \o e2) \o z = e1 \o (e2 \o z)
      BY <2>5, <2>9, <3>1
    <3>3. e2 \o z \in Seq(S)
      BY <2>5, <2>9, ConcatProperties
    <3>4. (a \o e1) \o (e2 \o z) = a \o (e1 \o (e2 \o z))
      BY <2>2, <2>5, <3>1, <3>3
    <3> QED BY <2>5, <2>9, <3>2, <3>4
  <2>11. a \o e1 \in Seq(S) /\ Len(a \o e1) = n /\ e2 \o z \in Seq(S)
    BY <2>2, <2>5, <2>7, <2>9, ConcatProperties
  <2>12. SubSeq(s, 1, n) = a \o e1
    <3>1. \A x, y \in Seq(S) : SubSeq(x \o y, 1, Len(x)) = x
      BY FrontOfConcat
    <3> QED BY <2>10, <2>11, <3>1
  <2> QED BY <1>4, <1>8, <2>8, <2>10, <2>11, <2>12 DEF s, z
<1> QED BY <1>7, <1>8


-----------------------------------------------------------------------------
(* What a line is in the file, plain and coloured                          *)

\* A line without its newline, and the texts write() may make of it.
Body(w, k, shape) == FlattenSeq(Front(Line(w, k, shape)))
Full(w, k, shape) == Body(w, k, shape) \o <<Byte(w, k, "newline")>>
Coloured(w, k, shape, off) ==
    LevelColor(w, k, off) \o
       (Body(w, k, shape) \o (<<Byte(w, k, "reset")>> \o <<Byte(w, k, "newline")>>))
Texts(w, k, shape) ==
    {Full(w, k, shape)} \cup {Coloured(w, k, shape, off) : off \in BOOLEAN}

\* The bytes of a line are of its thread and number, and of four kinds.
LEMMA ByteTypes ==
  ASSUME NEW w, NEW k
  PROVE  /\ \A mark \in Marks : Byte(w, k, mark) \in OfLine(w, k)
         /\ \A mark : Byte(w, k, mark).mark = mark
         /\ \A b \in OfLine(w, k) : b.by = w /\ b.line = k /\ b.mark \in Marks
<1> QED BY DEF Byte, OfLine

\* The iovecs of a line are some of text and the newline.
LEMMA LineParts ==
  ASSUME NEW w, NEW k, NEW shape \in Seq(Nat)
  PROVE  /\ Line(w, k, shape) \in Seq(Seq(OfLine(w, k)))
         /\ Len(Line(w, k, shape)) \in Nat \ {0}
         /\ Front(Line(w, k, shape)) \in Seq(Seq({Byte(w, k, "text")}))
         /\ Last(Line(w, k, shape)) = <<Byte(w, k, "newline")>>
         /\ Line(w, k, shape)
              = Front(Line(w, k, shape)) \o << <<Byte(w, k, "newline")>> >>
<1> DEFINE t == Byte(w, k, "text")
           n == <<Byte(w, k, "newline")>>
           S == OfLine(w, k)
           x == [i \in 1 .. Len(shape) |-> [j \in 1 .. shape[i] |-> t]]
<1>1. t \in S /\ n \in Seq(S)
  BY ByteTypes DEF Marks
<1>2. x \in Seq(Seq({t})) /\ Len(x) = Len(shape) /\ Len(x) \in Nat
  <2>1. Len(shape) \in Nat /\ \A i \in 1 .. Len(shape) : shape[i] \in Nat
    BY LenProperties, ElementOfSeq
  <2>2. \A i \in 1 .. Len(shape) : [j \in 1 .. shape[i] |-> t] \in Seq({t})
    BY <2>1
  <2> QED BY <2>1, <2>2
<1>3. Line(w, k, shape) = x \o <<n>>
  BY DEF Line
<1>4. Seq({t}) \subseteq Seq(S)
  BY <1>1
<1> HIDE DEF t, n, S, x
<1>5. x \in Seq(Seq(S)) /\ <<n>> \in Seq(Seq(S)) /\ Len(<<n>>) = 1 /\ <<n>>[1] = n
  BY <1>1, <1>2, <1>4
<1> DEFINE l == x \o <<n>>
<1>6. l \in Seq(Seq(S)) /\ Len(l) = Len(x) + 1 /\ l[Len(x) + 1] = n
      /\ \A i \in 1 .. Len(x) : l[i] = x[i]
  <2> DEFINE T == Seq(S)
  <2>1. x \in Seq(T) /\ <<n>> \in Seq(T)
    BY <1>5
  <2> HIDE DEF T
  <2>2. /\ l \in Seq(T) /\ Len(l) = Len(x) + Len(<<n>>)
        /\ \A i \in 1 .. Len(x) + Len(<<n>>) :
              l[i] = IF i <= Len(x) THEN x[i] ELSE <<n>>[i - Len(x)]
    BY <2>1, ConcatProperties
  <2> HIDE DEF l
  <2>3. Len(l) = Len(x) + 1 /\ \A i \in 1 .. Len(x) : l[i] = x[i]
    BY <1>2, <1>5, <2>2
  <2>4. l[Len(x) + 1] = n
    <3>1. Len(x) + 1 \in 1 .. Len(x) + 1 /\ ~(Len(x) + 1 <= Len(x))
          /\ (Len(x) + 1) - Len(x) = 1
      BY <1>2
    <3> QED BY <1>5, <2>2, <3>1
  <2> QED BY <2>2, <2>3, <2>4 DEF T
<1> HIDE DEF l
<1>7. Front(l) = x
  <2>1. Len(l) - 1 = Len(x) /\ Len(x) \in 0 .. Len(l)
    BY <1>2, <1>6
  <2>2. /\ SubSeq(l, 1, Len(x)) \in Seq(Seq(S)) /\ Len(SubSeq(l, 1, Len(x))) = Len(x)
        /\ \A i \in 1 .. Len(x) : SubSeq(l, 1, Len(x))[i] = l[i]
    <3>1. \A i \in 1 .. Len(l) : l[i] \in Seq(S)
      BY <1>6, ElementOfSeq
    <3> QED BY <1>2, <1>6, <2>1, <3>1, SplitAt, SubSeqProperties
  <2>3. SubSeq(l, 1, Len(x)) = x
    BY <1>5, <1>6, <2>2, SeqEqual
  <2> QED BY <2>1, <2>3 DEF Front
<1>8. Last(l) = n
  BY <1>6 DEF Last
<1>9. /\ l \in Seq(Seq(S)) /\ Len(l) \in Nat \ {0} /\ Front(l) \in Seq(Seq({t}))
      /\ Last(l) = n /\ l = Front(l) \o <<n>>
  <2>1. l = x \o <<n>>
    BY DEF l
  <2> QED BY <1>2, <1>6, <1>7, <1>8, <2>1
<1>10. Line(w, k, shape) = l
  BY <1>3 DEF l
<1> QED BY <1>9, <1>10 DEF t, n, S

\* What the parts of a text are.
LEMMA TextParts ==
  ASSUME NEW w, NEW k, NEW shape \in Seq(Nat), NEW off \in BOOLEAN
  PROVE  /\ Body(w, k, shape) \in Seq({Byte(w, k, "text")})
         /\ Body(w, k, shape) \in Seq(OfLine(w, k))
         /\ LevelColor(w, k, off) \in Seq({Byte(w, k, "color")})
         /\ LevelColor(w, k, off) \in Seq(OfLine(w, k))
         /\ Len(LevelColor(w, k, off)) = IF off THEN 0 ELSE 1
         /\ <<Byte(w, k, "reset")>> \in Seq(OfLine(w, k))
         /\ <<Byte(w, k, "newline")>> \in Seq(OfLine(w, k))
<1> DEFINE S == OfLine(w, k)
           t == Byte(w, k, "text")
           c == Byte(w, k, "color")
<1>1. /\ t \in S /\ c \in S /\ Byte(w, k, "reset") \in S /\ Byte(w, k, "newline") \in S
  BY ByteTypes DEF Marks
<1>2. Body(w, k, shape) \in Seq({t})
  BY LineParts, FlattenProperties DEF Body
<1>3. LevelColor(w, k, off) \in Seq({c}) /\ Len(LevelColor(w, k, off)) = IF off THEN 0 ELSE 1
  <2>1. LevelColor(w, k, off) = IF off THEN <<>> ELSE <<c>>
    BY DEF LevelColor
  <2> HIDE DEF c
  <2>2. <<>> \in Seq({c}) /\ <<c>> \in Seq({c}) /\ Len(<<>>) = 0 /\ Len(<<c>>) = 1
    OBVIOUS
  <2> QED BY <2>1, <2>2
<1> HIDE DEF S, t, c
<1>4. Seq({t}) \subseteq Seq(S) /\ Seq({c}) \subseteq Seq(S)
  BY <1>1
<1> QED BY <1>1, <1>2, <1>3, <1>4 DEF S, t, c

\* The plain array joined is the line; the coloured one is the line with the
\* colour before it and the reset before its newline.
LEMMA ArraysAreTexts ==
  ASSUME NEW w, NEW k, NEW shape \in Seq(Nat), NEW off \in BOOLEAN
  PROVE  /\ FlattenSeq(Line(w, k, shape)) = Full(w, k, shape)
         /\ Layout(Line(w, k, shape), w, k, off) \in Seq(Seq(OfLine(w, k)))
         /\ FlattenSeq(Layout(Line(w, k, shape), w, k, off)) = Coloured(w, k, shape, off)
<1> DEFINE S == OfLine(w, k)
           l == Line(w, k, shape)
           f == Front(l)
           n == <<Byte(w, k, "newline")>>
           r == <<Byte(w, k, "reset")>>
           c == LevelColor(w, k, off)
<1>1. f \in Seq(Seq(S)) /\ Last(l) = n /\ l = f \o <<n>>
  <2>1. f \in Seq(Seq({Byte(w, k, "text")})) /\ Last(l) = n /\ l = f \o <<n>>
    BY LineParts
  <2>2. Byte(w, k, "text") \in S
    BY ByteTypes DEF Marks
  <2> HIDE DEF S, l, f, n
  <2>3. Seq({Byte(w, k, "text")}) \subseteq Seq(S)
    BY <2>2
  <2>4. f \in Seq(Seq(S))
    BY <2>1, <2>3
  <2> QED BY <2>1, <2>4
<1>2. c \in Seq(S) /\ r \in Seq(S) /\ n \in Seq(S)
  BY TextParts
<1>3. Body(w, k, shape) = FlattenSeq(f)
  BY DEF Body
<1>4. Layout(l, w, k, off) = <<c>> \o f \o <<r, Last(l)>>
  BY DEF Layout
<1>5. Full(w, k, shape) = FlattenSeq(f) \o n
  BY DEF Full, Body
<1>6. Coloured(w, k, shape, off) = c \o (FlattenSeq(f) \o (r \o n))
  BY DEF Coloured, Body
<1> HIDE DEF S, l, f, n, r, c
<1>7. <<c>> \in Seq(Seq(S)) /\ <<n>> \in Seq(Seq(S)) /\ <<r>> \in Seq(Seq(S))
      /\ <<r, n>> \in Seq(Seq(S)) /\ <<r, n>> = Append(<<r>>, n)
  BY <1>2
<1>8. FlattenSeq(<<c>>) = c /\ FlattenSeq(<<n>>) = n /\ FlattenSeq(<<r, n>>) = r \o n
      /\ FlattenSeq(f) \in Seq(S)
  <2>1. FlattenSeq(Append(<<r>>, n)) = FlattenSeq(<<r>>) \o n
    <3>1. \A ss \in Seq(Seq(S)), s \in Seq(S) :
             FlattenSeq(Append(ss, s)) = FlattenSeq(ss) \o s
      BY FlattenProperties
    <3> QED BY <1>2, <1>7, <3>1
  <2>2. /\ \A ss \in Seq(Seq(S)) : FlattenSeq(ss) \in Seq(S)
        /\ \A s \in Seq(S) : FlattenSeq(<<s>>) = s
    BY FlattenProperties
  <2>3. FlattenSeq(<<r, n>>) = FlattenSeq(<<r>>) \o n
    BY <1>7, <2>1
  <2> QED BY <1>1, <1>2, <2>2, <2>3
<1>9. FlattenSeq(l) = FlattenSeq(f) \o n
  <2>1. FlattenSeq(f \o <<n>>) = FlattenSeq(f) \o FlattenSeq(<<n>>)
    BY <1>1, <1>7, FlattenConcat
  <2> QED BY <1>1, <1>8, <2>1
<1>10. <<c>> \o f \in Seq(Seq(S)) /\ <<c>> \o f \o <<r, n>> \in Seq(Seq(S))
  BY <1>1, <1>7, ConcatProperties
<1>11. FlattenSeq(<<c>> \o f \o <<r, n>>) = (c \o FlattenSeq(f)) \o (r \o n)
  <2>1. FlattenSeq(<<c>> \o f) = FlattenSeq(<<c>>) \o FlattenSeq(f)
    BY <1>1, <1>7, FlattenConcat
  <2>2. FlattenSeq(<<c>> \o f \o <<r, n>>) = FlattenSeq(<<c>> \o f) \o FlattenSeq(<<r, n>>)
    BY <1>7, <1>10, FlattenConcat
  <2> QED BY <1>8, <2>1, <2>2
<1>12. (c \o FlattenSeq(f)) \o (r \o n) = c \o (FlattenSeq(f) \o (r \o n))
  <2> DEFINE b == FlattenSeq(f)
             e == r \o n
  <2>1. b \in Seq(S) /\ e \in Seq(S)
    BY <1>2, <1>8, ConcatProperties
  <2>2. \A x, y, z \in Seq(S) : (x \o y) \o z = x \o (y \o z)
    BY ConcatAssociates
  <2> HIDE DEF b, e
  <2>3. (c \o b) \o e = c \o (b \o e)
    BY <1>2, <2>1, <2>2
  <2> QED BY <2>3 DEF b, e
<1> QED BY <1>1, <1>4, <1>5, <1>6, <1>9, <1>10, <1>11, <1>12 DEF l, S

\* Whatever write() prepares is one of the texts.
LEMMA PreparedIsText ==
  ASSUME NEW w, NEW k, NEW shape \in Seq(Nat), NEW off \in BOOLEAN,
         NEW p \in Prepared(Line(w, k, shape), w, k, off)
  PROVE  p \in Seq(Seq(OfLine(w, k))) /\ FlattenSeq(p) \in Texts(w, k, shape)
<1>1. p = Line(w, k, shape) \/ p = Layout(Line(w, k, shape), w, k, off)
  BY DEF Prepared
<1>2. CASE p = Line(w, k, shape)
  BY <1>2, LineParts, ArraysAreTexts DEF Texts
<1>3. CASE p = Layout(Line(w, k, shape), w, k, off)
  BY <1>3, ArraysAreTexts DEF Texts
<1> QED BY <1>1, <1>2, <1>3


\* Every text, the colours taken away, is the line.
LEMMA TextsArePlain ==
  ASSUME NEW w \in Writers, NEW k \in Nat, NEW shape \in Seq(Nat),
         NEW text \in Texts(w, k, shape)
  PROVE  /\ text \in Seq(OfLine(w, k))
         /\ text # <<>> /\ text[Len(text)].mark = "newline"
         /\ Plain(text) = Full(w, k, shape)
         /\ Plain(Body(w, k, shape)) = Body(w, k, shape)
<1> DEFINE S == OfLine(w, k)
           P == [by : Writers, line : Nat, mark : {"text", "newline"}]
           b == Body(w, k, shape)
           n == <<Byte(w, k, "newline")>>
           r == <<Byte(w, k, "reset")>>
<1>1. b \in Seq(S) /\ n \in Seq(S) /\ r \in Seq(S) /\ b \o n \in Seq(S) /\ r \o n \in Seq(S)
      /\ b \o (r \o n) \in Seq(S)
  <2>1. b \in Seq(S) /\ n \in Seq(S) /\ r \in Seq(S)
    BY TextParts
  <2> HIDE DEF S, b, n, r
  <2> QED BY <2>1, ConcatProperties
<1>2. Kept(b, P) = b
  <2>1. b \in Seq({Byte(w, k, "text")})
    BY TextParts
  <2>2. Byte(w, k, "text") \in P
    BY DEF Byte
  <2> HIDE DEF b, P
  <2>3. \A i \in 1 .. Len(b) : b[i] \in P
    BY <2>1, <2>2, ElementOfSeq
  <2> QED BY <2>1, <2>3, KeptAll
<1>3. Kept(n, P) = n /\ Kept(r, P) = <<>>
  <2>1. n[1] \in P /\ r[1] \notin P /\ Len(n) = 1 /\ Len(r) = 1
    BY DEF Byte
  <2> HIDE DEF n, r, P, S
  <2>2. (\A i \in 1 .. Len(n) : n[i] \in P) /\ \A i \in 1 .. Len(r) : r[i] \notin P
    BY <2>1
  <2> QED BY <1>1, <2>2, KeptAll, KeptNone
<1>4. ASSUME NEW s \in Seq(S)
      PROVE  /\ s \o n \in Seq(S) /\ s \o n # <<>> /\ Len(s \o n) = Len(s) + 1
             /\ (s \o n)[Len(s \o n)].mark = "newline"
  <2>1. Len(n) = 1 /\ n[1].mark = "newline" /\ Len(s) \in Nat
    BY ByteTypes, LenProperties
  <2> HIDE DEF n, S
  <2>2. s \o n \in Seq(S) /\ Len(s \o n) = Len(s) + 1
        /\ \A i \in 1 .. Len(s) + 1 : (s \o n)[i] = IF i <= Len(s) THEN s[i] ELSE n[i - Len(s)]
    <3>1. s \o n \in Seq(S) /\ Len(s \o n) = Len(s) + Len(n)
          /\ \A i \in 1 .. Len(s) + Len(n) :
                (s \o n)[i] = IF i <= Len(s) THEN s[i] ELSE n[i - Len(s)]
      BY <1>1, ConcatProperties
    <3> QED BY <2>1, <3>1
  <2>3. Len(s) + 1 \in 1 .. Len(s) + 1 /\ ~(Len(s) + 1 <= Len(s)) /\ (Len(s) + 1) - Len(s) = 1
    BY <2>1
  <2> QED BY <2>1, <2>2, <2>3
<1>5. CASE text = Full(w, k, shape)
  <2>1. text = b \o n
    BY <1>5 DEF Full
  <2>2. Kept(b \o n, P) = Kept(b, P) \o Kept(n, P)
    <3> HIDE DEF b, n, P, S
    <3> QED BY <1>1, KeptConcat
  <2> QED BY <1>1, <1>2, <1>3, <1>4, <1>5, <2>1, <2>2 DEF Plain
<1>6. ASSUME NEW off \in BOOLEAN, text = Coloured(w, k, shape, off)
      PROVE  /\ text \in Seq(S) /\ text # <<>> /\ text[Len(text)].mark = "newline"
             /\ Kept(text, P) = b \o n
  <2> DEFINE c == LevelColor(w, k, off)
  <2>1. text = c \o (b \o (r \o n))
    BY <1>6 DEF Coloured
  <2>2. c \in Seq(S) /\ Kept(c, P) = <<>>
    <3>1. c \in Seq({Byte(w, k, "color")}) /\ c \in Seq(S)
      BY TextParts
    <3>2. Byte(w, k, "color") \notin P
      BY DEF Byte
    <3> HIDE DEF c, P, S
    <3>3. \A i \in 1 .. Len(c) : c[i] \notin P
      BY <3>1, <3>2, ElementOfSeq
    <3> QED BY <3>1, <3>3, KeptNone
  <2> HIDE DEF S, b, n, r, c, P
  <2>3. text = (c \o (b \o r)) \o n /\ c \o (b \o r) \in Seq(S)
    <3>0. \A x, y, z \in Seq(S) : (x \o y) \o z = x \o (y \o z)
      BY ConcatAssociates
    <3>1. b \o r \in Seq(S) /\ c \o (b \o r) \in Seq(S)
      BY <1>1, <2>2, ConcatProperties
    <3>2. (b \o r) \o n = b \o (r \o n)
      BY <1>1, <3>0
    <3>3. (c \o (b \o r)) \o n = c \o ((b \o r) \o n)
      BY <1>1, <2>2, <3>0, <3>1, ZenonT(30)
    <3> QED BY <2>1, <3>1, <3>2, <3>3
  <2>4. Kept(text, P) = Kept(c, P) \o (Kept(b, P) \o (Kept(r, P) \o Kept(n, P)))
    <3>0. \A x, y \in Seq(S) : Kept(x \o y, P) = Kept(x, P) \o Kept(y, P)
      BY KeptConcat
    <3>1. Kept(r \o n, P) = Kept(r, P) \o Kept(n, P)
      BY <1>1, <3>0
    <3>2. Kept(b \o (r \o n), P) = Kept(b, P) \o Kept(r \o n, P)
      BY <1>1, <3>0
    <3>3. Kept(c \o (b \o (r \o n)), P) = Kept(c, P) \o Kept(b \o (r \o n), P)
      BY <1>1, <2>2, <3>0
    <3> QED BY <2>1, <3>1, <3>2, <3>3
  <2>5. <<>> \o (b \o (<<>> \o n)) = b \o n
    <3>1. \A x \in Seq(S) : <<>> \o x = x
      BY ConcatEmptySeq
    <3> QED BY <1>1, <3>1
  <2>6. Kept(text, P) = b \o n
    BY <1>2, <1>3, <2>2, <2>4, <2>5
  <2>7. /\ (c \o (b \o r)) \o n \in Seq(S) /\ (c \o (b \o r)) \o n # <<>>
        /\ ((c \o (b \o r)) \o n)[Len((c \o (b \o r)) \o n)].mark = "newline"
    BY <1>4, <2>3
  <2> QED BY <2>3, <2>6, <2>7
<1>7. CASE \E off \in BOOLEAN : text = Coloured(w, k, shape, off)
  BY <1>2, <1>6, <1>7 DEF Plain, Full
<1> QED BY <1>5, <1>7 DEF Texts

\* Where the marks are in a text: the colour first, the reset behind everything
\* but the newline, and directly before it when there is a colour.
LEMMA MarksInText ==
  ASSUME NEW w \in Writers, NEW k \in Nat, NEW shape \in Seq(Nat),
         NEW text \in Texts(w, k, shape), NEW i \in 1 .. Len(text)
  PROVE  /\ text[i].mark = "color" => i = 1
         /\ text[i].mark = "newline" /\ text[1].mark = "color" =>
               i - 1 \in 1 .. Len(text) /\ text[i - 1].mark = "reset"
         /\ text[i].mark = "reset" => Plain(SubSeq(text, 1, i)) = Body(w, k, shape)
<1> DEFINE S == OfLine(w, k)
           P == [by : Writers, line : Nat, mark : {"text", "newline"}]
           b == Body(w, k, shape)
           n == <<Byte(w, k, "newline")>>
           r == <<Byte(w, k, "reset")>>
           m == Len(b)
<1>1. /\ b \in Seq(S) /\ n \in Seq(S) /\ r \in Seq(S) /\ m \in Nat
      /\ \A j \in 1 .. m : b[j].mark = "text"
  <2>1. b \in Seq({Byte(w, k, "text")}) /\ b \in Seq(S) /\ n \in Seq(S) /\ r \in Seq(S)
    BY TextParts
  <2>2. \A j \in 1 .. m : b[j] = Byte(w, k, "text")
    <3> HIDE DEF b
    <3> QED BY <2>1, ElementOfSeq
  <2> QED BY <2>1, <2>2, ByteTypes, LenProperties
<1>2. /\ Len(n) = 1 /\ n[1].mark = "newline" /\ Len(r) = 1 /\ r[1].mark = "reset"
  <2>1. /\ Byte(w, k, "newline").mark = "newline" /\ Byte(w, k, "reset").mark = "reset"
    BY DEF Byte
  <2> QED BY <2>1
<1>3. CASE text = Full(w, k, shape)
  <2>1. text = b \o n
    BY <1>3 DEF Full
  <2> HIDE DEF S, b, n, r
  <2>2. Len(text) = m + 1 /\ \A j \in 1 .. m + 1 : text[j] = IF j <= m THEN b[j] ELSE n[j - m]
    <3>1. Len(b \o n) = Len(b) + Len(n)
          /\ \A j \in 1 .. Len(b) + Len(n) : (b \o n)[j] = IF j <= m THEN b[j] ELSE n[j - m]
      BY <1>1, ConcatProperties
    <3> QED BY <1>2, <2>1, <3>1
  <2> HIDE DEF m
  <2>3. \A j \in 1 .. m + 1 : text[j].mark = IF j <= m THEN "text" ELSE "newline"
    <3> TAKE j \in 1 .. m + 1
    <3>1. CASE j <= m
      BY <1>1, <2>2, <3>1
    <3>2. CASE ~(j <= m)
      <4>1. j - m = 1
        BY <1>1, <3>2
      <4> QED BY <1>2, <2>2, <3>2, <4>1
    <3> QED BY <3>1, <3>2
  <2>4. i \in 1 .. m + 1 /\ 1 \in 1 .. m + 1
    BY <1>1, <2>2
  <2> QED BY <2>3, <2>4
<1>4. ASSUME NEW off \in BOOLEAN, text = Coloured(w, k, shape, off)
      PROVE  /\ text[i].mark = "color" => i = 1
             /\ text[i].mark = "newline" /\ text[1].mark = "color" =>
                   i - 1 \in 1 .. Len(text) /\ text[i - 1].mark = "reset"
             /\ text[i].mark = "reset" => Plain(SubSeq(text, 1, i)) = b
  <2> DEFINE c == LevelColor(w, k, off)
             l == Len(c)
             x == b \o (r \o n)
  <2>1. text = c \o x
    BY <1>4 DEF Coloured
  <2>2. /\ c \in Seq(S) /\ l \in {0, 1} /\ \A j \in 1 .. l : c[j].mark = "color"
    <3>1. c \in Seq({Byte(w, k, "color")}) /\ c \in Seq(S) /\ l \in {0, 1}
      BY TextParts
    <3>2. \A j \in 1 .. l : c[j] = Byte(w, k, "color")
      <4> HIDE DEF c
      <4> QED BY <3>1, ElementOfSeq
    <3> QED BY <3>1, <3>2, ByteTypes
  <2> HIDE DEF S, b, n, r, c
  <2>3. /\ r \o n \in Seq(S) /\ Len(r \o n) = 2
        /\ (r \o n)[1] = r[1] /\ (r \o n)[2] = n[1]
    <3>1. /\ r \o n \in Seq(S) /\ Len(r \o n) = Len(r) + Len(n)
          /\ \A j \in 1 .. Len(r) + Len(n) :
                (r \o n)[j] = IF j <= Len(r) THEN r[j] ELSE n[j - Len(r)]
      BY <1>1, ConcatProperties
    <3> QED BY <1>2, <3>1
  <2>4. x \in Seq(S) /\ Len(x) = m + 2
        /\ \A j \in 1 .. m + 2 : x[j] = IF j <= m THEN b[j] ELSE (r \o n)[j - m]
    <3>1. x \in Seq(S) /\ Len(x) = Len(b) + Len(r \o n)
          /\ \A j \in 1 .. Len(b) + Len(r \o n) :
                x[j] = IF j <= Len(b) THEN b[j] ELSE (r \o n)[j - Len(b)]
      BY <1>1, <2>3, ConcatProperties
    <3> QED BY <2>3, <3>1
  <2> HIDE DEF x
  <2>5. Len(text) = l + (m + 2)
        /\ \A j \in 1 .. l + (m + 2) : text[j] = IF j <= l THEN c[j] ELSE x[j - l]
    <3>1. Len(c \o x) = Len(c) + Len(x)
          /\ \A j \in 1 .. Len(c) + Len(x) :
                (c \o x)[j] = IF j <= Len(c) THEN c[j] ELSE x[j - Len(c)]
      <4>1. c \in Seq(S) /\ x \in Seq(S)
        BY <2>2, <2>4
      <4> QED BY <4>1, ConcatProperties
    <3> QED BY <2>1, <2>4, <3>1
  <2> HIDE DEF m, l
  <2>6. \A j \in 1 .. m + 2 :
           x[j].mark = IF j <= m THEN "text" ELSE IF j = m + 1 THEN "reset" ELSE "newline"
    <3> TAKE j \in 1 .. m + 2
    <3>1. CASE j <= m
      BY <1>1, <2>4, <3>1, SMTT(30)
    <3>2. CASE j = m + 1
      <4>1. ~(j <= m) /\ j - m = 1
        BY <1>1, <3>2
      <4> QED BY <1>2, <2>3, <2>4, <3>2, <4>1
    <3>3. CASE ~(j <= m) /\ j # m + 1
      <4>1. j - m = 2
        BY <1>1, <3>3
      <4> QED BY <1>2, <2>3, <2>4, <3>3, <4>1
    <3> QED BY <3>1, <3>2, <3>3
  <2>7. \A j \in 1 .. l + m + 2 :
           text[j].mark = IF j <= l THEN "color" ELSE IF j <= l + m THEN "text"
                          ELSE IF j = l + m + 1 THEN "reset" ELSE "newline"
    <3> TAKE j \in 1 .. l + m + 2
    <3>1. CASE j <= l
      BY <1>1, <2>2, <2>5, <3>1
    <3>2. CASE ~(j <= l)
      <4>1. j - l \in 1 .. m + 2 /\ j \in 1 .. l + (m + 2)
            /\ (j - l <= m <=> j <= l + m) /\ (j - l = m + 1 <=> j = l + m + 1)
        BY <1>1, <2>2, <3>2
      <4> QED BY <2>5, <2>6, <3>2, <4>1
    <3> QED BY <3>1, <3>2
  <2>8. Len(text) = l + m + 2 /\ i \in 1 .. l + m + 2 /\ 1 \in 1 .. l + m + 2
        /\ l + m + 1 \in 1 .. l + m + 2
    BY <1>1, <2>2, <2>5
  <2>9. text[i].mark = "color" => i = 1
    <3>1. text[i].mark = "color" => i <= l
      BY <2>7, <2>8
    <3> QED BY <2>2, <2>8, <3>1
  <2>10. text[i].mark = "newline" => i = l + m + 2
    BY <1>1, <2>2, <2>7, <2>8
  <2>11. text[i].mark = "newline" => i - 1 \in 1 .. Len(text) /\ text[i - 1].mark = "reset"
    <3>1. (l + m + 2) - 1 = l + m + 1 /\ ~(l + m + 1 <= l) /\ ~(l + m + 1 <= l + m)
      BY <1>1, <2>2
    <3>2. text[l + m + 1].mark = "reset"
      BY <2>7, <2>8, <3>1
    <3> QED BY <2>8, <2>10, <3>1, <3>2
  <2>12. text[i].mark = "reset" => i = l + m + 1
    BY <1>1, <2>2, <2>7, <2>8
  <2>13. Plain(SubSeq(text, 1, l + m + 1)) = b
    <3> DEFINE y == c \o (b \o r)
    <3>0. (\A u, v, z \in Seq(S) : (u \o v) \o z = u \o (v \o z))
          /\ \A u, v \in Seq(S) : u \o v \in Seq(S) /\ Len(u \o v) = Len(u) + Len(v)
      BY ConcatAssociates, ConcatCloses
    <3>1. b \o r \in Seq(S) /\ Len(b \o r) = m + 1 /\ y \in Seq(S) /\ Len(y) = l + (m + 1)
      <4>1. b \o r \in Seq(S) /\ Len(b \o r) = m + 1
        BY <1>1, <1>2, <3>0 DEF m
      <4>2. y \in Seq(S) /\ Len(y) = Len(c) + Len(b \o r)
        BY <2>2, <3>0, <4>1
      <4> QED BY <4>1, <4>2 DEF l
    <3>2. text = y \o n
      <4>1. (b \o r) \o n = b \o (r \o n)
        BY <1>1, <3>0
      <4>2. (c \o (b \o r)) \o n = c \o ((b \o r) \o n)
        <5> DEFINE e == b \o r
        <5>1. e \in Seq(S)
          BY <3>1
        <5> HIDE DEF e
        <5>2. \A u, v, z \in Seq(S) : (u \o v) \o z = u \o (v \o z)
          BY ConcatAssociates, SMTT(30)
        <5>3. c \in Seq(S) /\ n \in Seq(S)
          BY <1>1, <2>2
        <5>4. (c \o e) \o n = c \o (e \o n)
          BY <5>1, <5>2, <5>3
        <5> QED BY <5>4 DEF e
      <4> QED BY <2>1, <4>1, <4>2 DEF x
    <3>3. SubSeq(y \o n, 1, Len(y)) = y
      <4> HIDE DEF y
      <4> QED BY <1>1, <3>1, FrontOfConcat
    <3>4. Len(y) = l + m + 1
      BY <1>1, <2>2, <3>1
    <3>5. SubSeq(text, 1, l + m + 1) = y
      BY <3>2, <3>3, <3>4
    <3>6. Kept(c, P) = <<>> /\ Kept(r, P) = <<>>
      <4>1. (\A j \in 1 .. Len(c) : c[j] \notin P) /\ \A j \in 1 .. Len(r) : r[j] \notin P
        BY <1>2, <2>2 DEF l
      <4> HIDE DEF P
      <4> QED BY <1>1, <2>2, <4>1, KeptNone
    <3>7. Kept(b, P) = b
      BY TextsArePlain DEF Plain, b
    <3>8. Kept(y, P) = Kept(c, P) \o (Kept(b, P) \o Kept(r, P))
      <4> HIDE DEF P
      <4>0. \A u, v \in Seq(S) : Kept(u \o v, P) = Kept(u, P) \o Kept(v, P)
        BY KeptConcat
      <4>1. Kept(b \o r, P) = Kept(b, P) \o Kept(r, P)
        BY <1>1, <4>0
      <4>2. Kept(c \o (b \o r), P) = Kept(c, P) \o Kept(b \o r, P)
        BY <2>2, <3>1, <4>0
      <4> QED BY <4>1, <4>2
    <3>9. <<>> \o (b \o <<>>) = b
      BY <1>1, ConcatEmptySeq
    <3>10. Kept(y, P) = b
      BY <3>6, <3>7, <3>8, <3>9
    <3> QED BY <3>5, <3>10 DEF Plain
  <2> QED BY <2>9, <2>11, <2>12, <2>13
<1>5. CASE \E off \in BOOLEAN : text = Coloured(w, k, shape, off)
  BY <1>4, <1>5
<1> QED BY <1>3, <1>5 DEF Texts


-----------------------------------------------------------------------------
(* The inductive invariant                                                 *)

\* Any byte of any line.
AnyByte == [by : Writers, line : Nat, mark : Marks]

\* The shape of the variables; a thread in writev_all() has begun a line, and
\* what it has still to write is of that line.
Types ==
    /\ kind \in Kinds /\ colored \in BOOLEAN /\ closed \in BOOLEAN
    /\ busy \subseteq Writers
    /\ closed => busy = {} /\ kind = "file"
    /\ lines \in [Writers -> Seq(Shapes)]
    /\ \A w \in Writers : Len(lines[w]) <= MaxLines[w]
    /\ rest \in [Writers -> Seq(Seq(AnyByte))]
    /\ \A w \in Writers : rest[w] \in Seq(Seq(OfLine(w, Len(lines[w]))))
    /\ \A w \in Writers : w \notin busy => rest[w] = <<>>
    /\ \A w \in busy : lines[w] # <<>>
    /\ out \in Seq(AnyByte)
    /\ given_up \subseteq Writers \X Nat
    /\ shorts \in 0 .. MaxShort /\ errors \in 0 .. MaxErrors

\* What of the k-th line of w is still to be written.
Left(w, k) == IF k = Len(lines[w]) THEN FlattenSeq(rest[w]) ELSE <<>>

\* What has arrived of a line and something more are one of its texts; the
\* latter is what is left of it, unless it was given up.
Accounted(w, k) ==
    \E left \in Seq(OfLine(w, k)) :
        /\ Arrived(w, k) \o left \in Texts(w, k, lines[w][k])
        /\ <<w, k>> \in given_up \/ left = Left(w, k)

\* Every line begun is accounted for; of the others nothing is there yet.  A
\* line that was given up is not continued.
LinesInv ==
    \A w \in Writers :
        /\ \A k \in 1 .. Len(lines[w]) : Accounted(w, k)
        /\ \A k \in Nat : k > Len(lines[w]) =>
              Arrived(w, k) = <<>> /\ <<w, k>> \notin given_up
        /\ rest[w] # <<>> => <<w, Len(lines[w])>> \notin given_up

\* A tear has cost a short writev, and so has an end of the file in the middle
\* of a line, which may become a tear.
OpenEnd == IF out # <<>> /\ out[Len(out)].mark # "newline" THEN 1 ELSE 0
TearsInv == IsFiniteSet(Tears) /\ Cardinality(Tears) + OpenEnd <= shorts

IInv == Types /\ LinesInv /\ TearsInv

-----------------------------------------------------------------------------
(* The invariant holds at the start                                        *)

\* At the start nothing is written.
LEMMA Initially == Init => IInv
<1> SUFFICES ASSUME Init PROVE IInv
  OBVIOUS
<1>1. Types
  <2>1. rest \in [Writers -> Seq(Seq(AnyByte))] /\ \A w \in Writers : rest[w] = <<>>
    BY DEF Init
  <2>2. \A w \in Writers : rest[w] \in Seq(Seq(OfLine(w, Len(lines[w]))))
    BY <2>1
  <2>3. lines \in [Writers -> Seq(Shapes)] /\ \A w \in Writers : Len(lines[w]) <= MaxLines[w]
    BY ConstantsAssumption DEF Init
  <2>4. colored \in BOOLEAN
    <3>1. DOMAIN Factory = {"file", "console"}
      BY DEF Factory
    <3>2. Factory["file"].colored = {FALSE} /\ Factory["console"].colored = BOOLEAN
      BY DEF Factory
    <3>3. (kind = "file" \/ kind = "console") /\ colored \in Factory[kind].colored
      BY <3>1, ConstantsAssumption DEF Init
    <3>4. CASE kind = "file"
      BY <3>2, <3>3, <3>4
    <3>5. CASE kind = "console"
      BY <3>2, <3>3, <3>5
    <3> QED BY <3>3, <3>4, <3>5
  <2>5. 0 \in 0 .. MaxShort /\ 0 \in 0 .. MaxErrors
    BY ConstantsAssumption
  <2>6. /\ kind \in Kinds /\ closed = FALSE /\ busy = {} /\ out = <<>> /\ given_up = {}
        /\ shorts = 0 /\ errors = 0
    BY DEF Init
  <2>7. <<>> \in Seq(AnyByte)
    OBVIOUS
  <2> QED BY <2>1, <2>2, <2>3, <2>4, <2>5, <2>6, <2>7 DEF Types
<1>2. LinesInv
  <2>1. \A w \in Writers : Len(lines[w]) = 0 /\ rest[w] = <<>>
    BY DEF Init
  <2>2. out = <<>> /\ given_up = {}
    BY DEF Init
  <2>3. \A w, k : Arrived(w, k) = <<>>
    <3> TAKE w, k
    <3>1. <<>> \in Seq(AnyByte) /\ \A i \in 1 .. Len(<<>>) : <<>>[i] \notin OfLine(w, k)
      OBVIOUS
    <3>2. Kept(<<>>, OfLine(w, k)) = <<>>
      BY <3>1, KeptNone
    <3> QED BY <2>2, <3>2 DEF Arrived
  <2> QED BY <2>1, <2>2, <2>3 DEF LinesInv
<1>3. TearsInv
  <2>1. out = <<>> /\ Len(out) = 0 /\ shorts = 0
    BY DEF Init
  <2>2. Tears = {}
    BY <2>1 DEF Tears
  <2> QED BY <2>1, <2>2, FS_EmptySet DEF TearsInv, OpenEnd
<1> QED BY <1>1, <1>2, <1>3 DEF IInv

-----------------------------------------------------------------------------
(* The steps that write nothing                                            *)

\* Arrived depends on the file alone, and so do the tears.
LEMMA SameFile ==
  ASSUME UNCHANGED out
  PROVE  /\ \A w, k : Arrived(w, k)' = Arrived(w, k)
         /\ Tears' = Tears /\ OpenEnd' = OpenEnd
<1> QED BY DEF Arrived, Tears, OpenEnd

\* A write() that begins.
LEMMA WriteStep ==
  ASSUME IInv, NEW w \in Writers, NEW shape \in Shapes, NEW off \in {FALSE, colored},
         Write(w, shape, off)
  PROVE  IInv'
<1>k. PICK k : k = Len(lines[w]) + 1
  OBVIOUS
<1>1. /\ w \notin busy /\ ~closed /\ k <= MaxLines[w]
      /\ lines' = [lines EXCEPT ![w] = Append(@, shape)]
      /\ busy' = busy \cup {w}
      /\ UNCHANGED <<kind, colored, closed, out, shorts, errors>>
  BY <1>k DEF Write
<1>2. PICK p \in Prepared(Line(w, k, shape), w, k, off) : \E q \in Copied(p) :
         /\ rest' = [rest EXCEPT ![w] = q]
         /\ given_up' = IF q = <<>> THEN given_up \cup {<<w, k>>} ELSE given_up
  BY <1>k DEF Write
<1>3. PICK q \in Copied(p) :
         /\ rest' = [rest EXCEPT ![w] = q]
         /\ given_up' = IF q = <<>> THEN given_up \cup {<<w, k>>} ELSE given_up
  BY <1>2
<1>4. Types /\ LinesInv /\ TearsInv
  BY DEF IInv
<1>5. shape \in Seq(Nat) /\ off \in BOOLEAN /\ Len(lines[w]) \in Nat /\ k \in Nat
  <2>1. shape \in Seq(Nat)
    BY ConstantsAssumption
  <2>2. colored \in BOOLEAN /\ lines[w] \in Seq(Shapes)
    BY <1>4 DEF Types
  <2>3. Len(lines[w]) \in Nat
    BY <2>2, LenProperties
  <2>4. off \in BOOLEAN
    BY <2>2
  <2> QED BY <1>k, <2>1, <2>3, <2>4
<1>6. p \in Seq(Seq(OfLine(w, k))) /\ FlattenSeq(p) \in Texts(w, k, shape)
  BY <1>5, PreparedIsText
<1>7. q = p \/ q = <<>>
  BY DEF Copied
<1>8. /\ lines' \in [Writers -> Seq(Shapes)]
      /\ lines'[w] = Append(lines[w], shape) /\ Len(lines'[w]) = k /\ lines'[w][k] = shape
      /\ \A j \in 1 .. Len(lines[w]) : lines'[w][j] = lines[w][j]
      /\ \A v \in Writers : v # w => lines'[v] = lines[v]
  BY <1>k, <1>1, <1>4, AppendProperties DEF Types
<1>9. /\ rest' \in [Writers -> Seq(Seq(AnyByte))]
      /\ rest'[w] = q /\ q \in Seq(Seq(OfLine(w, k)))
      /\ \A v \in Writers : v # w => rest'[v] = rest[v]
  <2>1. q \in Seq(Seq(OfLine(w, k)))
    <3>1. <<>> \in Seq(Seq(OfLine(w, k)))
      OBVIOUS
    <3> QED BY <1>6, <1>7, <3>1
  <2>2. OfLine(w, k) \subseteq AnyByte
    BY <1>5 DEF OfLine, AnyByte
  <2>3. Seq(OfLine(w, k)) \subseteq Seq(AnyByte)
    BY <2>2
  <2>4. q \in Seq(Seq(AnyByte))
    BY <2>1, <2>3
  <2> QED BY <1>3, <1>4, <2>1, <2>4 DEF Types
<1>10. Types'
  <2>1. \A v \in Writers : Len(lines'[v]) <= MaxLines[v]
    BY <1>1, <1>4, <1>8 DEF Types
  <2>2. \A v \in Writers : rest'[v] \in Seq(Seq(OfLine(v, Len(lines'[v]))))
    BY <1>4, <1>8, <1>9 DEF Types
  <2>3. \A v \in Writers : v \notin busy' => rest'[v] = <<>>
    BY <1>1, <1>4, <1>9 DEF Types
  <2>4. \A v \in busy' : lines'[v] # <<>>
    <3>1. lines'[w] # <<>>
      BY <1>k, <1>5, <1>8
    <3> QED BY <1>1, <1>4, <1>8, <3>1 DEF Types
  <2>5. given_up' \subseteq Writers \X Nat
    BY <1>3, <1>4, <1>5 DEF Types
  <2>6. busy' \subseteq Writers /\ ~closed'
    BY <1>1, <1>4 DEF Types
  <2> QED BY <1>1, <1>4, <1>8, <1>9, <2>1, <2>2, <2>3, <2>4, <2>5, <2>6 DEF Types
<1>11. LinesInv'
  <2>1. \A v, j : Arrived(v, j)' = Arrived(v, j)
    BY <1>1, SameFile
  <2>2. ASSUME NEW v \in Writers, NEW j \in 1 .. Len(lines[v]) PROVE Accounted(v, j)'
    <3>1. PICK left \in Seq(OfLine(v, j)) :
             /\ Arrived(v, j) \o left \in Texts(v, j, lines[v][j])
             /\ <<v, j>> \in given_up \/ left = Left(v, j)
      BY <1>4 DEF LinesInv, Accounted
    <3>2. lines'[v][j] = lines[v][j]
      BY <1>8
    <3>3. Left(v, j)' = Left(v, j)
      <4>1. CASE v # w
        BY <1>8, <1>9, <4>1 DEF Left
      <4>2. CASE v = w
        <5>1. Left(v, j)' = <<>>
          BY <1>k, <1>5, <1>8, <4>2 DEF Left
        <5>2. rest[w] = <<>> /\ FlattenSeq(<<>>) = <<>>
          BY <1>1, <1>4, FlattenProperties DEF Types
        <5> QED BY <4>2, <5>1, <5>2 DEF Left
      <4> QED BY <4>1, <4>2
    <3>4. <<v, j>> \in given_up => <<v, j>> \in given_up'
      BY <1>3
    <3> QED BY <2>1, <3>1, <3>2, <3>3, <3>4 DEF Accounted
  <2>3. Accounted(w, k)'
    <3>1. Arrived(w, k)' = <<>>
      <4>1. k > Len(lines[w])
        BY <1>k, <1>5
      <4>2. Arrived(w, k) = <<>>
        BY <1>4, <1>5, <4>1 DEF LinesInv
      <4> QED BY <2>1, <4>2
    <3>2. FlattenSeq(p) \in Seq(OfLine(w, k)) /\ <<>> \o FlattenSeq(p) = FlattenSeq(p)
      <4>1. FlattenSeq(p) \in Seq(OfLine(w, k))
        BY <1>6, FlattenProperties
      <4> QED BY <4>1, ConcatEmptySeq
    <3>3. <<w, k>> \in given_up' \/ FlattenSeq(p) = Left(w, k)'
      BY <1>3, <1>7, <1>8, <1>9 DEF Left
    <3> QED BY <1>6, <1>8, <3>1, <3>2, <3>3 DEF Accounted
  <2>4. ASSUME NEW v \in Writers
        PROVE  /\ \A j \in 1 .. Len(lines[v])' : Accounted(v, j)'
               /\ \A j \in Nat : j > Len(lines[v])' =>
                     Arrived(v, j)' = <<>> /\ <<v, j>> \notin given_up'
               /\ rest[v]' # <<>> => <<v, Len(lines[v])'>> \notin given_up'
    <3>1. \A j \in 1 .. Len(lines[v])' : Accounted(v, j)'
      <4>1. ASSUME NEW j \in 1 .. Len(lines[v])'
            PROVE  j \in 1 .. Len(lines[v]) \/ (v = w /\ j = k)
        BY <1>k, <1>5, <1>8
      <4> QED BY <2>2, <2>3, <4>1
    <3>2. ASSUME NEW j \in Nat, j > Len(lines[v])'
          PROVE  Arrived(v, j)' = <<>> /\ <<v, j>> \notin given_up'
      <4>1. j > Len(lines[v]) /\ <<v, j>> # <<w, k>>
        BY <1>k, <1>5, <1>8, <3>2
      <4>2. Arrived(v, j) = <<>> /\ <<v, j>> \notin given_up
        BY <1>4, <4>1 DEF LinesInv
      <4> QED BY <1>3, <2>1, <4>1, <4>2
    <3>3. ASSUME rest[v]' # <<>> PROVE <<v, Len(lines[v])'>> \notin given_up'
      <4>1. CASE v # w
        BY <1>3, <1>4, <1>8, <1>9, <3>3, <4>1 DEF LinesInv
      <4>2. CASE v = w
        <5>1. q # <<>> /\ given_up' = given_up
          BY <1>3, <1>9, <3>3, <4>2
        <5>2. k > Len(lines[w])
          BY <1>k, <1>5
        <5> QED BY <1>4, <1>5, <1>8, <4>2, <5>1, <5>2 DEF LinesInv
      <4> QED BY <4>1, <4>2
    <3> QED BY <3>1, <3>2, <3>3
  <2> QED BY <2>4 DEF LinesInv
<1>12. TearsInv'
  <2>1. Tears' = Tears /\ OpenEnd' = OpenEnd /\ shorts' = shorts
    BY <1>1, SameFile
  <2> QED BY <1>4, <2>1 DEF TearsInv
<1> QED BY <1>10, <1>11, <1>12 DEF IInv

\* A writev that fails, and the end of a write().
LEMMA EndStep ==
  ASSUME IInv, NEW w \in Writers, WritevFails(w) \/ Return(w)
  PROVE  IInv'
<1>1. Types /\ LinesInv /\ TearsInv
  BY DEF IInv
<1>2. UNCHANGED <<kind, colored, closed, lines, out, shorts>>
  BY DEF WritevFails, Return
<1>3. /\ w \in busy /\ busy' \subseteq busy /\ errors' \in 0 .. MaxErrors
      /\ rest' = [rest EXCEPT ![w] = <<>>]
      /\ \A v \in Writers : v \notin busy' => v \notin busy \/ v = w
  <2>1. CASE WritevFails(w)
    BY <1>1, <2>1, ConstantsAssumption DEF WritevFails, Types
  <2>2. CASE Return(w)
    <3>1. rest' = rest /\ rest[w] = <<>> /\ busy' = busy \ {w} /\ errors' = errors /\ w \in busy
      BY <2>2 DEF Return
    <3> QED BY <1>1, <3>1 DEF Types
  <2> QED BY <2>1, <2>2
<1>4. \/ given_up' = given_up /\ rest' = rest
      \/ given_up' = given_up \cup {<<w, Len(lines[w])>>}
  <2>1. CASE WritevFails(w)
    BY <2>1 DEF WritevFails
  <2>2. CASE Return(w)
    BY <2>2 DEF Return
  <2> QED BY <2>1, <2>2
<1>5. /\ lines[w] \in Seq(Shapes) /\ Len(lines[w]) \in Nat /\ Len(lines[w]) >= 1
  <2>1. lines[w] \in Seq(Shapes) /\ lines[w] # <<>>
    BY <1>1, <1>3 DEF Types
  <2> QED BY <2>1, LenProperties, EmptySeq
<1>6. /\ rest' \in [Writers -> Seq(Seq(AnyByte))] /\ rest'[w] = <<>>
      /\ \A v \in Writers : v # w => rest'[v] = rest[v]
  BY <1>1, <1>3 DEF Types
<1>7. Types'
  <2>1. \A v \in Writers : rest'[v] \in Seq(Seq(OfLine(v, Len(lines[v]))))
    <3>1. <<>> \in Seq(Seq(OfLine(w, Len(lines[w]))))
      OBVIOUS
    <3>2. \A v \in Writers : rest[v] \in Seq(Seq(OfLine(v, Len(lines[v]))))
      BY <1>1 DEF Types
    <3> QED BY <1>6, <3>1, <3>2
  <2>2. \A v \in Writers : v \notin busy' => rest'[v] = <<>>
    BY <1>1, <1>3, <1>6 DEF Types
  <2>3. given_up' \subseteq Writers \X Nat
    BY <1>1, <1>4, <1>5 DEF Types
  <2> QED BY <1>1, <1>2, <1>3, <1>6, <2>1, <2>2, <2>3 DEF Types
<1>8. LinesInv'
  <2>1. \A v, j : Arrived(v, j)' = Arrived(v, j)
    BY <1>2, SameFile
  <2>2. ASSUME NEW v \in Writers, NEW j \in 1 .. Len(lines[v]) PROVE Accounted(v, j)'
    <3>1. PICK left \in Seq(OfLine(v, j)) :
             /\ Arrived(v, j) \o left \in Texts(v, j, lines[v][j])
             /\ <<v, j>> \in given_up \/ left = Left(v, j)
      BY <1>1 DEF LinesInv, Accounted
    <3>2. <<v, j>> \in given_up' \/ left = Left(v, j)'
      <4>1. given_up \subseteq given_up'
        BY <1>4
      <4>2. CASE v # w \/ j # Len(lines[w]) \/ rest' = rest
        <5>1. Left(v, j)' = Left(v, j)
          BY <1>2, <1>6, <4>2 DEF Left
        <5> QED BY <3>1, <4>1, <5>1
      <4>3. CASE v = w /\ j = Len(lines[w]) /\ rest' # rest
        BY <1>4, <4>3
      <4> QED BY <4>2, <4>3
    <3> QED BY <1>2, <2>1, <3>1, <3>2 DEF Accounted
  <2>3. ASSUME NEW v \in Writers, NEW j \in Nat, j > Len(lines[v])
        PROVE  Arrived(v, j)' = <<>> /\ <<v, j>> \notin given_up'
    <3>1. Arrived(v, j) = <<>> /\ <<v, j>> \notin given_up
      BY <1>1, <2>3 DEF LinesInv
    <3>2. <<v, j>> # <<w, Len(lines[w])>>
      BY <1>5, <2>3
    <3> QED BY <1>4, <2>1, <3>1, <3>2
  <2>4. ASSUME NEW v \in Writers, rest'[v] # <<>>
        PROVE  <<v, Len(lines[v])>> \notin given_up'
    <3>1. v # w /\ rest'[v] = rest[v]
      BY <1>6, <2>4
    <3> QED BY <1>1, <1>4, <2>4, <3>1 DEF LinesInv
  <2> QED BY <1>2, <2>2, <2>3, <2>4 DEF LinesInv
<1>9. TearsInv'
  <2>1. Tears' = Tears /\ OpenEnd' = OpenEnd /\ shorts' = shorts
    BY <1>2, SameFile
  <2> QED BY <1>1, <2>1 DEF TearsInv
<1> QED BY <1>7, <1>8, <1>9 DEF IInv

\* The destructor, and a step that changes nothing.
LEMMA IdleStep ==
  ASSUME IInv, Destroy \/ UNCHANGED vars
  PROVE  IInv'
<1>1. Types /\ LinesInv /\ TearsInv
  BY DEF IInv
<1>2. UNCHANGED <<kind, colored, rest, busy, out, shorts, errors, lines, given_up>>
  BY DEF Destroy, vars
<1>3. closed' \in BOOLEAN /\ (closed' => busy = {} /\ kind = "file")
  <2>1. CASE Destroy
    <3>1. DOMAIN Factory = {"file", "console"}
      BY DEF Factory
    <3>2. Factory["file"].owns = TRUE /\ Factory["console"].owns = FALSE
      BY DEF Factory
    <3>3. (kind = "file" \/ kind = "console") /\ closed' = Factory[kind].owns /\ busy = {}
      BY <1>1, <2>1, <3>1, ConstantsAssumption DEF Types, Destroy, Closes
    <3>4. CASE kind = "file"
      BY <3>2, <3>3, <3>4
    <3>5. CASE kind = "console"
      BY <3>2, <3>3, <3>5
    <3> QED BY <3>3, <3>4, <3>5
  <2>2. CASE UNCHANGED vars
    BY <1>1, <2>2 DEF vars, Types
  <2> QED BY <2>1, <2>2
<1>4. Types'
  BY <1>1, <1>2, <1>3 DEF Types
<1>5. LinesInv'
  <2>1. \A v, j : Arrived(v, j)' = Arrived(v, j)
    BY <1>2, SameFile
  <2>2. \A v, j : Left(v, j)' = Left(v, j)
    BY <1>2 DEF Left
  <2>3. \A v, j : Accounted(v, j)' <=> Accounted(v, j)
    BY <1>2, <2>1, <2>2 DEF Accounted
  <2> QED BY <1>1, <1>2, <2>1, <2>3 DEF LinesInv
<1>6. TearsInv'
  <2>1. Tears' = Tears /\ OpenEnd' = OpenEnd /\ shorts' = shorts
    BY <1>2, SameFile
  <2> QED BY <1>1, <2>1 DEF TearsInv
<1> QED BY <1>4, <1>5, <1>6 DEF IInv


-----------------------------------------------------------------------------
(* A writev                                                                *)

\* New bytes of one line are kept as that line's, and nobody else's.
LEMMA ArrivedGrows ==
  ASSUME NEW o \in Seq(AnyByte), NEW w \in Writers, NEW k \in Nat, NEW c \in Seq(OfLine(w, k))
  PROVE  /\ Kept(o \o c, OfLine(w, k)) = Kept(o, OfLine(w, k)) \o c
         /\ \A v, j : <<v, j>> # <<w, k>> =>
               Kept(o \o c, OfLine(v, j)) = Kept(o, OfLine(v, j))
<1>1. c \in Seq(AnyByte) /\ \A i \in 1 .. Len(c) : c[i] \in OfLine(w, k)
  <2>1. OfLine(w, k) \subseteq AnyByte
    BY DEF OfLine, AnyByte
  <2>2. Seq(OfLine(w, k)) \subseteq Seq(AnyByte)
    BY <2>1
  <2> QED BY <2>2, ElementOfSeq
<1>2. Kept(c, OfLine(w, k)) = c
  BY <1>1, KeptAll
<1>3. Kept(o \o c, OfLine(w, k)) = Kept(o, OfLine(w, k)) \o Kept(c, OfLine(w, k))
  BY <1>1, KeptConcat
<1>4. ASSUME NEW v, NEW j, <<v, j>> # <<w, k>>
      PROVE  Kept(o \o c, OfLine(v, j)) = Kept(o, OfLine(v, j))
  <2>1. \A b \in OfLine(w, k) : b \notin OfLine(v, j)
    <3>1. \A b \in OfLine(w, k) : b.by = w /\ b.line = k
      BY ByteTypes
    <3>2. \A b \in OfLine(v, j) : b.by = v /\ b.line = j
      BY ByteTypes
    <3> QED BY <1>4, <3>1, <3>2
  <2>2. Kept(c, OfLine(v, j)) = <<>>
    <3>1. \A i \in 1 .. Len(c) : c[i] \notin OfLine(v, j)
      BY <1>1, <2>1
    <3> QED BY <1>1, <3>1, KeptNone
  <2>3. Kept(o \o c, OfLine(v, j)) = Kept(o, OfLine(v, j)) \o Kept(c, OfLine(v, j))
    BY <1>1, KeptConcat
  <2>4. Kept(o, OfLine(v, j)) \in Seq(AnyByte)
    BY KeptIsJoined
  <2> QED BY <2>2, <2>3, <2>4, ConcatEmptySeq
<1> QED BY <1>2, <1>3, <1>4

\* The tears of a file, and whether it ends within a line.
TearsOf(o) == {i \in 1 .. Len(o) - 1 :
                 o[i].mark # "newline"
                   /\ <<o[i].by, o[i].line>> # <<o[i + 1].by, o[i + 1].line>>}
OpenOf(o) == IF o # <<>> /\ o[Len(o)].mark # "newline" THEN 1 ELSE 0

\* New bytes of one line make at most one tear, where they begin, and only if
\* the file ended within a line.
LEMMA TearsGrow ==
  ASSUME NEW o \in Seq(AnyByte), NEW w, NEW k, NEW c \in Seq(OfLine(w, k)),
         c \in Seq(AnyByte), IsFiniteSet(TearsOf(o))
  PROVE  /\ IsFiniteSet(TearsOf(o \o c))
         /\ Cardinality(TearsOf(o \o c)) \in Nat /\ Cardinality(TearsOf(o)) \in Nat
         /\ Cardinality(TearsOf(o \o c)) <= Cardinality(TearsOf(o)) + OpenOf(o)
         /\ c # <<>> /\ c[Len(c)].mark = "newline" => OpenOf(o \o c) = 0
<1> DEFINE d == o \o c
           n == Len(o)
           T == TearsOf(o)
           D == IF OpenOf(o) = 1 THEN {n} ELSE {}
<1>1. /\ d \in Seq(AnyByte) /\ Len(d) = n + Len(c) /\ n \in Nat /\ Len(c) \in Nat
      /\ \A i \in 1 .. n : d[i] = o[i]
      /\ \A i \in 1 .. Len(c) : d[n + i] = c[i]
  BY ConcatProperties, LenProperties
<1>2. \A i \in 1 .. Len(c) : c[i].by = w /\ c[i].line = k
  BY ElementOfSeq, ByteTypes
<1> HIDE DEF d
<1>3. TearsOf(d) \subseteq T \cup D
  <2> SUFFICES ASSUME NEW i \in TearsOf(d), i \notin T PROVE i \in D
    OBVIOUS
  <2>1. /\ i \in 1 .. Len(d) - 1 /\ d[i].mark # "newline"
        /\ <<d[i].by, d[i].line>> # <<d[i + 1].by, d[i + 1].line>>
    BY DEF TearsOf
  <2>2. CASE i < n
    <3>1. i \in 1 .. n - 1 /\ i \in 1 .. n /\ i + 1 \in 1 .. n
      BY <1>1, <2>1, <2>2
    <3>2. d[i] = o[i] /\ d[i + 1] = o[i + 1]
      BY <1>1, <3>1
    <3> QED BY <2>1, <3>1, <3>2 DEF TearsOf
  <2>3. CASE i = n
    <3>1. n \in 1 .. n /\ o # <<>> /\ d[n] = o[n]
      BY <1>1, <2>1, <2>3
    <3> QED BY <2>1, <2>3, <3>1 DEF OpenOf
  <2>4. CASE i > n
    <3>1. i - n \in 1 .. Len(c) /\ (i - n) + 1 \in 1 .. Len(c)
          /\ n + (i - n) = i /\ n + ((i - n) + 1) = i + 1
      BY <1>1, <2>1, <2>4
    <3>2. d[i] = c[i - n] /\ d[i + 1] = c[(i - n) + 1]
      BY <1>1, <3>1, SMTT(30)
    <3>3. d[i].by = w /\ d[i].line = k /\ d[i + 1].by = w /\ d[i + 1].line = k
      BY <1>2, <3>1, <3>2
    <3> QED BY <2>1, <3>3
  <2> QED BY <1>1, <2>1, <2>2, <2>3, <2>4
<1>4. /\ IsFiniteSet(T \cup D) /\ Cardinality(T) \in Nat /\ Cardinality(T \cup D) \in Nat
      /\ Cardinality(T \cup D) <= Cardinality(T) + OpenOf(o)
  <2>1. Cardinality(T) \in Nat
    BY FS_CardinalityType
  <2>2. CASE OpenOf(o) = 1
    <3>1. IsFiniteSet(T \cup {n})
          /\ Cardinality(T \cup {n}) = IF n \in T THEN Cardinality(T) ELSE Cardinality(T) + 1
      <4>1. IsFiniteSet(T)
        OBVIOUS
      <4> HIDE DEF T, n
      <4> QED BY <4>1, FS_AddElement
    <3> QED BY <2>1, <2>2, <3>1
  <2>3. CASE OpenOf(o) # 1
    <3>1. OpenOf(o) = 0 /\ T \cup D = T
      BY <2>3 DEF OpenOf
    <3> QED BY <2>1, <3>1
  <2> QED BY <2>2, <2>3
<1>5. IsFiniteSet(TearsOf(d)) /\ Cardinality(TearsOf(d)) <= Cardinality(T \cup D)
  <2> HIDE DEF T, D
  <2> QED BY <1>3, <1>4, FS_Subset
<1>6. Cardinality(TearsOf(d)) \in Nat
  BY <1>5, FS_CardinalityType
<1>7. ASSUME c # <<>>, c[Len(c)].mark = "newline" PROVE OpenOf(d) = 0
  <2>1. Len(c) \in 1 .. Len(c)
    BY <1>1, <1>7, EmptySeq
  <2>2. d[Len(d)] = c[Len(c)]
    BY <1>1, <2>1
  <2> QED BY <1>7, <2>2 DEF OpenOf
<1>8. OpenOf(o) \in Nat
  BY DEF OpenOf
<1> HIDE DEF T, D
<1>9. Cardinality(TearsOf(d)) <= Cardinality(T) + OpenOf(o)
  BY <1>4, <1>5, <1>6, <1>8
<1> QED BY <1>4, <1>5, <1>6, <1>7, <1>9 DEF d, T


\* The bytes of a line that are left end in its newline.
LEMMA LeftEndsLine ==
  ASSUME NEW S, NEW a \in Seq(S), NEW f \in Seq(S), f # <<>>,
         (a \o f)[Len(a \o f)].mark = "newline"
  PROVE  f[Len(f)].mark = "newline"
<1>1. Len(a) \in Nat /\ Len(f) \in Nat /\ Len(f) # 0
  BY LenProperties, EmptySeq
<1>2. Len(a \o f) = Len(a) + Len(f) /\ \A i \in 1 .. Len(f) : (a \o f)[Len(a) + i] = f[i]
  BY ConcatProperties
<1>3. Len(f) \in 1 .. Len(f)
  BY <1>1
<1>4. (a \o f)[Len(a \o f)] = f[Len(f)]
  BY <1>2, <1>3
<1> QED BY <1>4

\* One writev, whatever part of what is left it takes.
LEMMA WritevStep ==
  ASSUME IInv, NEW w \in Writers, Writev(w)
  PROVE  IInv'
<1>1. Types /\ LinesInv /\ TearsInv
  BY DEF IInv
<1>k. PICK k, p, F : k = Len(lines[w]) /\ p = rest[w] /\ F = FlattenSeq(p)
  OBVIOUS
<1>2. /\ w \in busy /\ p # <<>>
      /\ UNCHANGED <<kind, colored, closed, busy, errors, lines, given_up>>
  BY <1>k DEF Writev
<1>3. /\ lines[w] \in Seq(Shapes) /\ k \in Nat /\ k >= 1 /\ k \in 1 .. Len(lines[w])
  <2>1. lines[w] \in Seq(Shapes) /\ lines[w] # <<>>
    BY <1>1, <1>2 DEF Types
  <2>2. k \in Nat /\ k # 0
    BY <1>k, <2>1, LenProperties, EmptySeq
  <2> QED BY <1>k, <2>1, <2>2
<1>4. lines[w][k] \in Seq(Nat)
  BY <1>3, ElementOfSeq, ConstantsAssumption
<1> DEFINE S == OfLine(w, k)
<1>5. p \in Seq(Seq(S)) /\ F \in Seq(S) /\ Joined(p, Len(p)) = F
  <2>1. p \in Seq(Seq(S))
    BY <1>1, <1>k DEF Types
  <2> HIDE DEF S
  <2> QED BY <1>k, <2>1, JoinedSteps
<1>6. PICK n \in 0 .. Len(F) :
         /\ out' = out \o SubSeq(F, 1, n)
         /\ rest' = [rest EXCEPT ![w] = Advance(p, n)]
         /\ \/ n = Len(F) /\ shorts' = shorts
            \/ shorts < MaxShort /\ shorts' = shorts + 1
  <2>1. Bytes(Offered(p), Len(Offered(p))) = Len(F)
    BY <1>5 DEF Bytes, Offered
  <2> QED BY <1>k, <1>5, <2>1 DEF Writev
<1> DEFINE a == Advance(p, n)
           c == SubSeq(F, 1, n)
           g == FlattenSeq(a)
<1>7. /\ a \in Seq(Seq(S)) /\ c \in Seq(S) /\ g \in Seq(S) /\ c \o g = F
  <2> HIDE DEF S
  <2>1. n \in 0 .. Len(FlattenSeq(p))
    BY <1>k
  <2>2. /\ a \in Seq(Seq(S)) /\ c \in Seq(S) /\ c \o g = F
    BY <1>k, <1>5, <2>1, AdvanceTakes
  <2> QED BY <2>2, FlattenProperties
<1>8. out' = out \o c /\ rest' = [rest EXCEPT ![w] = a]
  BY <1>6
<1>9. out \in Seq(AnyByte) /\ S \subseteq AnyByte
  BY <1>1, <1>3 DEF Types, OfLine, AnyByte
<1> HIDE DEF a, c, g, S
<1>10. c \in Seq(AnyByte) /\ a \in Seq(Seq(AnyByte)) /\ out' \in Seq(AnyByte)
  <2>1. Seq(S) \subseteq Seq(AnyByte)
    BY <1>9
  <2>2. Seq(Seq(S)) \subseteq Seq(Seq(AnyByte))
    BY <2>1
  <2>3. c \in Seq(AnyByte)
    BY <1>7, <2>1
  <2> QED BY <1>7, <1>8, <1>9, <2>2, <2>3, ConcatProperties
<1>11. /\ rest' \in [Writers -> Seq(Seq(AnyByte))] /\ rest'[w] = a
       /\ \A v \in Writers : v # w => rest'[v] = rest[v]
  BY <1>1, <1>8, <1>10 DEF Types
<1>12. Types'
  <2>1. \A v \in Writers : rest'[v] \in Seq(Seq(OfLine(v, Len(lines[v]))))
    <3>1. a \in Seq(Seq(OfLine(w, Len(lines[w]))))
      BY <1>k, <1>7 DEF S
    <3>2. \A v \in Writers : rest[v] \in Seq(Seq(OfLine(v, Len(lines[v]))))
      BY <1>1 DEF Types
    <3> QED BY <1>11, <3>1, <3>2
  <2>2. \A v \in Writers : v \notin busy => rest'[v] = <<>>
    BY <1>1, <1>2, <1>11 DEF Types
  <2>3. shorts' \in 0 .. MaxShort
    BY <1>1, <1>6, ConstantsAssumption DEF Types
  <2> QED BY <1>1, <1>2, <1>10, <1>11, <2>1, <2>2, <2>3 DEF Types
<1>13. /\ Arrived(w, k)' = Arrived(w, k) \o c
       /\ \A v, j : <<v, j>> # <<w, k>> => Arrived(v, j)' = Arrived(v, j)
  <2>1. c \in Seq(OfLine(w, k))
    BY <1>7 DEF S
  <2>2. /\ Kept(out \o c, OfLine(w, k)) = Kept(out, OfLine(w, k)) \o c
        /\ \A v, j : <<v, j>> # <<w, k>> =>
              Kept(out \o c, OfLine(v, j)) = Kept(out, OfLine(v, j))
    BY <1>3, <1>9, <2>1, ArrivedGrows
  <2> QED BY <1>8, <2>2 DEF Arrived
<1>14. /\ Arrived(w, k) \in Seq(AnyByte)
       /\ Arrived(w, k) \o F \in Texts(w, k, lines[w][k])
  <2>1. <<w, k>> \notin given_up /\ Accounted(w, k)
    BY <1>1, <1>k, <1>2, <1>3 DEF LinesInv
  <2>2. Left(w, k) = F
    BY <1>k DEF Left
  <2>3. Arrived(w, k) \in Seq(AnyByte)
    BY <1>9, KeptIsJoined DEF Arrived
  <2> QED BY <2>1, <2>2, <2>3 DEF Accounted
<1>15. LinesInv'
  <2>1. ASSUME NEW v \in Writers, NEW j \in 1 .. Len(lines[v]) PROVE Accounted(v, j)'
    <3>1. CASE <<v, j>> # <<w, k>>
      <4>1. PICK left \in Seq(OfLine(v, j)) :
               /\ Arrived(v, j) \o left \in Texts(v, j, lines[v][j])
               /\ <<v, j>> \in given_up \/ left = Left(v, j)
        BY <1>1 DEF LinesInv, Accounted
      <4>2. Left(v, j)' = Left(v, j)
        <5>1. CASE v = w
          BY <1>k, <1>2, <3>1, <5>1 DEF Left
        <5>2. CASE v # w
          BY <1>2, <1>11, <5>2 DEF Left
        <5> QED BY <5>1, <5>2
      <4>3. Arrived(v, j)' = Arrived(v, j)
        BY <1>13, <3>1
      <4> QED BY <1>2, <4>1, <4>2, <4>3 DEF Accounted
    <3>2. CASE v = w /\ j = k
      <4>1. Left(w, k)' = g
        BY <1>k, <1>2, <1>11 DEF Left, g
      <4>2. (Arrived(w, k) \o c) \o g = Arrived(w, k) \o (c \o g)
        <5> DEFINE b == Arrived(w, k)
        <5>1. \A x, y, z \in Seq(AnyByte) : (x \o y) \o z = x \o (y \o z)
          BY ConcatAssociates, SMTT(30)
        <5>2. b \in Seq(AnyByte) /\ c \in Seq(AnyByte) /\ g \in Seq(AnyByte)
          <6>1. Seq(S) \subseteq Seq(AnyByte)
            BY <1>9
          <6> QED BY <1>7, <1>10, <1>14, <6>1
        <5> HIDE DEF b
        <5>3. (b \o c) \o g = b \o (c \o g)
          BY <5>1, <5>2
        <5> QED BY <5>3 DEF b
      <4>3. Arrived(w, k)' \o g \in Texts(w, k, lines'[w][k])
        BY <1>2, <1>7, <1>13, <1>14, <4>2
      <4>4. g \in Seq(OfLine(w, k))
        BY <1>7 DEF S
      <4>5. Accounted(w, k)'
        BY <4>1, <4>3, <4>4 DEF Accounted
      <4> QED BY <3>2, <4>5
    <3> QED BY <3>1, <3>2
  <2>2. ASSUME NEW v \in Writers, NEW j \in Nat, j > Len(lines[v])
        PROVE  Arrived(v, j)' = <<>> /\ <<v, j>> \notin given_up
    <3>1. Arrived(v, j) = <<>> /\ <<v, j>> \notin given_up
      BY <1>1, <2>2 DEF LinesInv
    <3>2. <<v, j>> # <<w, k>>
      BY <1>k, <1>3, <2>2
    <3> QED BY <1>13, <3>1, <3>2
  <2>3. ASSUME NEW v \in Writers, rest'[v] # <<>>
        PROVE  <<v, Len(lines[v])>> \notin given_up
    <3>1. rest[v] # <<>>
      BY <1>k, <1>2, <1>11, <2>3
    <3> QED BY <1>1, <3>1 DEF LinesInv
  <2> QED BY <1>2, <2>1, <2>2, <2>3 DEF LinesInv
<1>16. TearsInv'
  <2>1. /\ Tears = TearsOf(out) /\ OpenEnd = OpenOf(out)
        /\ Tears' = TearsOf(out \o c) /\ OpenEnd' = OpenOf(out \o c)
    BY <1>8 DEF Tears, TearsOf, OpenEnd, OpenOf
  <2>2. /\ IsFiniteSet(TearsOf(out))
        /\ Cardinality(TearsOf(out)) + OpenOf(out) <= shorts
    BY <1>1, <2>1 DEF TearsInv
  <2>3. /\ IsFiniteSet(TearsOf(out \o c))
        /\ Cardinality(TearsOf(out \o c)) \in Nat /\ Cardinality(TearsOf(out)) \in Nat
        /\ Cardinality(TearsOf(out \o c)) <= Cardinality(TearsOf(out)) + OpenOf(out)
        /\ c # <<>> /\ c[Len(c)].mark = "newline" => OpenOf(out \o c) = 0
    BY <1>7, <1>9, <1>10, <2>2, TearsGrow DEF S
  <2>4. OpenOf(out) \in {0, 1} /\ OpenOf(out \o c) \in {0, 1} /\ shorts \in Nat
    BY <1>1, ConstantsAssumption DEF OpenOf, Types
  <2>5. Cardinality(TearsOf(out \o c)) + OpenOf(out \o c) <= shorts'
    <3>1. CASE shorts' = shorts + 1
      BY <2>2, <2>3, <2>4, <3>1
    <3>2. CASE n = Len(F) /\ shorts' = shorts
      <4>1. c = F
        BY <1>5, <3>2, SubSeqFull DEF c
      <4>2. CASE F = <<>>
        <5>1. out \o c = out
          BY <1>9, <4>1, <4>2, ConcatEmptySeq
        <5> QED BY <2>2, <3>2, <5>1
      <4>3. CASE F # <<>>
        <5>1. (Arrived(w, k) \o F)[Len(Arrived(w, k) \o F)].mark = "newline"
          BY <1>3, <1>4, <1>14, TextsArePlain
        <5>2. F \in Seq(AnyByte)
          BY <1>10, <4>1
        <5>3. F[Len(F)].mark = "newline"
          BY <1>14, <4>3, <5>1, <5>2, LeftEndsLine
        <5>4. OpenOf(out \o c) = 0
          BY <2>3, <4>1, <4>3, <5>3
        <5> QED BY <2>2, <2>3, <2>4, <3>2, <5>4
      <4> QED BY <4>2, <4>3
    <3> QED BY <1>6, <3>1, <3>2
  <2> QED BY <2>1, <2>3, <2>5 DEF TearsInv
<1> QED BY <1>12, <1>15, <1>16 DEF IInv

-----------------------------------------------------------------------------
(* The invariant holds always, and the properties with it                  *)

\* Every step, or none, keeps the invariant.
LEMMA Preservation == IInv /\ [Next]_vars => IInv'
<1> SUFFICES ASSUME IInv, [Next]_vars PROVE IInv'
  OBVIOUS
<1>1. CASE Destroy \/ UNCHANGED vars \/ Quiet
  BY <1>1, IdleStep DEF Quiet
<1>2. CASE \E w \in Writers : \E shape \in Shapes, off \in {FALSE, colored} : Write(w, shape, off)
  BY <1>2, WriteStep
<1>3. CASE \E w \in Writers : Writev(w)
  BY <1>3, WritevStep
<1>4. CASE \E w \in Writers : WritevFails(w) \/ Return(w)
  BY <1>4, EndStep
<1> QED BY <1>1, <1>2, <1>3, <1>4 DEF Next

\* The inductive invariant holds in every reachable state.
THEOREM Invariance == Spec => []IInv
<1> QED BY Initially, Preservation, PTL DEF Spec

\* For any threads, lines and ways to split and fail a writev: what a thread has
\* still to write is of the line it has begun, and the descriptor is closed only
\* by a sink that owns it and that nobody uses.
THEOREM TypeCorrect == Spec => []TypeOK
<1>1. IInv => TypeOK
  <2> SUFFICES ASSUME IInv PROVE TypeOK
    OBVIOUS
  <2>1. Types
    BY DEF IInv
  <2>2. ASSUME NEW w \in Writers
        PROVE  /\ lines[w] \in Seq(Shapes)
               /\ \A i \in DOMAIN rest[w] : \A j \in DOMAIN rest[w][i] :
                     rest[w][i][j] \in OfLine(w, Len(lines[w]))
    <3>1. rest[w] \in Seq(Seq(OfLine(w, Len(lines[w])))) /\ lines[w] \in Seq(Shapes)
      BY <2>1 DEF Types
    <3> QED BY <3>1
  <2>3. \A i \in DOMAIN out : out[i].mark \in Marks
    <3>1. out \in Seq(AnyByte)
      BY <2>1 DEF Types
    <3>2. \A i \in DOMAIN out : out[i] \in AnyByte
      BY <3>1
    <3> QED BY <3>2 DEF AnyByte
  <2> QED BY <2>1, <2>2, <2>3 DEF Types, TypeOK
<1> QED BY <1>1, Invariance, PTL

\* For any threads and lines, however the writevs are split and whoever writes
\* in between: the bytes of a line arrive once, in order and without a gap; all
\* of them, unless a call failed or memory ran out; and a colour is undone
\* directly before the newline.
THEOREM LinesArriveIntact == Spec => []LinesIntact
<1>1. IInv => LinesIntact
  <2> SUFFICES ASSUME IInv, NEW w \in Writers, NEW k \in DOMAIN lines[w]
               PROVE  LET got == Arrived(w, k)
                          line == Line(w, k, lines[w][k])
                          full == Joined(line, Len(line))
                      IN  /\ IsPrefix(Plain(got), full)
                          /\ w \notin busy \/ k < Len(lines[w]) =>
                                Plain(got) = full \/ <<w, k>> \in given_up
                          /\ \A i \in DOMAIN got :
                                /\ got[i].mark = "color" => i = 1
                                /\ got[i].mark = "newline" /\ got[1].mark = "color" =>
                                      got[i - 1].mark = "reset"
                                /\ got[i].mark = "reset" =>
                                      Len(Plain(SubSeq(got, 1, i))) = Len(full) - 1
    BY DEF LinesIntact
  <2>1. Types /\ LinesInv
    BY DEF IInv
  <2>2. lines[w] \in Seq(Shapes) /\ k \in 1 .. Len(lines[w]) /\ k \in Nat
        /\ lines[w][k] \in Seq(Nat) /\ Len(lines[w]) \in Nat
    <3>1. lines[w] \in Seq(Shapes)
      BY <2>1 DEF Types
    <3>2. k \in 1 .. Len(lines[w]) /\ Len(lines[w]) \in Nat
      BY <3>1, LenProperties
    <3>3. lines[w][k] \in Shapes
      BY <3>1, <3>2, ElementOfSeq
    <3> QED BY <3>1, <3>2, <3>3, ConstantsAssumption
  <2> DEFINE got == Arrived(w, k)
             shape == lines[w][k]
             line == Line(w, k, shape)
             full == Joined(line, Len(line))
             P == [by : Writers, line : Nat, mark : {"text", "newline"}]
  <2>3. PICK left \in Seq(OfLine(w, k)) :
           /\ got \o left \in Texts(w, k, shape)
           /\ <<w, k>> \in given_up \/ left = Left(w, k)
    BY <2>1, <2>2 DEF LinesInv, Accounted
  <2>4. full = Full(w, k, shape)
    <3>1. line \in Seq(Seq(OfLine(w, k))) /\ FlattenSeq(line) = Full(w, k, shape)
      BY <2>2, LineParts, ArraysAreTexts
    <3> HIDE DEF line
    <3> QED BY <3>1, JoinedSteps
  <2>5. got \in Seq(AnyByte) /\ left \in Seq(AnyByte)
    <3>1. got \in Seq(AnyByte)
      BY <2>1, KeptIsJoined DEF Arrived, Types
    <3>2. OfLine(w, k) \subseteq AnyByte
      BY <2>2 DEF OfLine, AnyByte
    <3> QED BY <3>1, <3>2
  <2> DEFINE text == got \o left
  <2>6. text \in Texts(w, k, shape) /\ Plain(text) = full
        /\ Len(Body(w, k, shape)) = Len(full) - 1
    <3>1. Plain(text) = full
      BY <2>2, <2>3, <2>4, TextsArePlain
    <3>2. Body(w, k, shape) \in Seq(OfLine(w, k)) /\ <<Byte(w, k, "newline")>> \in Seq(OfLine(w, k))
      BY <2>2, TextParts
    <3>3. Len(Full(w, k, shape)) = Len(Body(w, k, shape)) + Len(<<Byte(w, k, "newline")>>)
      BY <3>2, ConcatProperties DEF Full
    <3>4. Len(Body(w, k, shape)) \in Nat /\ Len(<<Byte(w, k, "newline")>>) = 1
      BY <3>2, LenProperties
    <3> HIDE DEF full
    <3> QED BY <2>3, <2>4, <3>1, <3>3, <3>4
  <2> HIDE DEF got, shape, line, full
  <2>7. Plain(got) \in Seq(AnyByte) /\ Plain(left) \in Seq(AnyByte)
        /\ full = Plain(got) \o Plain(left)
    <3>1. Kept(got, P) \in Seq(AnyByte) /\ Kept(left, P) \in Seq(AnyByte)
      BY <2>5, KeptIsJoined
    <3>2. Kept(got \o left, P) = Kept(got, P) \o Kept(left, P)
      BY <2>5, KeptConcat
    <3> QED BY <2>6, <3>1, <3>2 DEF Plain
  <2>8. IsPrefix(Plain(got), full)
    BY <2>7, PrefixOfConcat
  <2>9. w \notin busy \/ k < Len(lines[w]) => Plain(got) = full \/ <<w, k>> \in given_up
    <3> SUFFICES ASSUME w \notin busy \/ k < Len(lines[w]), <<w, k>> \notin given_up
                 PROVE  Plain(got) = full
      OBVIOUS
    <3>1. Left(w, k) = <<>>
      <4>1. w \notin busy => FlattenSeq(rest[w]) = <<>>
        BY <2>1, FlattenProperties DEF Types
      <4> QED BY <2>2, <4>1 DEF Left
    <3>2. got \o left = got
      BY <2>3, <2>5, <3>1, ConcatEmptySeq
    <3> QED BY <2>6, <3>2
  <2>10. ASSUME NEW i \in DOMAIN got
         PROVE  /\ got[i].mark = "color" => i = 1
                /\ got[i].mark = "newline" /\ got[1].mark = "color" =>
                      got[i - 1].mark = "reset"
                /\ got[i].mark = "reset" => Len(Plain(SubSeq(got, 1, i))) = Len(full) - 1
    <3>1. /\ Len(got) \in Nat /\ Len(left) \in Nat /\ Len(text) = Len(got) + Len(left)
          /\ \A j \in 1 .. Len(got) : text[j] = got[j]
      BY <2>5, ConcatProperties, LenProperties
    <3>2. i \in 1 .. Len(got) /\ 1 \in 1 .. Len(got)
      <4>1. i \in 1 .. Len(got)
        BY <2>5
      <4> QED BY <3>1, <4>1
    <3> HIDE DEF text
    <3>3. i \in 1 .. Len(text)
      BY <3>1, <3>2
    <3>4. /\ text[i].mark = "color" => i = 1
          /\ text[i].mark = "newline" /\ text[1].mark = "color" =>
                i - 1 \in 1 .. Len(text) /\ text[i - 1].mark = "reset"
          /\ text[i].mark = "reset" => Plain(SubSeq(text, 1, i)) = Body(w, k, shape)
      <4>1. shape \in Seq(Nat)
        BY <2>2 DEF shape
      <4> QED BY <2>2, <2>6, <3>3, <4>1, MarksInText
    <3>5. text[i] = got[i] /\ text[1] = got[1]
      BY <3>1, <3>2
    <3>6. i - 1 \in 1 .. Len(text) => text[i - 1] = got[i - 1]
      <4>1. i - 1 \in 1 .. Len(text) => i - 1 \in 1 .. Len(got)
        BY <3>1, <3>2
      <4> QED BY <3>1, <4>1
    <3>7. SubSeq(text, 1, i) = SubSeq(got, 1, i)
      <4>1. /\ SubSeq(got, 1, i) \in Seq(AnyByte)
            /\ SubSeq(got, i + 1, Len(got)) \in Seq(AnyByte)
            /\ Len(SubSeq(got, 1, i)) = i
            /\ SubSeq(got, 1, i) \o SubSeq(got, i + 1, Len(got)) = got
        <5>1. i \in 0 .. Len(got)
          BY <3>2
        <5> QED BY <2>5, <5>1, SplitAt
      <4> DEFINE x == SubSeq(got, 1, i)
                 y == SubSeq(got, i + 1, Len(got))
      <4> HIDE DEF x, y
      <4>2. x \in Seq(AnyByte) /\ y \in Seq(AnyByte) /\ Len(x) = i /\ x \o y = got
        BY <4>1 DEF x, y
      <4>3. \A u, v, z \in Seq(AnyByte) : (u \o v) \o z = u \o (v \o z)
        BY ConcatAssociates
      <4>4. (x \o y) \o left = x \o (y \o left) /\ y \o left \in Seq(AnyByte)
        BY <2>5, <4>2, <4>3, ConcatProperties, ZenonT(30)
      <4>5. SubSeq(x \o (y \o left), 1, Len(x)) = x
        BY <4>2, <4>4, FrontOfConcat
      <4>6. text = x \o (y \o left)
        BY <4>2, <4>4 DEF text
      <4>7. SubSeq(text, 1, i) = x
        BY <4>2, <4>5, <4>6
      <4> QED BY <4>7 DEF x
    <3> QED BY <2>6, <3>4, <3>5, <3>6, <3>7
  <2> QED BY <2>8, <2>9, <2>10 DEF got, shape, line, full
<1> QED BY <1>1, Invariance, PTL

\* For any threads and lines: no more lines are torn than writevs were short, so
\* that a kernel that never splits a writev keeps every line in one piece.
THEOREM TearsAreShortWrites == Spec => []TornByShortWritesOnly
<1>1. IInv => TornByShortWritesOnly
  <2> SUFFICES ASSUME IInv PROVE TornByShortWritesOnly
    OBVIOUS
  <2>1. IsFiniteSet(Tears) /\ Cardinality(Tears) + OpenEnd <= shorts /\ shorts \in 0 .. MaxShort
    BY DEF IInv, TearsInv, Types
  <2>2. Cardinality(Tears) \in Nat /\ OpenEnd \in Nat
    BY <2>1, FS_CardinalityType DEF OpenEnd
  <2> QED BY <2>1, <2>2, ConstantsAssumption DEF TornByShortWritesOnly
<1> QED BY <1>1, Invariance, PTL

=============================================================================
