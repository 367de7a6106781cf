--------------------------- MODULE SequenceLemmas ---------------------------
(***************************************************************************)
(* Facts about sequences and finite sets of numbers that the proofs about  *)
(* queues, buffers, files and ties share, on top of the library's theorems.*)
(***************************************************************************)
EXTENDS Naturals, Sequences, SequencesExt, SequenceTheorems, FiniteSetTheorems,
        FunctionTheorems, WellFoundedInduction, TLAPS

\* A nonempty sequence is its head and its tail.
LEMMA HeadThenTail ==
  ASSUME NEW S, NEW s \in Seq(S), s # <<>>
  PROVE  /\ <<Head(s)>> \o Tail(s) = s
         /\ Head(s) \in S /\ Tail(s) \in Seq(S)
         /\ Len(Tail(s)) = Len(s) - 1
<1>1. Head(s) \in S /\ Tail(s) \in Seq(S) /\ Len(Tail(s)) = Len(s) - 1
      /\ \A i \in 1 .. Len(Tail(s)) : Tail(s)[i] = s[i+1]
   BY HeadTailProperties
<1>2. <<Head(s)>> \in Seq(S) /\ Len(<<Head(s)>>) = 1 /\ <<Head(s)>>[1] = s[1] BY <1>1
<1>3. Len(s) \in Nat \ {0} BY EmptySeq
<1>4. <<Head(s)>> \o Tail(s) \in Seq(S) /\ Len(<<Head(s)>> \o Tail(s)) = Len(s)
   BY <1>1, <1>2, <1>3, ConcatProperties
<1>5. ASSUME NEW i \in 1 .. Len(s) PROVE (<<Head(s)>> \o Tail(s))[i] = s[i]
   <2>1. (<<Head(s)>> \o Tail(s))[i] = IF i <= 1 THEN <<Head(s)>>[i] ELSE Tail(s)[i - 1]
      BY <1>1, <1>2, <1>3, ConcatProperties
   <2> QED BY <2>1, <1>1, <1>2, <1>3
<1> QED BY <1>1, <1>4, <1>5, SeqEqual

\* A sequence with a new first element.
LEMMA ConsProperties ==
  ASSUME NEW S, NEW e \in S, NEW s \in Seq(S)
  PROVE  /\ <<e>> \o s # <<>>
         /\ Head(<<e>> \o s) = e
         /\ Tail(<<e>> \o s) = s
         /\ <<e>> \o s \in Seq(S) /\ Len(<<e>> \o s) = 1 + Len(s)
         /\ (<<e>> \o s)[1] = e
         /\ \A i \in 1 .. Len(s) : (<<e>> \o s)[i + 1] = s[i]
<1>1. <<e>> \in Seq(S) /\ Len(<<e>>) = 1 /\ <<e>>[1] = e /\ Len(s) \in Nat
  OBVIOUS
<1> DEFINE c == <<e>> \o s
<1>2. /\ c \in Seq(S) /\ Len(c) = 1 + Len(s) /\ c[1] = e
      /\ \A i \in 1 .. Len(s) : c[i + 1] = s[i]
  BY <1>1, ConcatProperties
<1> HIDE DEF c
<1>3. c # <<>>
  BY <1>1, <1>2
<1>4. Tail(c) \in Seq(S) /\ Len(Tail(c)) = Len(s) /\ \A i \in 1 .. Len(s) : Tail(c)[i] = s[i]
  BY <1>1, <1>2, <1>3, HeadTailProperties
<1>5. Tail(c) = s
  BY <1>4, SeqEqual
<1>6. Head(c) = e
  BY <1>2, <1>3
<1> QED BY <1>2, <1>3, <1>5, <1>6 DEF c

\* An element goes from the middle part to the end of the first.
LEMMA MoveOne ==
  ASSUME NEW S, NEW r \in Seq(S), NEW e \in S, NEW t \in Seq(S)
  PROVE  Append(r, e) \o <<>> \o t = r \o <<e>> \o t
<1>1. <<e>> \in Seq(S) OBVIOUS
<1>2. Append(r, e) = r \o <<e>> BY AppendIsConcat
<1>3. r \o <<e>> \in Seq(S) BY <1>1, ConcatProperties
<1> QED BY <1>2, <1>3, ConcatEmptySeq

\* A sequence is what comes before a position and what comes after it.
LEMMA SplitAt ==
  ASSUME NEW S, NEW s \in Seq(S), NEW k \in 0 .. Len(s)
  PROVE  /\ SubSeq(s, 1, k) \in Seq(S) /\ Len(SubSeq(s, 1, k)) = k
         /\ SubSeq(s, k + 1, Len(s)) \in Seq(S)
         /\ Len(SubSeq(s, k + 1, Len(s))) = Len(s) - k
         /\ SubSeq(s, 1, k) \o SubSeq(s, k + 1, Len(s)) = s
<1> DEFINE a == SubSeq(s, 1, k)
           b == SubSeq(s, k + 1, Len(s))
<1>1. Len(s) \in Nat /\ \A i \in 1 .. Len(s) : s[i] \in S
  BY LenProperties, ElementOfSeq
<1>2. a \in Seq(S) /\ Len(a) = k /\ \A i \in 1 .. k : a[i] = s[i]
  BY <1>1, SubSeqProperties
<1>3. b \in Seq(S) /\ Len(b) = Len(s) - k /\ \A i \in 1 .. Len(s) - k : b[i] = s[k + i]
  BY <1>1, SubSeqProperties
<1> HIDE DEF a, b
<1>4. /\ a \o b \in Seq(S) /\ Len(a \o b) = Len(s)
      /\ \A i \in 1 .. Len(s) : (a \o b)[i] = IF i <= k THEN a[i] ELSE b[i - k]
  <2>1. Len(a) + Len(b) = Len(s)
    BY <1>1, <1>2, <1>3
  <2>2. /\ a \o b \in Seq(S) /\ Len(a \o b) = Len(a) + Len(b)
        /\ \A i \in 1 .. Len(a) + Len(b) :
              (a \o b)[i] = IF i <= Len(a) THEN a[i] ELSE b[i - Len(a)]
    BY <1>2, <1>3, ConcatProperties
  <2>3. Len(a) = k
    BY <1>2
  <2> QED BY <2>1, <2>2, <2>3
<1>5. ASSUME NEW i \in 1 .. Len(s) PROVE (a \o b)[i] = s[i]
  <2>1. CASE i <= k
    <3>1. i \in 1 .. k
      BY <1>1, <2>1
    <3> QED BY <1>2, <1>4, <2>1, <3>1
  <2>2. CASE ~(i <= k)
    <3>1. i - k \in 1 .. Len(s) - k /\ k + (i - k) = i
      BY <1>1, <2>2
    <3>2. b[i - k] = s[i]
      BY <1>3, <3>1
    <3> QED BY <1>4, <2>2, <3>2
  <2> QED BY <2>1, <2>2
<1>6. a \o b = s
  BY <1>4, <1>5, SeqEqual
<1> QED BY <1>2, <1>3, <1>6 DEF a, b

\* Concatenation is associative: the library's fact, quantified for use under a
\* quantifier.
LEMMA ConcatAssociates == \A S : \A x, y, z \in Seq(S) : (x \o y) \o z = x \o (y \o z)
<1> QED BY ConcatAssociative

\* The same for closure and length.
LEMMA ConcatCloses ==
  \A S : \A x, y \in Seq(S) : x \o y \in Seq(S) /\ Len(x \o y) = Len(x) + Len(y)
<1> QED BY ConcatProperties

\* What is extended has the old sequence as a prefix.
LEMMA PrefixOfConcat ==
  ASSUME NEW S, NEW s \in Seq(S), NEW t \in Seq(S)
  PROVE  IsPrefix(s, s \o t) /\ (t # <<>> => IsStrictPrefix(s, s \o t))
<1>1. /\ s \o t \in Seq(S) /\ Len(s \o t) = Len(s) + Len(t)
      /\ Len(s) \in Nat /\ Len(t) \in Nat
  BY ConcatProperties, LenProperties
<1>2. SubSeq(s, 1, Len(s)) = SubSeq(s \o t, 1, Len(s))
  <2>1. CASE Len(s) = 0
    <3>1. SubSeq(s, 1, 0) = <<>> /\ SubSeq(s \o t, 1, 0) = <<>>
      BY SubSeqEmpty
    <3> QED BY <2>1, <3>1
  <2>2. CASE Len(s) # 0
    <3>1. Len(s) \in 1 .. Len(s) /\ 1 \in 1 .. Len(s)
      BY <1>1, <2>2
    <3> QED BY <3>1, SubSeqOfConcat1
  <2> QED BY <2>1, <2>2
<1>3. t # <<>> => s # s \o t
  BY ConcatEqualIffEmpty
<1> QED BY <1>1, <1>2, <1>3 DEF IsPrefix, IsStrictPrefix

\* Cutting a concatenation at the seam.
LEMMA FrontOfConcat ==
  ASSUME NEW S, NEW s \in Seq(S), NEW t \in Seq(S)
  PROVE  SubSeq(s \o t, 1, Len(s)) = s
<1> DEFINE c == s \o t
<1>1. /\ c \in Seq(S) /\ Len(c) = Len(s) + Len(t) /\ Len(s) \in Nat /\ Len(t) \in Nat
      /\ \A i \in 1 .. Len(s) : c[i] = s[i]
  BY ConcatProperties, LenProperties
<1> HIDE DEF c
<1>2. Len(s) \in 0 .. Len(c) /\ \A i \in 1 .. Len(c) : c[i] \in S
  BY <1>1, ElementOfSeq
<1>3. /\ SubSeq(c, 1, Len(s)) \in Seq(S) /\ Len(SubSeq(c, 1, Len(s))) = Len(s)
      /\ \A i \in 1 .. Len(s) : SubSeq(c, 1, Len(s))[i] = c[i]
  BY <1>1, <1>2, SplitAt, SubSeqProperties
<1>4. SubSeq(c, 1, Len(s)) = s
  BY <1>1, <1>3, SeqEqual
<1> QED BY <1>4 DEF c

\* A prefix stays one when the longer sequence grows.
LEMMA PrefixOfLonger ==
  ASSUME NEW S, NEW s \in Seq(S), NEW t \in Seq(S), NEW u \in Seq(S), IsPrefix(s, t)
  PROVE  IsPrefix(s, t \o u)
<1>1. /\ Len(s) \in Nat /\ Len(t) \in Nat /\ Len(u) \in Nat
      /\ Len(s) <= Len(t) /\ Len(t \o u) = Len(t) + Len(u)
      /\ SubSeq(s, 1, Len(s)) = SubSeq(t, 1, Len(s))
  BY ConcatProperties, LenProperties DEF IsPrefix
<1>2. SubSeq(t, 1, Len(s)) = SubSeq(t \o u, 1, Len(s))
  <2>1. CASE Len(s) = 0
    <3>1. SubSeq(t, 1, 0) = <<>> /\ SubSeq(t \o u, 1, 0) = <<>>
      BY SubSeqEmpty
    <3> QED BY <2>1, <3>1
  <2>2. CASE Len(s) # 0
    <3>1. Len(s) \in 1 .. Len(t) /\ 1 \in 1 .. Len(t)
      BY <1>1, <2>2
    <3> QED BY <3>1, SubSeqOfConcat1
  <2> QED BY <2>1, <2>2
<1> QED BY <1>1, <1>2 DEF IsPrefix

\* What is left when something was taken from the front is a suffix.
LEMMA SuffixOfConcat ==
  ASSUME NEW S, NEW s \in Seq(S), NEW t \in Seq(S), s # <<>>
  PROVE  IsStrictSuffix(t, s \o t)
<1> DEFINE c == s \o t
<1>1. /\ c \in Seq(S) /\ Len(c) = Len(s) + Len(t)
      /\ Len(s) \in Nat /\ Len(t) \in Nat
      /\ \A i \in 1 .. Len(t) : c[Len(s) + i] = t[i]
  BY ConcatProperties, LenProperties
<1>2. t # c
  BY ConcatEqualIffEmpty
<1> HIDE DEF c
<1>3. /\ Reverse(t) \in Seq(S) /\ Len(Reverse(t)) = Len(t)
      /\ \A i \in 1 .. Len(t) : Reverse(t)[i] = t[Len(t) - i + 1]
  <2>1. \A i \in 1 .. Len(t) : t[Len(t) - i + 1] \in S
    BY <1>1, ElementOfSeq
  <2> QED BY <1>1, <2>1 DEF Reverse
<1>4. /\ Reverse(c) \in Seq(S) /\ Len(Reverse(c)) = Len(c)
      /\ \A i \in 1 .. Len(c) : Reverse(c)[i] = c[Len(c) - i + 1]
  <2>1. \A i \in 1 .. Len(c) : c[Len(c) - i + 1] \in S
    BY <1>1, ElementOfSeq
  <2> QED BY <1>1, <2>1 DEF Reverse
<1>5. \A i \in 1 .. Len(t) : Reverse(c)[i] = Reverse(t)[i]
  <2>1. ASSUME NEW i \in 1 .. Len(t) PROVE Reverse(c)[i] = Reverse(t)[i]
    <3>1. Len(t) - i + 1 \in 1 .. Len(t) /\ Len(c) - i + 1 = Len(s) + (Len(t) - i + 1)
      BY <1>1
    <3>2. c[Len(c) - i + 1] = t[Len(t) - i + 1]
      BY <1>1, <3>1
    <3> QED BY <1>1, <1>3, <1>4, <3>2
  <2> QED BY <2>1
<1>6. SubSeq(Reverse(t), 1, Len(t)) = SubSeq(Reverse(c), 1, Len(t))
  <2>1. /\ SubSeq(Reverse(t), 1, Len(t)) \in Seq(S)
        /\ Len(SubSeq(Reverse(t), 1, Len(t))) = Len(t)
        /\ \A i \in 1 .. Len(t) : SubSeq(Reverse(t), 1, Len(t))[i] = Reverse(t)[i]
    BY <1>1, <1>3, ElementOfSeq, SubSeqProperties
  <2>2. /\ SubSeq(Reverse(c), 1, Len(t)) \in Seq(S)
        /\ Len(SubSeq(Reverse(c), 1, Len(t))) = Len(t)
        /\ \A i \in 1 .. Len(t) : SubSeq(Reverse(c), 1, Len(t))[i] = Reverse(c)[i]
    BY <1>1, <1>4, ElementOfSeq, SubSeqProperties
  <2> QED BY <1>5, <2>1, <2>2, SeqEqual
<1> QED BY <1>1, <1>2, <1>3, <1>4, <1>6 DEF IsStrictSuffix, IsSuffix, IsPrefix, c

\* The numbers shifted by d are as many.
LEMMA ShiftedSet ==
  ASSUME NEW S \in SUBSET Nat, IsFiniteSet(S), NEW T \in SUBSET Nat, NEW d \in Nat,
         \A i \in S : i + d \in T,
         \A j \in T : j - d \in S
  PROVE  IsFiniteSet(T) /\ Cardinality(T) = Cardinality(S)
<1> DEFINE f == [i \in S |-> i + d]
<1>1. f \in [S -> T] /\ \A i \in S : f[i] = i + d
  OBVIOUS
<1>2. \A a, b \in S : f[a] = f[b] => a = b
  BY <1>1
<1>3. \A t \in T : \E s \in S : f[s] = t
  <2>1. ASSUME NEW t \in T PROVE f[t - d] = t /\ t - d \in S
    BY <1>1
  <2> QED BY <2>1
<1> HIDE DEF f
<1>4. f \in Bijection(S, T)
  BY <1>1, <1>2, <1>3, Fun_IsBij
<1>5. ExistsBijection(S, T)
  BY <1>4, Fun_ExistsBij
<1> QED BY <1>5, FS_Bijection

\* A finite nonempty set of numbers has a greatest element.
LEMMA GreatestOfFinite ==
  ASSUME NEW S \in SUBSET Nat, IsFiniteSet(S), S # {}
  PROVE  \E m \in S : \A y \in S : m >= y
<1> DEFINE Bounded(T) == \E m \in T : \A y \in T : m >= y
           B == {T \in SUBSET S : T # {} /\ ~Bounded(T)}
<1>1. B = {}
  <2> SUFFICES ASSUME B # {} PROVE FALSE
    OBVIOUS
  <2>1. IsWellFoundedOn(StrictSubsetOrdering(S), SUBSET S)
    BY FS_StrictSubsetOrderingWellFounded, FS_FiniteSubsetsOfFinite
  <2>2. B \subseteq SUBSET S
    OBVIOUS
  <2> DEFINE R == StrictSubsetOrdering(S)
             P == SUBSET S
  <2>3. \E T \in B : \A U \in B : ~(<<U, T>> \in R)
    <3>1. IsWellFoundedOn(R, P) /\ B \subseteq P
      BY <2>1, <2>2
    <3> HIDE DEF B, R, P
    <3> QED BY <3>1, WFMin
  <2>4. PICK T \in B : \A U \in B : ~(<<U, T>> \in R)
    BY <2>3
  <2>5. PICK x \in T : TRUE
    OBVIOUS
  <2>6. T \subseteq Nat /\ x \in Nat
    OBVIOUS
  <2>7. CASE T = {x}
    <3>1. Bounded(T)
      BY <2>6, <2>7
    <3> QED BY <3>1
  <2>8. CASE T # {x}
    <3>1. <<T \ {x}, T>> \in R
      BY DEF StrictSubsetOrdering
    <3>2. T \ {x} \notin B
      BY <2>4, <3>1
    <3>3. Bounded(T \ {x})
      BY <2>8, <3>2
    <3>4. PICK m \in T \ {x} : \A y \in T \ {x} : m >= y
      BY <3>3
    <3>5. CASE m >= x
      BY <3>4, <3>5
    <3>6. CASE ~(m >= x)
      <4>1. \A y \in T : x >= y
        BY <2>6, <3>4, <3>6
      <4> QED BY <4>1
    <3> QED BY <3>5, <3>6
  <2> QED BY <2>7, <2>8
<1>2. Bounded(S)
  BY <1>1
<1> QED BY <1>2

-----------------------------------------------------------------------------
(* Recursive functions on numbers, and FlattenSeq.                         *)

\* What holds at 0 and at every number after one where it holds, holds up to n.
LEMMA IntervalInduction ==
  ASSUME NEW n \in Nat, NEW G, 0 \in G, \A i \in 0 .. n : i < n /\ i \in G => i + 1 \in G
  PROVE  \A i \in 0 .. n : i \in G
<1> SUFFICES ASSUME NEW k \in 0 .. n, k \notin G PROVE FALSE
  OBVIOUS
<1> DEFINE S == {i \in 0 .. k : i \in G}
<1>1. S \in SUBSET Nat /\ IsFiniteSet(S) /\ S # {}
  <2>1. IsFiniteSet(0 .. k)
    BY FS_Interval
  <2>2. S \subseteq 0 .. k /\ 0 \in S
    OBVIOUS
  <2>3. IsFiniteSet(S)
    BY <2>1, <2>2, FS_Subset
  <2> QED BY <2>2, <2>3
<1>2. PICK m \in S : \A y \in S : m >= y
  <2> HIDE DEF S
  <2> QED BY <1>1, GreatestOfFinite
<1>3. m \in 0 .. k /\ m \in G /\ m # k
  OBVIOUS
<1>4. m \in 0 .. n /\ m < n /\ m + 1 \in 0 .. k
  BY <1>3
<1>5. m + 1 \in S
  BY <1>3, <1>4
<1> QED BY <1>2, <1>3, <1>5

\* h runs through the n values that the steps produce one from the other.
Iterates(h, n, T, a, step) ==
    h \in [0 .. n -> T] /\ h[0] = a /\ \A i \in 1 .. n : h[i] = step[i][h[i - 1]]

\* Whatever the steps are, such an h exists: this is what justifies a recursive
\* function on 0 .. n.
LEMMA RecursionExists ==
  ASSUME NEW n \in Nat, NEW T, NEW a \in T, NEW step \in [1 .. n -> [T -> T]]
  PROVE  \E h : Iterates(h, n, T, a, step)
<1> DEFINE Good(m, h) == h[0] = a /\ \A i \in 1 .. m : h[i] = step[i][h[i - 1]]
           G == {m \in 0 .. n : \E h \in [0 .. m -> T] : Good(m, h)}
<1>0. 0 \in 0 .. n
  OBVIOUS
<1>1. 0 \in G
  <2>1. [i \in 0 .. 0 |-> a] \in [0 .. 0 -> T] /\ Good(0, [i \in 0 .. 0 |-> a])
    OBVIOUS
  <2> QED BY <2>1, <1>0
<1>2. ASSUME NEW m \in 0 .. n, m < n, m \in G PROVE m + 1 \in G
  <2>1. PICK h \in [0 .. m -> T] : Good(m, h)
    BY <1>2
  <2> DEFINE g == [i \in 0 .. m + 1 |-> IF i = m + 1 THEN step[m + 1][h[m]] ELSE h[i]]
  <2>2. m + 1 \in 1 .. n /\ m \in 0 .. m /\ m + 1 \in 0 .. n /\ m \in Nat
    BY <1>2
  <2>3. h[m] \in T /\ step[m + 1] \in [T -> T]
    BY <2>2
  <2>4. g \in [0 .. m + 1 -> T]
    BY <2>2, <2>3
  <2>5. g[0] = a
    BY <2>1, <2>2
  <2>6. ASSUME NEW i \in 1 .. m + 1 PROVE g[i] = step[i][g[i - 1]]
    <3>1. i - 1 \in 0 .. m /\ i \in 0 .. m + 1 /\ i - 1 \in 0 .. m + 1 /\ i - 1 # m + 1
      BY <2>2
    <3>2. g[i - 1] = h[i - 1]
      BY <3>1
    <3>3. CASE i = m + 1
      BY <2>2, <3>1, <3>2, <3>3
    <3>4. CASE i # m + 1
      <4>1. i \in 1 .. m
        BY <2>2, <3>4
      <4> QED BY <2>1, <3>1, <3>2, <3>4, <4>1
    <3> QED BY <3>3, <3>4
  <2>7. Good(m + 1, g)
    BY <2>5, <2>6
  <2> QED BY <2>2, <2>4, <2>7
<1> HIDE DEF G
<1>3. \A i \in 0 .. n : i \in G
  BY <1>1, <1>2, IntervalInduction
<1>4. n \in G
  BY <1>3
<1> QED BY <1>4 DEF G, Iterates

\* FlattenSeq joins its arguments one after the other.
LEMMA FlattenSteps ==
  ASSUME NEW S, NEW ss \in Seq(Seq(S))
  PROVE  \E h \in [0 .. Len(ss) -> Seq(S)] :
           /\ h[0] = <<>>
           /\ \A i \in 1 .. Len(ss) : h[i] = h[i - 1] \o ss[i]
           /\ FlattenSeq(ss) = h[Len(ss)]
<1> DEFINE n == Len(ss)
           T == Seq(S)
           Rec(g) == [i \in 1 .. Len(ss) |-> IF i = 1 THEN ss[i] ELSE g[i - 1] \o ss[i]]
           flatten == CHOOSE g : g = Rec(g)
<1>1. n \in Nat /\ <<>> \in T /\ \A i \in 1 .. n : ss[i] \in T
  BY LenProperties, ElementOfSeq
<1>2. PICK step \in [1 .. n -> [T -> T]] : \A i \in 1 .. n : \A s \in T : step[i][s] = s \o ss[i]
  <2> DEFINE st == [i \in 1 .. n |-> [s \in T |-> s \o ss[i]]]
  <2>1. st \in [1 .. n -> [T -> T]]
    BY <1>1, ConcatProperties
  <2>2. \A i \in 1 .. n : \A s \in T : st[i][s] = s \o ss[i]
    OBVIOUS
  <2> HIDE DEF st
  <2> QED BY <2>1, <2>2
<1>2a. PICK h : Iterates(h, n, T, <<>>, step)
  BY <1>1, RecursionExists
<1>3. h \in [0 .. n -> T] /\ h[0] = <<>> /\ \A i \in 1 .. n : h[i] = step[i][h[i - 1]]
  BY <1>2a DEF Iterates
<1>4. \A i \in 1 .. n : h[i] = h[i - 1] \o ss[i]
  <2> TAKE i \in 1 .. n
  <2>1. i - 1 \in 0 .. n
    BY <1>1
  <2>2. h[i - 1] \in T
    BY <1>3, <2>1
  <2> QED BY <1>2, <1>3, <2>2
<1>5. CASE n = 0
  <2>1. ss = <<>>
    BY <1>5, EmptySeq
  <2>2. FlattenSeq(ss) = h[Len(ss)]
    BY <1>3, <1>5, <2>1 DEF FlattenSeq
  <2> QED BY <1>3, <1>4, <2>2
<1>6. CASE n # 0
  <2> DEFINE r == [i \in 1 .. n |-> h[i]]
  <2>1. r = Rec(r)
    <3>1. ASSUME NEW i \in 1 .. n PROVE r[i] = Rec(r)[i]
      <4>1. CASE i = 1
        <5>0. 1 \in 1 .. n /\ 1 - 1 = 0
          BY <4>1
        <5>1. h[1] = <<>> \o ss[1]
          BY <1>3, <1>4, <5>0
        <5>2. h[1] = ss[1]
          BY <1>1, <4>1, <5>1, ConcatEmptySeq
        <5> QED BY <4>1, <5>2
      <4>2. CASE i # 1
        <5>1. i - 1 \in 1 .. n
          BY <1>1, <4>2
        <5> QED BY <1>4, <4>2, <5>1
      <4> QED BY <4>1, <4>2
    <3> QED BY <3>1
  <2>2. flatten = Rec(flatten)
    BY <2>1
  <2>3. \A i \in 1 .. n : flatten[i] = IF i = 1 THEN ss[i] ELSE flatten[i - 1] \o ss[i]
    BY <2>2
  <2>4. FlattenSeq(ss) = flatten[n]
    BY <1>6 DEF FlattenSeq
  <2> HIDE DEF flatten
  <2> DEFINE G == {i \in 0 .. n : i = 0 \/ flatten[i] = h[i]}
  <2>5. \A i \in 0 .. n : i \in G
    <3>1. 0 \in G
      BY <1>1
    <3>2. \A i \in 0 .. n : i < n /\ i \in G => i + 1 \in G
      <4> SUFFICES ASSUME NEW i \in 0 .. n, i < n, i \in G PROVE i + 1 \in G
        OBVIOUS
      <4>1. i + 1 \in 1 .. n /\ i + 1 \in 0 .. n /\ (i + 1) - 1 = i
        BY <1>1
      <4>2. h[i + 1] = h[i] \o ss[i + 1]
        BY <1>4, <4>1
      <4>3. CASE i = 0
        <5>0. 1 \in 1 .. n /\ i + 1 = 1 /\ h[i] = <<>>
          BY <1>3, <4>1, <4>3
        <5>1. flatten[1] = ss[1] /\ h[1] = <<>> \o ss[1]
          BY <2>3, <4>2, <5>0
        <5>2. h[1] = ss[1]
          BY <1>1, <4>1, <4>3, <5>1, ConcatEmptySeq
        <5> QED BY <4>1, <4>3, <5>1, <5>2
      <4>4. CASE i # 0
        <5>1. i + 1 # 1
          BY <1>1, <4>4
        <5>2. flatten[i + 1] = flatten[i] \o ss[i + 1]
          BY <2>3, <4>1, <5>1
        <5> QED BY <4>1, <4>2, <4>4, <5>2
      <4> QED BY <4>3, <4>4
    <3> HIDE DEF G, n
    <3> QED BY <1>1, <3>1, <3>2, IntervalInduction
  <2>6. flatten[n] = h[n]
    <3>1. n \in 0 .. n
      BY <1>1
    <3>2. n \in G
      BY <2>5, <3>1
    <3> QED BY <1>6, <3>2
  <2> QED BY <1>3, <1>4, <2>4, <2>6
<1> QED BY <1>5, <1>6

\* What joins the arguments one after the other is FlattenSeq.
LEMMA FlattenUnique ==
  ASSUME NEW S, NEW ss \in Seq(Seq(S)), NEW g,
         g[0] = <<>>, \A i \in 1 .. Len(ss) : g[i] = g[i - 1] \o ss[i]
  PROVE  FlattenSeq(ss) = g[Len(ss)] /\ FlattenSeq(ss) \in Seq(S)
<1> DEFINE n == Len(ss)
<1>1. PICK h \in [0 .. n -> Seq(S)] :
           /\ h[0] = <<>>
           /\ \A i \in 1 .. n : h[i] = h[i - 1] \o ss[i]
           /\ FlattenSeq(ss) = h[n]
  BY FlattenSteps
<1>2. n \in Nat
  BY LenProperties
<1>n. \A i \in 1 .. n : g[i] = g[i - 1] \o ss[i]
  OBVIOUS
<1> HIDE DEF n
<1> DEFINE G == {i \in 0 .. n : g[i] = h[i]}
<1>3. 0 \in G
  BY <1>1, <1>2
<1>4. \A i \in 0 .. n : i < n /\ i \in G => i + 1 \in G
  <2> SUFFICES ASSUME NEW i \in 0 .. n, i < n, i \in G PROVE i + 1 \in G
    OBVIOUS
  <2>1. i + 1 \in 1 .. n /\ i + 1 \in 0 .. n /\ (i + 1) - 1 = i
    BY <1>2
  <2>2. h[i + 1] = h[i] \o ss[i + 1] /\ g[i + 1] = g[i] \o ss[i + 1]
    BY <1>1, <1>n, <2>1
  <2> QED BY <2>1, <2>2
<1> HIDE DEF G
<1>5. n \in G
  <2>1. \A i \in 0 .. n : i \in G
    BY <1>2, <1>3, <1>4, IntervalInduction
  <2> QED BY <1>2, <2>1
<1>6. n \in 0 .. n /\ g[n] = h[n]
  BY <1>2, <1>5 DEF G
<1> QED BY <1>1, <1>6 DEF n

\* Joining two lists of sequences, one behind the other.
LEMMA FlattenConcat ==
  ASSUME NEW S, NEW a \in Seq(Seq(S)), NEW b \in Seq(Seq(S))
  PROVE  FlattenSeq(a \o b) = FlattenSeq(a) \o FlattenSeq(b)
<1> DEFINE T == Seq(S)
           m == Len(a)
           n == Len(b)
           c == a \o b
<1>1. PICK f \in [0 .. m -> T] :
           /\ f[0] = <<>> /\ \A i \in 1 .. m : f[i] = f[i - 1] \o a[i]
           /\ FlattenSeq(a) = f[m]
  BY FlattenSteps
<1>2. PICK h \in [0 .. n -> T] :
           /\ h[0] = <<>> /\ \A i \in 1 .. n : h[i] = h[i - 1] \o b[i]
           /\ FlattenSeq(b) = h[n]
  BY FlattenSteps
<1>3. /\ c \in Seq(T) /\ Len(c) = m + n /\ m \in Nat /\ n \in Nat
      /\ \A i \in 1 .. m + n : c[i] = IF i <= m THEN a[i] ELSE b[i - m]
      /\ \A i \in 1 .. n : b[i] \in T
  BY ConcatProperties, LenProperties, ElementOfSeq
<1>a. \A x, y, z \in T : (x \o y) \o z = x \o (y \o z)
  BY ConcatAssociative
<1> HIDE DEF m, n, c
<1> DEFINE g == [i \in 0 .. m + n |-> IF i <= m THEN f[i] ELSE f[m] \o h[i - m]]
<1>4. g[0] = <<>>
  BY <1>1, <1>3
<1>5. ASSUME NEW i \in 1 .. m + n PROVE g[i] = g[i - 1] \o c[i]
  <2>1. i - 1 \in 0 .. m + n /\ i \in 0 .. m + n /\ 0 \in 0 .. n /\ m \in 0 .. m
    BY <1>3
  <2>2. CASE i <= m
    <3>1. i \in 1 .. m /\ i - 1 <= m
      BY <1>3, <2>2
    <3> QED BY <1>1, <1>3, <2>1, <2>2, <3>1
  <2>3. CASE ~(i <= m)
    <3> DEFINE j == i - m
    <3>1. j \in 1 .. n /\ j - 1 \in 0 .. n
      BY <1>3, <2>3, SMTT(30)
    <3>2. g[i] = f[m] \o h[j] /\ h[j] = h[j - 1] \o b[j] /\ c[i] = b[j]
      BY <1>2, <1>3, <2>1, <2>3, <3>1
    <3>3. g[i - 1] = f[m] \o h[j - 1]
      <4>1. CASE i = m + 1
        <5>1. j - 1 = 0 /\ i - 1 <= m /\ i - 1 = m
          BY <1>3, <4>1
        <5>2. f[m] \o <<>> = f[m]
          BY <2>1, ConcatEmptySeq
        <5> QED BY <1>2, <2>1, <5>1, <5>2
      <4>2. CASE i # m + 1
        <5>1. ~(i - 1 <= m) /\ (i - 1) - m = j - 1
          BY <1>3, <2>3, <4>2
        <5> QED BY <2>1, <5>1
      <4> QED BY <4>1, <4>2
    <3>4. f[m] \in T /\ h[j - 1] \in T /\ b[j] \in T
      BY <1>3, <2>1, <3>1
    <3>5. f[m] \o (h[j - 1] \o b[j]) = f[m] \o h[j - 1] \o b[j]
      BY <1>a, <3>4
    <3> QED BY <3>2, <3>3, <3>5
  <2> QED BY <2>2, <2>3
<1> HIDE DEF g
<1>6. FlattenSeq(c) = g[m + n]
  <2>1. g[0] = <<>> /\ \A i \in 1 .. Len(c) : g[i] = g[i - 1] \o c[i]
    BY <1>3, <1>4, <1>5
  <2>2. c \in Seq(Seq(S))
    BY <1>3
  <2>3. FlattenSeq(c) = g[Len(c)]
    BY <2>1, <2>2, FlattenUnique
  <2> QED BY <1>3, <2>3
<1>7. g[m + n] = f[m] \o h[n]
  <2>1. CASE n = 0
    <3>1. m + n = m /\ m \in 0 .. m /\ h[n] = <<>>
      BY <1>2, <1>3, <2>1
    <3>2. f[m] \o <<>> = f[m]
      BY <3>1, ConcatEmptySeq
    <3> QED BY <1>3, <3>1, <3>2 DEF g
  <2>2. CASE n # 0
    <3>1. m + n \in 0 .. m + n /\ ~(m + n <= m) /\ (m + n) - m = n
      BY <1>3, <2>2
    <3> QED BY <3>1 DEF g
  <2> QED BY <2>1, <2>2
<1> QED BY <1>1, <1>2, <1>6, <1>7 DEF c

\* The types, and the two ends of the recursion.
LEMMA FlattenProperties ==
  ASSUME NEW S
  PROVE  /\ FlattenSeq(<<>>) = <<>>
         /\ \A ss \in Seq(Seq(S)) : FlattenSeq(ss) \in Seq(S)
         /\ \A s \in Seq(S) : FlattenSeq(<<s>>) = s
         /\ \A ss \in Seq(Seq(S)), s \in Seq(S) :
               FlattenSeq(Append(ss, s)) = FlattenSeq(ss) \o s
<1>1. FlattenSeq(<<>>) = <<>>
  BY DEF FlattenSeq
<1>2. ASSUME NEW ss \in Seq(Seq(S)) PROVE FlattenSeq(ss) \in Seq(S)
  <2>1. PICK h \in [0 .. Len(ss) -> Seq(S)] : FlattenSeq(ss) = h[Len(ss)]
    BY FlattenSteps
  <2> QED BY <2>1, LenProperties
<1>3. ASSUME NEW s \in Seq(S) PROVE FlattenSeq(<<s>>) = s
  <2>1. <<s>> \in Seq(Seq(S)) /\ Len(<<s>>) = 1 /\ <<s>>[1] = s
    OBVIOUS
  <2>2. PICK h \in [0 .. 1 -> Seq(S)] :
           h[0] = <<>> /\ h[1] = h[0] \o s /\ FlattenSeq(<<s>>) = h[1]
    <3>1. PICK h \in [0 .. Len(<<s>>) -> Seq(S)] :
             /\ h[0] = <<>>
             /\ \A i \in 1 .. Len(<<s>>) : h[i] = h[i - 1] \o <<s>>[i]
             /\ FlattenSeq(<<s>>) = h[Len(<<s>>)]
      BY <2>1, FlattenSteps
    <3>2. 1 \in 1 .. 1 /\ 1 - 1 = 0
      OBVIOUS
    <3>3. h[1] = h[0] \o s
      BY <2>1, <3>1, <3>2
    <3>4. h \in [0 .. 1 -> Seq(S)] /\ h[0] = <<>> /\ FlattenSeq(<<s>>) = h[1]
      BY <2>1, <3>1
    <3> QED BY <3>3, <3>4
  <2>3. <<>> \o s = s
    BY ConcatEmptySeq
  <2> QED BY <2>2, <2>3
<1>4. ASSUME NEW ss \in Seq(Seq(S)), NEW s \in Seq(S)
      PROVE  FlattenSeq(Append(ss, s)) = FlattenSeq(ss) \o s
  <2>1. <<s>> \in Seq(Seq(S))
    OBVIOUS
  <2>2. Append(ss, s) = ss \o <<s>>
    BY AppendIsConcat
  <2>3. FlattenSeq(ss \o <<s>>) = FlattenSeq(ss) \o FlattenSeq(<<s>>)
    BY <2>1, FlattenConcat
  <2> QED BY <1>3, <2>2, <2>3
<1> QED BY <1>1, <1>2, <1>3, <1>4

=============================================================================
