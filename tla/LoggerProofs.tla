---------------------------- MODULE LoggerProofs ----------------------------
(***************************************************************************)
(* Theorems about LoggerTie for any threads, loggers and ties, whatever    *)
(* other threads do to the ties while a chain runs, and, at the end, about *)
(* Registry for any threads, names and bounds.                             *)
(***************************************************************************)
EXTENDS LoggerTie, Registry, FiniteSetTheorems, SequenceLemmas

\* The activations of a recursion o with stack s that took the guard, and their
\* number.
Guards(o, s) == {i \in DOMAIN s : o = "emit" \/ s[i].at = "forward"}
Undecided(o, s) == IF o = "flush" /\ s # <<>> /\ s[1].at = "snap" THEN 1 ELSE 0

\* One thread's recursion: what it does, the logger it is about to enter, its
\* activations and its visited set.  Every activation but the newest is walking
\* its ties; the guarded ones are those of the visited loggers, one each.
Nested(o, tg, s, v) ==
    /\ \A i \in DOMAIN s : i # 1 => s[i].at = "forward"
    /\ tg # NULL /\ s # <<>> => s[1].at = "forward"
    /\ v = {s[i].logger : i \in Guards(o, s)}
    /\ \A i, j \in Guards(o, s) : i # j => s[i].logger # s[j].logger
    /\ Cardinality(v) = Len(s) - Undecided(o, s)

\* TypeOK but for the bound on the depth, which follows from the rest.
Types ==
    /\ ties \in [Loggers -> SUBSET Loggers]
    /\ op \in [Threads -> {"emit", "flush"}]
    /\ target \in [Threads -> Loggers \cup {NULL}]
    /\ stack \in [Threads -> Seq(Frame)]
    /\ visited \in [Threads -> SUBSET Loggers]
    /\ chains \in 0 .. MaxChains /\ configs \in 0 .. MaxConfig
    /\ root \in [Threads -> Loggers \cup {NULL}]
    /\ copies \in [Threads -> [Loggers -> Nat]]
    /\ stable \in [Threads -> [edges : SUBSET (Loggers \X Loggers), clean : BOOLEAN]]

IInv == Types /\ \A t \in Threads : Nested(op[t], target[t], stack[t], visited[t])


-----------------------------------------------------------------------------
(* One recursion, step by step                                             *)

\* A new activation: emit() marks its logger at once, flush() only later.
LEMMA PushKeeps ==
  ASSUME NEW o \in {"emit", "flush"}, NEW l \in Loggers, NEW s \in Seq(Frame),
         NEW v \in SUBSET Loggers, Nested(o, l, s, v),
         NEW f \in Frame, f.logger = l, f.at = "snap"
  PROVE  /\ <<f>> \o s \in Seq(Frame)
         /\ o = "emit" /\ l \notin v => Nested(o, NULL, <<f>> \o s, v \cup {l})
         /\ o = "flush" => Nested(o, NULL, <<f>> \o s, v)
<1> DEFINE c == <<f>> \o s
<1>1. /\ c \in Seq(Frame) /\ Len(c) = 1 + Len(s) /\ c # <<>> /\ c[1] = f
      /\ \A i \in 1 .. Len(s) : c[i + 1] = s[i]
  BY ConsProperties
<1>2. Len(s) \in Nat /\ DOMAIN s = 1 .. Len(s) /\ DOMAIN c = 1 .. 1 + Len(s)
  BY <1>1, LenProperties
<1>3. l # NULL
  BY ConstantsAssumption
<1> HIDE DEF c
<1>4. ASSUME NEW i \in DOMAIN c, i # 1 PROVE i - 1 \in DOMAIN s /\ c[i] = s[i - 1]
  <2>1. i - 1 \in 1 .. Len(s) /\ (i - 1) + 1 = i
    BY <1>2, <1>4
  <2> QED BY <1>1, <2>1
<1>5. ASSUME NEW i \in DOMAIN s PROVE i + 1 \in DOMAIN c /\ i + 1 # 1 /\ c[i + 1] = s[i]
  BY <1>1, <1>2
<1>6. \A i \in DOMAIN s : s[i].at = "forward"
  <2>1. s # <<>> => s[1].at = "forward"
    BY <1>3 DEF Nested
  <2>2. ASSUME NEW i \in DOMAIN s PROVE s[i].at = "forward"
    <3>1. s # <<>>
      BY <1>2
    <3> QED BY <2>1 DEF Nested
  <2> QED BY <2>2
<1>7. \A i \in DOMAIN c : i # 1 => c[i].at = "forward"
  BY <1>4, <1>6
<1>8. Guards(o, s) = DOMAIN s
  BY <1>6 DEF Guards
<1>9. v = {s[i].logger : i \in DOMAIN s} /\ Cardinality(v) = Len(s)
      /\ \A i, j \in DOMAIN s : i # j => s[i].logger # s[j].logger
  <2>1. Undecided(o, s) = 0
    <3>1. s # <<>> => s[1].at # "snap"
      BY <1>3 DEF Nested
    <3> QED BY <3>1 DEF Undecided
  <2>2. v = {s[i].logger : i \in Guards(o, s)}
        /\ \A i, j \in Guards(o, s) : i # j => s[i].logger # s[j].logger
    BY DEF Nested
  <2>3. Cardinality(v) = Len(s) - 0
    BY <2>1 DEF Nested
  <2>4. Len(s) - 0 = Len(s)
    BY <1>2
  <2> QED BY <1>8, <2>2, <2>3
<1>10. IsFiniteSet(v)
  BY FS_Subset, ConstantsAssumption
<1>11. ASSUME o = "emit", l \notin v PROVE Nested(o, NULL, c, v \cup {l})
  <2>1. Guards(o, c) = DOMAIN c
    BY <1>11 DEF Guards
  <2>2. v \cup {l} = {c[i].logger : i \in DOMAIN c}
    <3>1. ASSUME NEW m \in v \cup {l} PROVE \E i \in DOMAIN c : m = c[i].logger
      <4>1. CASE m = l
        BY <1>1, <4>1
      <4>2. CASE m \in v
        BY <1>5, <1>9, <4>2
      <4> QED BY <4>1, <4>2
    <3>2. ASSUME NEW i \in DOMAIN c PROVE c[i].logger \in v \cup {l}
      BY <1>1, <1>4, <1>9
    <3> QED BY <3>1, <3>2
  <2>3. ASSUME NEW i \in DOMAIN c, NEW j \in DOMAIN c, i # j
        PROVE  c[i].logger # c[j].logger
    <3>1. CASE i # 1 /\ j # 1
      <4>1. i - 1 # j - 1
        BY <1>2, <2>3
      <4> QED BY <1>4, <1>9, <3>1, <4>1
    <3>2. CASE i = 1
      <4>1. c[j].logger \in v
        BY <1>4, <1>9, <2>3, <3>2
      <4> QED BY <1>1, <1>11, <3>2, <4>1
    <3>3. CASE j = 1
      <4>1. c[i].logger \in v
        BY <1>4, <1>9, <2>3, <3>3
      <4> QED BY <1>1, <1>11, <3>3, <4>1
    <3> QED BY <3>1, <3>2, <3>3
  <2>4. Cardinality(v \cup {l}) = Len(c) - Undecided(o, c)
    <3>1. Cardinality(v \cup {l}) = Cardinality(v) + 1
      BY <1>10, <1>11, FS_AddElement
    <3>2. Undecided(o, c) = 0
      BY <1>11 DEF Undecided
    <3>3. Cardinality(v) = Len(s)
      BY <1>9
    <3>4. Len(s) + 1 = 1 + Len(s) - 0
      BY <1>2
    <3> QED BY <1>1, <3>1, <3>2, <3>3
  <2> QED BY <1>7, <2>1, <2>2, <2>3, <2>4 DEF Nested
<1>12. ASSUME o = "flush" PROVE Nested(o, NULL, c, v)
  <2>1. ASSUME NEW i \in DOMAIN c PROVE i \in Guards(o, c) <=> i # 1
    BY <1>1, <1>7, <1>12 DEF Guards
  <2>2. v = {c[i].logger : i \in Guards(o, c)}
    <3>1. ASSUME NEW m \in v PROVE \E i \in Guards(o, c) : m = c[i].logger
      <4>1. PICK i \in DOMAIN s : m = s[i].logger
        BY <1>9
      <4>2. i + 1 \in Guards(o, c) /\ m = c[i + 1].logger
        BY <1>5, <2>1, <4>1
      <4> QED BY <4>2
    <3>2. ASSUME NEW i \in Guards(o, c) PROVE c[i].logger \in v
      <4>1. i \in DOMAIN c /\ i # 1
        BY <2>1 DEF Guards
      <4> QED BY <1>4, <1>9, <4>1
    <3> QED BY <3>1, <3>2
  <2>3. ASSUME NEW i \in Guards(o, c), NEW j \in Guards(o, c), i # j
        PROVE  c[i].logger # c[j].logger
    <3>1. i \in DOMAIN c /\ i # 1 /\ j \in DOMAIN c /\ j # 1
      BY <2>1 DEF Guards
    <3>2. i - 1 # j - 1
      BY <1>2, <2>3, <3>1
    <3> QED BY <1>4, <1>9, <3>1, <3>2
  <2>4. Cardinality(v) = Len(c) - Undecided(o, c)
    <3>1. Undecided(o, c) = 1
      BY <1>1, <1>12 DEF Undecided
    <3>2. Cardinality(v) = Len(s)
      BY <1>9
    <3>3. Len(s) = 1 + Len(s) - 1
      BY <1>2
    <3> QED BY <1>1, <3>1, <3>2
  <2> QED BY <1>7, <2>2, <2>3, <2>4 DEF Nested
<1> QED BY <1>11, <1>12 DEF c

\* The newest activation takes its guard, or goes on walking its ties.
LEMMA WalkKeeps ==
  ASSUME NEW o \in {"emit", "flush"}, NEW s \in Seq(Frame), s # <<>>,
         NEW v \in SUBSET Loggers, Nested(o, NULL, s, v),
         o = "flush" /\ s[1].at = "snap" => s[1].logger \notin v,
         NEW f \in Frame, f.logger = s[1].logger, f.at = "forward", NEW tg
  PROVE  /\ [s EXCEPT ![1] = f] \in Seq(Frame)
         /\ Nested(o, tg, [s EXCEPT ![1] = f], v \cup {f.logger})
<1> DEFINE c == [s EXCEPT ![1] = f]
           l == f.logger
<1>1. Len(s) \in Nat \ {0} /\ DOMAIN s = 1 .. Len(s) /\ 1 \in DOMAIN s
  BY EmptySeq, LenProperties
<1>2. /\ c \in Seq(Frame) /\ Len(c) = Len(s) /\ c[1] = f
      /\ \A i \in DOMAIN s : i # 1 => c[i] = s[i]
  BY <1>1, ExceptSeq
<1>3. DOMAIN c = DOMAIN s
  BY <1>1
<1>0. s[1].at \in {"snap", "forward"}
  <2>1. s[1] \in Frame
    BY <1>1, ElementOfSeq
  <2> QED BY <2>1 DEF Frame
<1> HIDE DEF c
<1>4. \A i \in DOMAIN c : c[i].at = "forward" /\ c[i].logger = s[i].logger
  BY <1>2 DEF Nested
<1>5. Guards(o, c) = DOMAIN s
  BY <1>3, <1>4 DEF Guards
<1>6. \A i \in DOMAIN s : i # 1 => i \in Guards(o, s)
  BY DEF Nested, Guards
<1>7. v \cup {l} = {c[i].logger : i \in Guards(o, c)}
  <2>1. ASSUME NEW m \in v \cup {l} PROVE \E i \in DOMAIN s : m = s[i].logger
    <3>1. CASE m \in v
      BY DEF Nested, Guards
    <3>2. CASE m = l
      BY <1>1, <3>2
    <3> QED BY <3>1, <3>2
  <2>2. ASSUME NEW i \in DOMAIN s PROVE s[i].logger \in v \cup {l}
    <3>1. CASE i = 1
      BY <3>1
    <3>2. CASE i # 1
      BY <1>6 DEF Nested
    <3> QED BY <3>1, <3>2
  <2>3. v \cup {l} = {s[i].logger : i \in DOMAIN s}
    BY <2>1, <2>2
  <2>4. {s[i].logger : i \in DOMAIN s} = {c[i].logger : i \in DOMAIN s}
    BY <1>3, <1>4
  <2> QED BY <1>5, <2>3, <2>4
<1>8. ASSUME NEW i \in DOMAIN s, NEW j \in DOMAIN s, i # j
      PROVE  s[i].logger # s[j].logger
  <2>1. CASE 1 \in Guards(o, s)
    <3>1. i \in Guards(o, s) /\ j \in Guards(o, s)
      BY <1>6, <2>1
    <3> QED BY <1>8, <3>1 DEF Nested
  <2>2. CASE 1 \notin Guards(o, s)
    <3>1. s[1].logger \notin v
      BY <1>0, <2>2 DEF Guards
    <3>2. \A k \in DOMAIN s : k # 1 => s[k].logger \in v
      BY <1>6 DEF Nested
    <3>3. CASE i # 1 /\ j # 1
      <4>1. i \in Guards(o, s) /\ j \in Guards(o, s)
        BY <1>6, <3>3
      <4> QED BY <1>8, <4>1 DEF Nested
    <3>4. CASE i = 1 \/ j = 1
      BY <1>8, <3>1, <3>2, <3>4
    <3> QED BY <3>3, <3>4
  <2> QED BY <2>1, <2>2
<1>9. \A i, j \in Guards(o, c) : i # j => c[i].logger # c[j].logger
  BY <1>3, <1>4, <1>5, <1>8
<1>10. Cardinality(v \cup {l}) = Len(c) - Undecided(o, c)
  <2>1. IsFiniteSet(v)
    BY FS_Subset, ConstantsAssumption
  <2>2. Undecided(o, c) = 0
    BY <1>3, <1>4 DEF Undecided
  <2>3. CASE o = "flush" /\ s[1].at = "snap"
    <3>1. Cardinality(v) = Len(s) - 1
      BY <2>3 DEF Nested, Undecided
    <3>2. Cardinality(v \cup {l}) = Cardinality(v) + 1
      BY <2>1, <2>3, FS_AddElement
    <3>3. Len(s) - 1 + 1 = Len(s) - 0
      BY <1>1
    <3> QED BY <1>2, <2>2, <3>1, <3>2
  <2>4. CASE ~(o = "flush" /\ s[1].at = "snap")
    <3>1. Cardinality(v) = Len(s) - 0
      BY <2>4 DEF Nested, Undecided
    <3>2. 1 \in Guards(o, s)
      BY <1>0, <2>4 DEF Guards
    <3>3. v \cup {l} = v
      BY <3>2 DEF Nested
    <3> QED BY <1>2, <2>2, <3>1, <3>3
  <2> QED BY <2>3, <2>4
<1> QED BY <1>2, <1>7, <1>9, <1>10 DEF Nested, c

\* The newest activation ends: what it marked is unmarked, and it marked its own
\* logger or none.
LEMMA PopKeeps ==
  ASSUME NEW o \in {"emit", "flush"}, NEW s \in Seq(Frame), s # <<>>,
         NEW v \in SUBSET Loggers, Nested(o, NULL, s, v)
  PROVE  /\ Tail(s) \in Seq(Frame)
         /\ o = "flush" /\ s[1].at = "snap" => Nested(o, NULL, Tail(s), v)
         /\ s[1].at = "forward" => Nested(o, NULL, Tail(s), v \ {s[1].logger})
<1> DEFINE c == Tail(s)
<1>1. Len(s) \in Nat \ {0} /\ DOMAIN s = 1 .. Len(s) /\ 1 \in DOMAIN s
  BY EmptySeq, LenProperties
<1>2. /\ c \in Seq(Frame) /\ Len(c) = Len(s) - 1
      /\ \A i \in 1 .. Len(s) - 1 : c[i] = s[i + 1]
  BY HeadTailProperties
<1>3. DOMAIN c = 1 .. Len(s) - 1
  BY <1>2, LenProperties
<1> HIDE DEF c
<1>4. ASSUME NEW i \in DOMAIN c
      PROVE  /\ i + 1 \in DOMAIN s /\ i + 1 # 1 /\ c[i] = s[i + 1]
             /\ c[i].at = "forward" /\ i + 1 \in Guards(o, s)
  <2>1. i + 1 \in DOMAIN s /\ i + 1 # 1 /\ c[i] = s[i + 1]
    BY <1>2
  <2>2. s[i + 1].at = "forward"
    BY <2>1 DEF Nested
  <2> QED BY <2>1, <2>2 DEF Guards
<1>5. ASSUME NEW i \in DOMAIN s, i # 1 PROVE i - 1 \in DOMAIN c /\ c[i - 1] = s[i]
  <2>1. i - 1 \in 1 .. Len(s) - 1 /\ (i - 1) + 1 = i
    BY <1>1, <1>5
  <2> QED BY <1>2, <1>3, <2>1
<1>6. Guards(o, c) = DOMAIN c
  BY <1>4 DEF Guards
<1>7. Undecided(o, c) = 0
  <2>1. c # <<>> => c[1].at = "forward"
    <3>1. c # <<>> => 1 \in DOMAIN c
      BY <1>1
    <3> QED BY <1>4, <3>1
  <2> QED BY <2>1 DEF Undecided
<1>8. ASSUME NEW i \in DOMAIN c, NEW j \in DOMAIN c, i # j
      PROVE  c[i].logger # c[j].logger
  <2>1. i + 1 # j + 1
    BY <1>3, <1>8
  <2> QED BY <1>4, <2>1 DEF Nested
<1>9. IsFiniteSet(v)
  BY FS_Subset, ConstantsAssumption
<1>10. ASSUME o = "flush", s[1].at = "snap" PROVE Nested(o, NULL, c, v)
  <2>1. 1 \notin Guards(o, s)
    BY <1>10 DEF Guards
  <2>2. v = {c[i].logger : i \in DOMAIN c}
    <3>1. ASSUME NEW m \in v PROVE \E i \in DOMAIN c : m = c[i].logger
      <4>1. PICK i \in Guards(o, s) : m = s[i].logger
        BY DEF Nested
      <4>2. i \in DOMAIN s /\ i # 1
        BY <2>1 DEF Guards
      <4> QED BY <1>5, <4>1, <4>2
    <3>2. ASSUME NEW i \in DOMAIN c PROVE c[i].logger \in v
      BY <1>4 DEF Nested
    <3> QED BY <3>1, <3>2
  <2>3. Cardinality(v) = Len(c) - Undecided(o, c)
    <3>1. Cardinality(v) = Len(s) - 1
      BY <1>10 DEF Nested, Undecided
    <3>2. Len(s) - 1 = Len(s) - 1 - 0
      BY <1>1
    <3> QED BY <1>2, <1>7, <3>1
  <2> QED BY <1>4, <1>6, <1>8, <2>2, <2>3 DEF Nested
<1>11. ASSUME s[1].at = "forward" PROVE Nested(o, NULL, c, v \ {s[1].logger})
  <2>1. 1 \in Guards(o, s)
    BY <1>11 DEF Guards
  <2>2. s[1].logger \in v
    BY <2>1 DEF Nested
  <2>3. v \ {s[1].logger} = {c[i].logger : i \in DOMAIN c}
    <3>1. ASSUME NEW m \in v \ {s[1].logger} PROVE \E i \in DOMAIN c : m = c[i].logger
      <4>1. PICK i \in Guards(o, s) : m = s[i].logger
        BY DEF Nested
      <4>2. i \in DOMAIN s /\ i # 1
        BY <4>1 DEF Guards
      <4> QED BY <1>5, <4>1, <4>2
    <3>2. ASSUME NEW i \in DOMAIN c PROVE c[i].logger \in v \ {s[1].logger}
      <4>1. i + 1 \in Guards(o, s) /\ i + 1 # 1 /\ c[i].logger = s[i + 1].logger
        BY <1>4
      <4>2. s[i + 1].logger # s[1].logger /\ s[i + 1].logger \in v
        BY <2>1, <4>1 DEF Nested
      <4> QED BY <4>1, <4>2
    <3> QED BY <3>1, <3>2
  <2>4. Cardinality(v \ {s[1].logger}) = Len(c) - Undecided(o, c)
    <3>1. Cardinality(v) = Len(s) - 0
      BY <1>11 DEF Nested, Undecided
    <3>2. Cardinality(v \ {s[1].logger}) = Cardinality(v) - 1
      BY <1>9, <2>2, FS_RemoveElement
    <3>3. Len(s) - 0 - 1 = Len(s) - 1 - 0
      BY <1>1
    <3> QED BY <1>2, <1>7, <3>1, <3>2
  <2> QED BY <1>4, <1>6, <1>8, <2>3, <2>4 DEF Nested
<1> QED BY <1>10, <1>11 DEF c

\* A call that has not begun has neither activations nor marks, whatever it will do.
LEMMA IdleKeeps ==
  ASSUME NEW o, NEW p, NEW tg, NEW l, NEW v, Nested(o, tg, <<>>, v)
  PROVE  Nested(p, l, <<>>, v)
<1>1. DOMAIN <<>> = {}
  OBVIOUS
<1>2. Guards(o, <<>>) = {} /\ Guards(p, <<>>) = {}
  BY <1>1 DEF Guards
<1>3. Undecided(o, <<>>) = 0 /\ Undecided(p, <<>>) = 0
  BY DEF Undecided
<1> QED BY <1>2, <1>3 DEF Nested

\* What the invariant says of one thread's activations.
LEMMA OfThread ==
  ASSUME IInv, NEW t \in Threads
  PROVE  /\ op[t] \in {"emit", "flush"} /\ target[t] \in Loggers \cup {NULL}
         /\ stack[t] \in Seq(Frame) /\ visited[t] \in SUBSET Loggers
         /\ Nested(op[t], target[t], stack[t], visited[t])
         /\ stack[t] # <<>> =>
              /\ stack[t][1] \in Frame /\ Top(t) = stack[t][1]
              /\ stack[t][1].at = "forward" => stack[t][1].logger \in visited[t]
<1>1. /\ op[t] \in {"emit", "flush"} /\ target[t] \in Loggers \cup {NULL}
      /\ stack[t] \in Seq(Frame) /\ visited[t] \in SUBSET Loggers
      /\ Nested(op[t], target[t], stack[t], visited[t])
  BY DEF IInv, Types
<1>2. ASSUME stack[t] # <<>>
      PROVE  /\ stack[t][1] \in Frame /\ Top(t) = stack[t][1]
             /\ stack[t][1].at = "forward" => stack[t][1].logger \in visited[t]
  <2>1. 1 \in 1 .. Len(stack[t]) /\ DOMAIN stack[t] = 1 .. Len(stack[t])
    BY <1>2
  <2>2. stack[t][1] \in Frame /\ Top(t) = stack[t][1]
    BY <1>1, <1>2 DEF Top
  <2>3. stack[t][1].at = "forward" => stack[t][1].logger \in visited[t]
    BY <1>1, <2>1 DEF Nested, Guards
  <2> QED BY <2>2, <2>3
<1> QED BY <1>1, <1>2

\* A step of t that leaves the other threads' recursions alone need only be
\* looked at for t.
LEMMA OneThread ==
  ASSUME IInv, NEW t \in Threads, Types',
         \A u \in Threads : u # t =>
            UNCHANGED <<op[u], target[u], stack[u], visited[u]>>,
         Nested(op'[t], target'[t], stack'[t], visited'[t])
  PROVE  IInv'
BY DEF IInv

-----------------------------------------------------------------------------
(* The actions                                                             *)

\* The initial state satisfies the invariant.
LEMMA Initially == Init => IInv
<1> SUFFICES ASSUME Init PROVE IInv OBVIOUS
<1>1. Types
  BY ConstantsAssumption DEF Init, Types
<1>2. ASSUME NEW t \in Threads PROVE Nested("emit", NULL, <<>>, {})
  <2>1. DOMAIN <<>> = {} /\ Len(<<>>) = 0 /\ Cardinality({}) = 0
    BY FS_EmptySet
  <2>2. Guards("emit", <<>>) = {} /\ Undecided("emit", <<>>) = 0
    BY DEF Guards, Undecided
  <2> QED BY <2>1, <2>2 DEF Nested
<1> QED BY <1>1, <1>2 DEF Init, IInv

\* A thread enters emit() or flush() from outside.
LEMMA StartStep ==
  ASSUME IInv, NEW t \in Threads, NEW o \in {"emit", "flush"}, NEW l \in Loggers,
         Start(t, o, l)
  PROVE  IInv'
<1>1. target[t] = NULL /\ stack[t] = <<>>
  BY DEF Start, Busy
<1>2. Types'
  <2>1. Edges \in SUBSET (Loggers \X Loggers)
    BY DEF Edges
  <2>2. chains' \in 0 .. MaxChains
    BY ConstantsAssumption DEF Start, IInv, Types
  <2> QED BY <2>1, <2>2 DEF Start, IInv, Types
<1>3. \A u \in Threads : u # t => UNCHANGED <<op[u], target[u], stack[u], visited[u]>>
  BY DEF Start
<1>4. /\ op'[t] = o /\ target'[t] = l /\ stack'[t] = <<>> /\ visited'[t] = visited[t]
  BY <1>1 DEF Start, IInv, Types
<1>5. Nested(op'[t], target'[t], stack'[t], visited'[t])
  BY <1>1, <1>4, OfThread, IdleKeeps
<1> QED BY <1>2, <1>3, <1>5, OneThread

\* The counters of the deliveries stay counters.
LEMMA ReachSinksType ==
  ASSUME Types, NEW t \in Threads, NEW l \in Loggers, ReachSinks(t, l)
  PROVE  copies' \in [Threads -> [Loggers -> Nat]]
<1>1. copies \in [Threads -> [Loggers -> Nat]] /\ copies[t] \in [Loggers -> Nat]
  BY DEF Types
<1>2. [copies[t] EXCEPT ![l] = copies[t][l] + 1] \in [Loggers -> Nat]
  BY <1>1
<1>3. copies' = [copies EXCEPT ![t] = [copies[t] EXCEPT ![l] = copies[t][l] + 1]]
  BY DEF ReachSinks
<1> QED BY <1>1, <1>3

\* emit() passes the logger on to its sinks only, or not at all.
LEMMA NoGuardStep ==
  ASSUME IInv, NEW t \in Threads, EmitFast(t) \/ EmitVisited(t)
  PROVE  IInv'
<1>1. target[t] \in Loggers
  BY OfThread DEF EmitFast, EmitVisited, Enter
<1>2. Types'
  <2>1. copies' \in [Threads -> [Loggers -> Nat]]
    BY <1>1, ReachSinksType DEF EmitFast, EmitVisited, IInv, Types
  <2> QED BY <2>1 DEF EmitFast, EmitVisited, Enter, IInv, Types
<1>3. \A u \in Threads : u # t => UNCHANGED <<op[u], target[u], stack[u], visited[u]>>
  BY DEF EmitFast, EmitVisited, Enter, IInv, Types
<1>4. /\ op'[t] = op[t] /\ target'[t] = NULL /\ stack'[t] = stack[t]
      /\ visited'[t] = visited[t]
  BY DEF EmitFast, EmitVisited, Enter, IInv, Types
<1>5. Nested(op'[t], target'[t], stack'[t], visited'[t])
  BY <1>4, OfThread DEF Nested
<1> QED BY <1>2, <1>3, <1>5, OneThread

\* emit() takes the guard and starts an activation; flush() starts one before it
\* looks at the guard.
LEMMA PushStep ==
  ASSUME IInv, NEW t \in Threads, EmitTied(t) \/ FlushEnter(t)
  PROVE  IInv'
<1> DEFINE l == target[t]
           f == [logger |-> l, at |-> "snap", todo |-> {}]
<1>1. /\ l \in Loggers /\ target'[t] = NULL /\ op'[t] = op[t]
      /\ stack'[t] = <<f>> \o stack[t]
      /\ \/ op[t] = "emit" /\ l \notin visited[t] /\ visited'[t] = visited[t] \cup {l}
         \/ op[t] = "flush" /\ visited'[t] = visited[t]
  BY DEF EmitTied, FlushEnter, Enter, Push, Unvisited, IInv, Types
<1>2. f \in Frame
  BY <1>1 DEF Frame
<1>3. <<f>> \o stack[t] \in Seq(Frame)
  BY <1>2, OfThread
<1>4. Nested(op'[t], target'[t], stack'[t], visited'[t])
  <2>1. /\ stack[t] \in Seq(Frame) /\ visited[t] \in SUBSET Loggers
        /\ Nested(op[t], l, stack[t], visited[t])
    BY OfThread
  <2>2. f.logger = l /\ f.at = "snap"
    OBVIOUS
  <2> HIDE DEF f
  <2>3. CASE op[t] = "emit" /\ l \notin visited[t] /\ visited'[t] = visited[t] \cup {l}
    <3>1. Nested("emit", NULL, <<f>> \o stack[t], visited[t] \cup {l})
      BY <1>1, <1>2, <2>1, <2>2, <2>3, PushKeeps
    <3> QED BY <1>1, <2>3, <3>1
  <2>4. CASE op[t] = "flush" /\ visited'[t] = visited[t]
    <3>1. Nested("flush", NULL, <<f>> \o stack[t], visited[t])
      BY <1>1, <1>2, <2>1, <2>2, <2>4, PushKeeps
    <3> QED BY <1>1, <2>4, <3>1
  <2> QED BY <1>1, <2>3, <2>4
<1>5. Types'
  <2>1. stack' \in [Threads -> Seq(Frame)]
    BY <1>3 DEF EmitTied, FlushEnter, Push, IInv, Types
  <2>2. copies' \in [Threads -> [Loggers -> Nat]]
    BY <1>1, ReachSinksType DEF EmitTied, FlushEnter, IInv
  <2>3. visited' \in [Threads -> SUBSET Loggers]
    BY <1>1 DEF EmitTied, FlushEnter, IInv, Types
  <2> QED BY <2>1, <2>2, <2>3 DEF EmitTied, FlushEnter, Enter, IInv, Types
<1>6. \A u \in Threads : u # t => UNCHANGED <<op[u], target[u], stack[u], visited[u]>>
  BY DEF EmitTied, FlushEnter, Enter, Push, IInv, Types
<1> QED BY <1>4, <1>5, <1>6, OneThread

\* The copy of the ties is taken: the activation walks it, or a flush() that is
\* already inside this logger ends.
LEMMA SnapshotStep ==
  ASSUME IInv, NEW t \in Threads, Snapshot(t)
  PROVE  IInv'
<1> DEFINE s == stack[t]
           l == s[1].logger
           f == [[s[1] EXCEPT !.at = "forward"] EXCEPT !.todo = ties[l]]
<1>1. /\ target[t] = NULL /\ s # <<>> /\ s[1].at = "snap" /\ Top(t) = s[1]
      /\ UNCHANGED <<ties, op, target, chains, configs, history>>
  BY OfThread DEF Snapshot, CopyTies
<1>2. /\ op[t] \in {"emit", "flush"} /\ s \in Seq(Frame) /\ s[1] \in Frame
      /\ visited[t] \in SUBSET Loggers /\ Nested(op[t], NULL, s, visited[t])
  BY <1>1, OfThread
<1>3. l \in Loggers /\ f \in Frame /\ f.logger = l /\ f.at = "forward"
  BY <1>2 DEF Frame, IInv, Types
<1>4. \A u \in Threads : u # t => UNCHANGED <<op[u], target[u], stack[u], visited[u]>>
  BY DEF Snapshot, CopyTies, IInv, Types
<1>5. CASE op[t] = "flush" /\ l \in visited[t]
  <2>1. stack' = [stack EXCEPT ![t] = Tail(s)] /\ visited' = visited
    BY <1>1, <1>5 DEF Snapshot, CopyTies
  <2>2. Tail(s) \in Seq(Frame) /\ Nested(op[t], NULL, Tail(s), visited[t])
    BY <1>1, <1>2, <1>5, PopKeeps
  <2>3. Types'
    BY <1>1, <2>1 DEF IInv, Types, history
  <2>4. Nested(op'[t], target'[t], stack'[t], visited'[t])
    BY <1>1, <2>1, <2>2 DEF IInv
  <2> QED BY <1>4, <2>3, <2>4, OneThread
<1>6. CASE ~(op[t] = "flush" /\ l \in visited[t])
  <2>1. /\ stack' = [stack EXCEPT ![t] = [s EXCEPT ![1] = f]]
        /\ visited' = [visited EXCEPT ![t] = visited[t] \cup {l}]
    BY <1>1, <1>6 DEF Snapshot, CopyTies
  <2>2. /\ [s EXCEPT ![1] = f] \in Seq(Frame)
        /\ Nested(op[t], NULL, [s EXCEPT ![1] = f], visited[t] \cup {l})
    <3> HIDE DEF f
    <3> QED BY <1>1, <1>2, <1>3, <1>6, WalkKeeps
  <2> HIDE DEF f
  <2>3. Types'
    BY <1>1, <1>3, <2>1 DEF IInv, Types, history
  <2>4. Nested(op'[t], target'[t], stack'[t], visited'[t])
    BY <1>1, <2>1, <2>2 DEF IInv, Types
  <2> QED BY <1>4, <2>3, <2>4, OneThread
<1> QED BY <1>5, <1>6

\* The loop over the copy goes on to the next tied logger.
LEMMA ForwardStep ==
  ASSUME IInv, NEW t \in Threads, Forward(t)
  PROVE  IInv'
<1> DEFINE s == stack[t]
<1>1. /\ target[t] = NULL /\ s # <<>> /\ s[1].at = "forward" /\ Top(t) = s[1]
      /\ UNCHANGED <<ties, op, visited, chains, configs, history>>
  BY OfThread DEF Forward
<1>2. /\ op[t] \in {"emit", "flush"} /\ s \in Seq(Frame) /\ s[1] \in Frame
      /\ visited[t] \in SUBSET Loggers /\ Nested(op[t], NULL, s, visited[t])
      /\ s[1].logger \in visited[t]
  BY <1>1, OfThread
<1>3. PICK l \in s[1].todo :
        /\ target' = [target EXCEPT ![t] = l]
        /\ stack' = [stack EXCEPT ![t][1].todo = @ \ {l}]
  BY <1>1 DEF Forward
<1> DEFINE f == [s[1] EXCEPT !.todo = s[1].todo \ {l}]
<1>4. /\ l \in Loggers /\ f \in Frame /\ f.logger = s[1].logger /\ f.at = "forward"
  BY <1>1, <1>2 DEF Frame
<1>5. stack' = [stack EXCEPT ![t] = [s EXCEPT ![1] = f]]
  BY <1>3
<1> HIDE DEF f
<1>6. /\ [s EXCEPT ![1] = f] \in Seq(Frame)
      /\ Nested(op[t], l, [s EXCEPT ![1] = f], visited[t] \cup {f.logger})
  BY <1>1, <1>2, <1>4, WalkKeeps
<1>7. visited[t] \cup {f.logger} = visited[t]
  BY <1>2, <1>4
<1>8. Types'
  <2>1. target' \in [Threads -> Loggers \cup {NULL}]
    BY <1>3, <1>4 DEF IInv, Types
  <2>2. stack' \in [Threads -> Seq(Frame)]
    BY <1>5, <1>6 DEF IInv, Types
  <2> QED BY <1>1, <2>1, <2>2 DEF IInv, Types, history
<1>9. Nested(op'[t], target'[t], stack'[t], visited'[t])
  BY <1>1, <1>3, <1>5, <1>6, <1>7 DEF IInv, Types
<1>10. \A u \in Threads : u # t => UNCHANGED <<op[u], target[u], stack[u], visited[u]>>
  BY <1>1, <1>3
<1> QED BY <1>8, <1>9, <1>10, OneThread

\* An activation ends and unmarks its logger.
LEMMA ReturnStep ==
  ASSUME IInv, NEW t \in Threads, Return(t)
  PROVE  IInv'
<1> DEFINE s == stack[t]
<1>1. /\ target[t] = NULL /\ s # <<>> /\ s[1].at = "forward" /\ Top(t) = s[1]
      /\ UNCHANGED <<ties, op, target, chains, configs, history>>
      /\ visited' = [visited EXCEPT ![t] = visited[t] \ {s[1].logger}]
      /\ stack' = [stack EXCEPT ![t] = Tail(s)]
  BY OfThread DEF Return, Unmark
<1>2. /\ op[t] \in {"emit", "flush"} /\ s \in Seq(Frame)
      /\ visited[t] \in SUBSET Loggers /\ Nested(op[t], NULL, s, visited[t])
  BY <1>1, OfThread
<1>3. Tail(s) \in Seq(Frame) /\ Nested(op[t], NULL, Tail(s), visited[t] \ {s[1].logger})
  BY <1>1, <1>2, PopKeeps
<1>4. Types'
  BY <1>1 DEF IInv, Types, history
<1>5. Nested(op'[t], target'[t], stack'[t], visited'[t])
  BY <1>1, <1>3 DEF IInv, Types
<1>6. \A u \in Threads : u # t => UNCHANGED <<op[u], target[u], stack[u], visited[u]>>
  BY <1>1
<1> QED BY <1>4, <1>5, <1>6, OneThread

\* tie() and untie() touch no recursion.
LEMMA ConfigureStep ==
  ASSUME IInv, NEW t \in Threads, NEW l \in Loggers, NEW m \in Loggers,
         Tie(t, l, m) \/ Untie(t, l, m)
  PROVE  IInv'
<1>1. UNCHANGED <<op, target, stack, visited, chains, root, copies>>
  BY DEF Tie, Untie, Configure
<1>2. ties' \in [Loggers -> SUBSET Loggers]
  <2>1. ties \in [Loggers -> SUBSET Loggers] /\ ties[l] \in SUBSET Loggers
    BY DEF IInv, Types
  <2>2. \/ ties' = [ties EXCEPT ![l] = ties[l] \cup {m}]
        \/ ties' = [ties EXCEPT ![l] = ties[l] \ {m}]
    BY DEF Tie, Untie
  <2> QED BY <2>1, <2>2
<1>3. configs' \in 0 .. MaxConfig
  BY ConstantsAssumption DEF Tie, Untie, Configure, IInv, Types
<1>4. stable' \in [Threads -> [edges : SUBSET (Loggers \X Loggers), clean : BOOLEAN]]
  <2>1. \A u \in Threads : stable[u] \in [edges : SUBSET (Loggers \X Loggers), clean : BOOLEAN]
    BY DEF IInv, Types
  <2>2. CASE Tie(t, l, m)
    BY <2>1, <2>2 DEF Tie
  <2>3. CASE Untie(t, l, m)
    BY <2>1, <2>3 DEF Untie
  <2> QED BY <2>2, <2>3
<1>5. Types'
  BY <1>1, <1>2, <1>3, <1>4 DEF IInv, Types
<1> QED BY <1>1, <1>5 DEF IInv

-----------------------------------------------------------------------------

\* Every step keeps the invariant.
LEMMA Preservation == IInv /\ [Next]_vars => IInv'
<1> SUFFICES ASSUME IInv, [Next]_vars PROVE IInv' OBVIOUS
<1>1. CASE UNCHANGED vars
  BY <1>1 DEF vars, IInv, Types
<1>2. ASSUME NEW t \in Threads, Step(t) PROVE IInv'
  BY <1>2, NoGuardStep, PushStep, SnapshotStep, ForwardStep, ReturnStep DEF Step
<1>3. ASSUME NEW t \in Threads, Begin(t) PROVE IInv'
  BY <1>3, StartStep, ConfigureStep DEF Begin
<1> QED BY <1>1, <1>2, <1>3 DEF Next, Quiet

\* The invariant holds in every reachable state.
LEMMA Invariance == Spec => []IInv
<1> QED BY Initially, Preservation, PTL DEF Spec

\* For any loggers and ties, cyclic or changing under way: the recursion of emit()
\* and flush() is never deeper than there are loggers, plus the one flush() that
\* finds its logger already visited, so no cycle of ties recurses for ever.
THEOREM TypeCorrect == Spec => []TypeOK
<1>1. ASSUME IInv PROVE TypeOK
  <2>1. ASSUME NEW t \in Threads PROVE Len(stack[t]) <= Cardinality(Loggers) + 1
    <3>1. /\ Cardinality(visited[t]) <= Cardinality(Loggers)
          /\ Cardinality(visited[t]) \in Nat /\ Cardinality(Loggers) \in Nat
      BY <1>1, OfThread, FS_Subset, FS_CardinalityType, ConstantsAssumption
    <3>2. Cardinality(visited[t]) = Len(stack[t]) - Undecided(op[t], stack[t])
      BY <1>1, OfThread DEF Nested
    <3>3. Undecided(op[t], stack[t]) \in {0, 1} /\ Len(stack[t]) \in Nat
      BY DEF Undecided
    <3> QED BY <3>1, <3>2, <3>3
  <2> QED BY <1>1, <2>1 DEF IInv, Types, TypeOK
<1> QED BY <1>1, Invariance, PTL

\* Whatever other threads do to the ties, the visited set holds exactly the
\* loggers of the activations that took the guard, each of them activated once,
\* and nothing is left in it when the call is over.
THEOREM GuardsAgree == Spec => []GuardsMatchStack
<1>1. ASSUME IInv PROVE GuardsMatchStack
  <2>1. ASSUME NEW t \in Threads
        PROVE  /\ visited[t] = Guarded(t)
               /\ Cardinality(visited[t]) >= Len(stack[t]) - (IF op[t] = "emit" THEN 0 ELSE 1)
    <3>1. Nested(op[t], target[t], stack[t], visited[t])
      BY <1>1, OfThread
    <3>2. visited[t] = Guarded(t)
      BY <3>1 DEF Nested, Guards, Guarded
    <3>3. Undecided(op[t], stack[t]) \in 0 .. (IF op[t] = "emit" THEN 0 ELSE 1)
      BY DEF Undecided
    <3>4. Len(stack[t]) \in Nat
      BY <1>1
    <3>5. Cardinality(visited[t]) = Len(stack[t]) - Undecided(op[t], stack[t])
      BY <3>1 DEF Nested
    <3>6. Cardinality(visited[t]) >= Len(stack[t]) - (IF op[t] = "emit" THEN 0 ELSE 1)
      <4>1. CASE op[t] = "emit"
        BY <3>3, <3>5, <4>1
      <4>2. CASE op[t] # "emit"
        BY <3>3, <3>5, <4>2
      <4> QED BY <4>1, <4>2
    <3> QED BY <3>2, <3>6
  <2> QED BY <2>1 DEF GuardsMatchStack
<1> QED BY <1>1, Invariance, PTL

-----------------------------------------------------------------------------
(* Every logger that stays reachable is reached.                           *)

\* The loggers whose sinks t's chain has reached.
Reached(t) == {m \in Loggers : copies[t][m] > 0}

\* A chain from r that has reached R, is about to enter tg and has the activations
\* F misses none of the ties E that have been in place all along: what a reached
\* logger is tied to has been reached, is entered next, or is left to an activation
\* of that logger.
Covers(T, R, r, tg, F, E) ==
    /\ r \in R \/ r = tg \/ r = NULL
    /\ \A e \in E : e[2] \in T[e[1]]
    /\ \A f \in F : f.logger \in R
    /\ \A f \in F : f.at = "forward" =>
          \A e \in E : e[1] = f.logger => e[2] \in R \/ e[2] = tg \/ e[2] \in f.todo
    /\ \A e \in E : e[1] \in R =>
          e[2] \in R \/ e[2] = tg \/ \E f \in F : f.logger = e[1]

ReachInv ==
    \A t \in Threads :
        Covers(ties, Reached(t), root[t], target[t], ToSet(stack[t]), stable[t].edges)

\* The activations, as a set, when one begins, ends or moves on.
LEMMA ActivationSets ==
  ASSUME NEW s \in Seq(Frame), NEW f \in Frame
  PROVE  /\ ToSet(<<f>> \o s) = {f} \cup ToSet(s)
         /\ s # <<>> => /\ ToSet(s) = {s[1]} \cup ToSet(Tail(s))
                        /\ ToSet([s EXCEPT ![1] = f]) = {f} \cup ToSet(Tail(s))
<1> DEFINE c == <<f>> \o s
<1>1. /\ c \in Seq(Frame) /\ Len(c) = 1 + Len(s) /\ c[1] = f
      /\ \A i \in 1 .. Len(s) : c[i + 1] = s[i]
  BY ConsProperties
<1>2. Len(s) \in Nat /\ DOMAIN s = 1 .. Len(s) /\ DOMAIN c = 1 .. 1 + Len(s)
  BY <1>1, LenProperties
<1> HIDE DEF c
<1>3. ToSet(c) = {f} \cup ToSet(s)
  <2>1. ASSUME NEW i \in DOMAIN c PROVE c[i] \in {f} \cup ToSet(s)
    <3>1. CASE i = 1
      BY <1>1, <3>1
    <3>2. CASE i # 1
      <4>1. i - 1 \in 1 .. Len(s) /\ (i - 1) + 1 = i
        BY <1>2, <3>2
      <4>2. c[i] = s[i - 1]
        BY <1>1, <4>1
      <4> QED BY <1>2, <4>1, <4>2 DEF ToSet
    <3> QED BY <3>1, <3>2
  <2>2. ASSUME NEW i \in DOMAIN s PROVE s[i] \in ToSet(c)
    <3>1. i + 1 \in DOMAIN c /\ c[i + 1] = s[i]
      BY <1>1, <1>2
    <3> QED BY <3>1 DEF ToSet
  <2>3. f \in ToSet(c)
    BY <1>1, <1>2 DEF ToSet
  <2> QED BY <2>1, <2>2, <2>3 DEF ToSet
<1>4. ASSUME s # <<>>
      PROVE  /\ ToSet(s) = {s[1]} \cup ToSet(Tail(s))
             /\ ToSet([s EXCEPT ![1] = f]) = {f} \cup ToSet(Tail(s))
  <2> DEFINE u == Tail(s)
             w == [s EXCEPT ![1] = f]
  <2>1. /\ Len(s) \in Nat \ {0} /\ u \in Seq(Frame) /\ Len(u) = Len(s) - 1
        /\ \A i \in 1 .. Len(u) : u[i] = s[i + 1]
    BY <1>4, HeadTailProperties, EmptySeq
  <2>2. DOMAIN u = 1 .. Len(s) - 1
    BY <2>1, LenProperties
  <2>3. /\ DOMAIN w = 1 .. Len(s) /\ w[1] = f
        /\ \A i \in 1 .. Len(s) : i # 1 => w[i] = s[i]
    BY <1>2, <2>1
  <2> HIDE DEF u, w
  <2>4. ASSUME NEW i \in 1 .. Len(s), i # 1 PROVE i - 1 \in DOMAIN u /\ u[i - 1] = s[i]
    <3>1. i - 1 \in 1 .. Len(s) - 1 /\ (i - 1) + 1 = i
      BY <2>1, <2>4
    <3> QED BY <2>1, <2>2, <3>1
  <2>5. ASSUME NEW i \in DOMAIN u PROVE i + 1 \in 1 .. Len(s) /\ i + 1 # 1 /\ u[i] = s[i + 1]
    BY <2>1, <2>2
  <2>6. 1 \in 1 .. Len(s)
    BY <2>1
  <2>7. ToSet(s) = {s[1]} \cup ToSet(u)
    BY <1>2, <2>4, <2>5, <2>6 DEF ToSet
  <2>8. ToSet(w) = {f} \cup ToSet(u)
    BY <2>3, <2>4, <2>5, <2>6 DEF ToSet
  <2> QED BY <2>7, <2>8 DEF u, w
<1> QED BY <1>3, <1>4 DEF c

\* A call of emit() or flush() on l: it ends at once because l has no ties or is
\* being visited, or it starts an activation.
LEMMA CallCovers ==
  ASSUME NEW T, NEW R, NEW r, NEW l \in Loggers, NEW F,
         NEW E \in SUBSET (Loggers \X Loggers), Covers(T, R, r, l, F, E)
  PROVE  /\ T[l] = {} => Covers(T, R \cup {l}, r, NULL, F, E)
         /\ l \in R => Covers(T, R, r, NULL, F, E)
         /\ \A f \in Frame : f.logger = l /\ f.at = "snap"
               => Covers(T, R \cup {l}, r, NULL, {f} \cup F, E)
<1>1. T[l] = {} => \A e \in E : e[1] # l
  BY DEF Covers
<1>2. T[l] = {} => Covers(T, R \cup {l}, r, NULL, F, E)
  BY <1>1 DEF Covers
<1>3. l \in R => Covers(T, R, r, NULL, F, E)
  BY DEF Covers
<1>4. ASSUME NEW f \in Frame, f.logger = l, f.at = "snap"
      PROVE  Covers(T, R \cup {l}, r, NULL, {f} \cup F, E)
  BY <1>4 DEF Covers
<1> QED BY <1>2, <1>3, <1>4

\* An activation g takes its copy of the ties, hands one of them on, or ends.
LEMMA WalkCovers ==
  ASSUME NEW T, NEW R, NEW r, NEW g, NEW F,
         NEW E \in SUBSET (Loggers \X Loggers), Covers(T, R, r, NULL, {g} \cup F, E)
  PROVE  /\ \A f \in Frame : f.logger = g.logger /\ f.todo = T[g.logger]
               => Covers(T, R, r, NULL, {f} \cup F, E)
         /\ \A f \in Frame, l \in Loggers :
               f.logger = g.logger /\ f.todo = g.todo \ {l} /\ g.at = "forward"
               => Covers(T, R, r, l, {f} \cup F, E)
         /\ g.at = "forward" /\ g.todo = {} => Covers(T, R, r, NULL, F, E)
         /\ (\E f \in F : f.logger = g.logger) => Covers(T, R, r, NULL, F, E)
<1>1. \A e \in E : e[1] \in Loggers /\ e[2] \in Loggers /\ e[2] # NULL
  BY ConstantsAssumption
<1>2. ASSUME NEW f \in Frame, f.logger = g.logger, f.todo = T[g.logger]
      PROVE  Covers(T, R, r, NULL, {f} \cup F, E)
  BY <1>1, <1>2 DEF Covers
<1>3. ASSUME NEW f \in Frame, NEW l \in Loggers,
             f.logger = g.logger, f.todo = g.todo \ {l}, g.at = "forward"
      PROVE  Covers(T, R, r, l, {f} \cup F, E)
  BY <1>1, <1>3 DEF Covers
<1>4. g.at = "forward" /\ g.todo = {} => Covers(T, R, r, NULL, F, E)
  BY <1>1 DEF Covers
<1>5. (\E f \in F : f.logger = g.logger) => Covers(T, R, r, NULL, F, E)
  BY <1>1 DEF Covers
<1> QED BY <1>2, <1>3, <1>4, <1>5

\* A step of t that touches no ties and no other thread's chain need only be looked
\* at for t.
LEMMA OneThreadCovers ==
  ASSUME IInv, ReachInv, NEW t \in Threads, UNCHANGED <<ties, stable, root>>,
         \A u \in Threads : u # t => UNCHANGED <<target[u], stack[u], copies[u]>>,
         Covers(ties, Reached(t)', root[t], target'[t], ToSet(stack'[t]), stable[t].edges)
  PROVE  ReachInv'
<1>1. ASSUME NEW u \in Threads, u # t
      PROVE  Covers(ties, Reached(u), root[u], target[u], ToSet(stack[u]), stable[u].edges)'
  <2>1. Reached(u)' = Reached(u) /\ target'[u] = target[u] /\ stack'[u] = stack[u]
    BY <1>1 DEF Reached
  <2> QED BY <2>1 DEF ReachInv
<1>2. Covers(ties, Reached(t), root[t], target[t], ToSet(stack[t]), stable[t].edges)'
  OBVIOUS
<1> QED BY <1>1, <1>2 DEF ReachInv

\* Reaching the sinks of a logger adds it to the loggers reached.
LEMMA ReachSinksEffect ==
  ASSUME Types, NEW t \in Threads, NEW l \in Loggers, ReachSinks(t, l)
  PROVE  /\ Reached(t)' = Reached(t) \cup {l}
         /\ \A u \in Threads : u # t => UNCHANGED copies[u]
<1>1. /\ copies[t] \in [Loggers -> Nat]
      /\ copies' = [copies EXCEPT ![t] = [copies[t] EXCEPT ![l] = copies[t][l] + 1]]
  BY DEF Types, ReachSinks
<1>2. copies'[t] = [copies[t] EXCEPT ![l] = copies[t][l] + 1]
      /\ \A u \in Threads : u # t => copies'[u] = copies[u]
  BY <1>1 DEF Types
<1>3. \A m \in Loggers : copies'[t][m] > 0 <=> copies[t][m] > 0 \/ m = l
  BY <1>1, <1>2
<1> QED BY <1>2, <1>3 DEF Reached

\* The calls: emit() without ties or within a cycle, emit() and flush() with an
\* activation of their own.
LEMMA CallReaches ==
  ASSUME IInv, ReachInv, NEW t \in Threads,
         EmitFast(t) \/ EmitTied(t) \/ EmitVisited(t) \/ FlushEnter(t)
  PROVE  ReachInv'
<1> DEFINE l == target[t]
           f == [logger |-> l, at |-> "snap", todo |-> {}]
           E == stable[t].edges
<1>1. /\ l \in Loggers /\ target' = [target EXCEPT ![t] = NULL] /\ target'[t] = NULL
      /\ UNCHANGED <<ties, stable, root>> /\ Types
  BY OfThread DEF EmitFast, EmitTied, EmitVisited, FlushEnter, Enter, IInv, Types
<1>2. /\ stack[t] \in Seq(Frame) /\ f \in Frame /\ E \in SUBSET (Loggers \X Loggers)
      /\ Covers(ties, Reached(t), root[t], l, ToSet(stack[t]), E)
  BY <1>1, OfThread DEF Types, ReachInv, Frame
<1>3. \A u \in Threads : u # t => UNCHANGED <<target[u], stack[u]>>
  BY <1>1 DEF EmitFast, EmitTied, EmitVisited, FlushEnter, Push, Types
<1>4. CASE EmitFast(t)
  <2>1. ties[l] = {} /\ stack' = stack /\ ReachSinks(t, l)
    BY <1>4 DEF EmitFast, Untied
  <2>2. Reached(t)' = Reached(t) \cup {l} /\ \A u \in Threads : u # t => UNCHANGED copies[u]
    BY <1>1, <2>1, ReachSinksEffect
  <2>3. Covers(ties, Reached(t) \cup {l}, root[t], NULL, ToSet(stack[t]), E)
    BY <1>1, <1>2, <2>1, CallCovers
  <2> QED BY <1>1, <1>3, <2>1, <2>2, <2>3, OneThreadCovers
<1>5. CASE EmitVisited(t)
  <2>1. l \in visited[t] /\ stack' = stack /\ copies' = copies
    BY <1>5 DEF EmitVisited, Unvisited
  <2>2. l \in Reached(t)
    <3>1. PICK i \in DOMAIN stack[t] : stack[t][i].logger = l
      BY <2>1, OfThread DEF Nested, Guards
    <3>2. stack[t][i] \in ToSet(stack[t])
      BY <3>1 DEF ToSet
    <3> QED BY <1>2, <3>1, <3>2 DEF Covers
  <2>3. Covers(ties, Reached(t), root[t], NULL, ToSet(stack[t]), E)
    BY <1>1, <1>2, <2>2, CallCovers
  <2>4. Reached(t)' = Reached(t) /\ \A u \in Threads : u # t => UNCHANGED copies[u]
    BY <2>1 DEF Reached
  <2> QED BY <1>1, <1>3, <2>1, <2>3, <2>4, OneThreadCovers
<1>6. CASE EmitTied(t) \/ FlushEnter(t)
  <2>1. stack'[t] = <<f>> \o stack[t] /\ ReachSinks(t, l)
    BY <1>1, <1>6 DEF EmitTied, FlushEnter, Push, Types
  <2>2. Reached(t)' = Reached(t) \cup {l} /\ \A u \in Threads : u # t => UNCHANGED copies[u]
    BY <1>1, <2>1, ReachSinksEffect
  <2>3. f.logger = l /\ f.at = "snap"
    OBVIOUS
  <2> HIDE DEF f
  <2>4. Covers(ties, Reached(t) \cup {l}, root[t], NULL, {f} \cup ToSet(stack[t]), E)
    BY <1>1, <1>2, <2>3, CallCovers
  <2>5. ToSet(stack'[t]) = {f} \cup ToSet(stack[t])
    BY <1>2, <2>1, ActivationSets
  <2> QED BY <1>1, <1>3, <2>2, <2>4, <2>5, OneThreadCovers
<1> QED BY <1>4, <1>5, <1>6

\* The newest activation takes its copy of the ties, hands one on, or ends.
LEMMA WalkReaches ==
  ASSUME IInv, ReachInv, NEW t \in Threads, Snapshot(t) \/ Forward(t) \/ Return(t)
  PROVE  ReachInv'
<1> DEFINE s == stack[t]
           g == s[1]
           F == ToSet(Tail(s))
           E == stable[t].edges
<1>1. /\ target[t] = NULL /\ s # <<>> /\ Top(t) = g /\ Types
      /\ UNCHANGED <<ties, stable, root, copies>>
  BY OfThread DEF Snapshot, CopyTies, Forward, Return, history, IInv
<1>2. /\ s \in Seq(Frame) /\ g \in Frame /\ g.logger \in Loggers
      /\ E \in SUBSET (Loggers \X Loggers) /\ Reached(t)' = Reached(t)
  BY <1>1, OfThread DEF Types, Frame, Reached
<1>3. ToSet(s) = {g} \cup F
  BY <1>1, <1>2, ActivationSets
<1>4. Covers(ties, Reached(t), root[t], NULL, {g} \cup F, E)
  BY <1>1, <1>3 DEF ReachInv
<1>5. \A u \in Threads : u # t => UNCHANGED <<target[u], stack[u], copies[u]>>
  BY <1>1 DEF Snapshot, CopyTies, Forward, Return, Types
<1>6. ASSUME NEW f \in Frame, NEW l \in Loggers \cup {NULL},
             stack'[t] = [s EXCEPT ![1] = f], target'[t] = l,
             Covers(ties, Reached(t), root[t], l, {f} \cup F, E)
      PROVE  ReachInv'
  <2>1. ToSet(stack'[t]) = {f} \cup F
    BY <1>1, <1>2, <1>6, ActivationSets
  <2> QED BY <1>1, <1>2, <1>5, <1>6, <2>1, OneThreadCovers
<1>7. ASSUME stack'[t] = Tail(s), target'[t] = NULL,
             Covers(ties, Reached(t), root[t], NULL, F, E)
      PROVE  ReachInv'
  BY <1>1, <1>2, <1>5, <1>7, OneThreadCovers
<1>8. CASE Snapshot(t) /\ op[t] = "flush" /\ g.logger \in visited[t]
  <2>1. stack'[t] = Tail(s) /\ target'[t] = NULL /\ g.at = "snap"
    BY <1>1, <1>8 DEF Snapshot, CopyTies, Types
  <2>2. \E f \in F : f.logger = g.logger
    <3>1. PICK i \in Guards("flush", s) : s[i].logger = g.logger
      BY <1>8, OfThread DEF Nested
    <3>2. s[i] \in ToSet(s) /\ s[i] # g
      BY <2>1, <3>1 DEF Guards, ToSet
    <3> QED BY <1>3, <3>1, <3>2
  <2>3. Covers(ties, Reached(t), root[t], NULL, F, E)
    BY <1>2, <1>4, <2>2, WalkCovers
  <2> QED BY <1>7, <2>1, <2>3
<1>9. CASE Snapshot(t) /\ ~(op[t] = "flush" /\ g.logger \in visited[t])
  <2> DEFINE f == [[g EXCEPT !.at = "forward"] EXCEPT !.todo = ties[g.logger]]
  <2>0. stack' = [stack EXCEPT ![t] = [s EXCEPT ![1] = f]] /\ target' = target
    BY <1>1, <1>9 DEF Snapshot, CopyTies
  <2>1. stack'[t] = [s EXCEPT ![1] = f] /\ target'[t] = NULL
    BY <1>1, <2>0 DEF Types
  <2>2. f \in Frame /\ f.logger = g.logger /\ f.todo = ties[g.logger]
    BY <1>1, <1>2 DEF Frame, Types
  <2> HIDE DEF f
  <2>3. Covers(ties, Reached(t), root[t], NULL, {f} \cup F, E)
    BY <1>2, <1>4, <2>2, WalkCovers
  <2> QED BY <1>6, <2>1, <2>2, <2>3
<1>10. CASE Forward(t)
  <2>1. PICK l \in g.todo : /\ target' = [target EXCEPT ![t] = l]
                            /\ stack' = [stack EXCEPT ![t][1].todo = @ \ {l}]
    BY <1>1, <1>10 DEF Forward
  <2> DEFINE f == [g EXCEPT !.todo = g.todo \ {l}]
  <2>2. stack'[t] = [s EXCEPT ![1] = f] /\ target'[t] = l
    BY <1>1, <2>1 DEF Types
  <2>3. l \in Loggers /\ f \in Frame /\ f.logger = g.logger /\ f.todo = g.todo \ {l}
    BY <1>2, <2>1 DEF Frame
  <2>4. g.at = "forward"
    BY <1>1, <1>10 DEF Forward
  <2> HIDE DEF f
  <2>5. Covers(ties, Reached(t), root[t], l, {f} \cup F, E)
    BY <1>2, <1>4, <2>3, <2>4, WalkCovers
  <2> QED BY <1>6, <2>2, <2>3, <2>5
<1>11. CASE Return(t)
  <2>1. stack'[t] = Tail(s) /\ target'[t] = NULL /\ g.at = "forward" /\ g.todo = {}
    BY <1>1, <1>11 DEF Return, Types
  <2>2. Covers(ties, Reached(t), root[t], NULL, F, E)
    BY <1>2, <1>4, <2>1, WalkCovers
  <2> QED BY <1>7, <2>1, <2>2
<1> QED BY <1>8, <1>9, <1>10, <1>11

\* A chain begins with all ties in place and nothing reached; tie() adds no tie to
\* those that have been in place all along, untie() removes one from them.
LEMMA BeginReaches ==
  ASSUME IInv, ReachInv, NEW t \in Threads, Begin(t)
  PROVE  ReachInv'
<1>1. Types /\ ToSet(<<>>) = {}
  BY DEF IInv, ToSet
<1>2. ASSUME NEW o \in {"emit", "flush"}, NEW l \in Loggers, Start(t, o, l)
      PROVE  ReachInv'
  <2>1. /\ stack[t] = <<>> /\ stack' = stack /\ ties' = ties /\ target'[t] = l
        /\ root'[t] = l /\ copies'[t] = [m \in Loggers |-> 0] /\ stable'[t].edges = Edges
    BY <1>1, <1>2 DEF Start, Busy, Types
  <2>2. Reached(t)' = {}
    BY <2>1 DEF Reached
  <2>3. Covers(ties, {}, l, l, {}, Edges)
    BY DEF Covers, Edges
  <2>4. Covers(ties, Reached(t), root[t], target[t], ToSet(stack[t]), stable[t].edges)'
    BY <1>1, <2>1, <2>2, <2>3
  <2>5. ASSUME NEW u \in Threads, u # t
        PROVE  Covers(ties, Reached(u), root[u], target[u], ToSet(stack[u]), stable[u].edges)'
    <3>1. /\ root'[u] = root[u] /\ target'[u] = target[u] /\ copies'[u] = copies[u]
          /\ stable'[u] = stable[u]
      BY <1>1, <1>2, <2>5 DEF Start, Types
    <3>2. Reached(u)' = Reached(u)
      BY <3>1 DEF Reached
    <3> QED BY <2>1, <3>1, <3>2 DEF ReachInv
  <2> QED BY <2>4, <2>5 DEF ReachInv
<1>3. ASSUME NEW l \in Loggers, NEW m \in Loggers, Tie(t, l, m) \/ Untie(t, l, m)
      PROVE  ReachInv'
  <2>1. UNCHANGED <<target, stack, root, copies>>
    BY <1>3 DEF Tie, Untie, Configure
  <2>2. ASSUME NEW u \in Threads
        PROVE  /\ stable'[u].edges \subseteq stable[u].edges
               /\ \A e \in stable'[u].edges : e[2] \in ties[e[1]] => e[2] \in ties'[e[1]]
    <3>1. ties[l] \in SUBSET Loggers /\ stable[u].edges \in SUBSET (Loggers \X Loggers)
      BY <1>1 DEF Types
    <3>2. CASE Tie(t, l, m)
      <4>1. stable'[u].edges = stable[u].edges /\ \A k \in Loggers : ties[k] \subseteq ties'[k]
        BY <1>1, <3>1, <3>2 DEF Tie, Types
      <4> QED BY <3>1, <4>1
    <3>3. CASE Untie(t, l, m)
      <4>1. /\ stable'[u].edges = stable[u].edges \ {<<l, m>>}
            /\ ties'[l] = ties[l] \ {m} /\ \A k \in Loggers : k # l => ties'[k] = ties[k]
        BY <1>1, <3>3 DEF Untie, Types
      <4>2. ASSUME NEW e \in stable'[u].edges, e[2] \in ties[e[1]] PROVE e[2] \in ties'[e[1]]
        <5>1. e = <<e[1], e[2]>> /\ e[1] \in Loggers /\ e # <<l, m>>
          BY <3>1, <4>1
        <5> QED BY <4>1, <4>2, <5>1
      <4> QED BY <4>1, <4>2
    <3> QED BY <1>3, <3>2, <3>3
  <2>3. ASSUME NEW u \in Threads
        PROVE  Covers(ties, Reached(u), root[u], target[u], ToSet(stack[u]), stable[u].edges)'
    <3>1. Reached(u)' = Reached(u)
      BY <2>1 DEF Reached
    <3>2. Covers(ties, Reached(u), root[u], target[u], ToSet(stack[u]), stable[u].edges)
      BY DEF ReachInv
    <3>3. Covers(ties', Reached(u), root[u], target[u], ToSet(stack[u]), stable'[u].edges)
      BY <2>2, <3>2 DEF Covers
    <3> QED BY <2>1, <3>1, <3>3
  <2> QED BY <2>3 DEF ReachInv
<1> QED BY <1>2, <1>3 DEF Begin

\* The invariant of the chains holds in every reachable state.
LEMMA ReachInvariance == Spec => []ReachInv
<1>1. Init => ReachInv
  <2> SUFFICES ASSUME Init, NEW t \in Threads
               PROVE  Covers(ties, Reached(t), root[t], target[t], ToSet(stack[t]), stable[t].edges)
    BY DEF ReachInv
  <2>1. ToSet(stack[t]) = {} /\ stable[t].edges = {} /\ root[t] = NULL
    BY DEF Init, ToSet
  <2> QED BY <2>1 DEF Covers
<1>2. IInv /\ ReachInv /\ [Next]_vars => ReachInv'
  <2> SUFFICES ASSUME IInv, ReachInv, [Next]_vars PROVE ReachInv' OBVIOUS
  <2>1. CASE UNCHANGED vars
    BY <2>1 DEF vars, ReachInv, Reached
  <2>2. ASSUME NEW t \in Threads, Step(t) PROVE ReachInv'
    BY <2>2, CallReaches, WalkReaches DEF Step
  <2>3. ASSUME NEW t \in Threads, Begin(t) PROVE ReachInv'
    BY <2>3, BeginReaches
  <2> QED BY <2>1, <2>2, <2>3 DEF Next, Quiet
<1> QED BY <1>1, <1>2, Invariance, PTL DEF Spec

\* A set that a path starts in and no step of the path leaves holds its end.
LEMMA PathStays ==
  ASSUME NEW S, NEW n \in Nat \ {0}, NEW p \in [1 .. n -> S], NEW R, p[1] \in R,
         \A i \in 1 .. n - 1 : p[i] \in R => p[i + 1] \in R
  PROVE  p[n] \in R
<1> DEFINE G == {i \in 1 .. n : \A j \in 1 .. i : p[j] \in R}
<1>1. G \in SUBSET Nat /\ IsFiniteSet(G)
  <2>1. IsFiniteSet(1 .. n)
    BY FS_Interval
  <2>2. G \subseteq 1 .. n
    OBVIOUS
  <2> QED BY <2>1, <2>2, FS_Subset
<1>2. 1 \in G
  <2>1. \A j \in 1 .. 1 : j = 1
    OBVIOUS
  <2> QED BY <2>1
<1>3. PICK k \in G : \A i \in G : k >= i
  <2> HIDE DEF G
  <2> QED BY <1>1, <1>2, GreatestOfFinite
<1>4. k \in 1 .. n /\ \A j \in 1 .. k : p[j] \in R
  OBVIOUS
<1>5. CASE k = n
  BY <1>4, <1>5
<1>6. CASE k # n
  <2>1. k \in 1 .. n - 1 /\ k + 1 \in 1 .. n /\ p[k] \in R
    BY <1>4, <1>6
  <2>2. \A j \in 1 .. k + 1 : j \in 1 .. k \/ j = k + 1
    BY <2>1
  <2>3. k + 1 \in G
    BY <1>4, <2>1, <2>2
  <2>4. ~(k >= k + 1)
    BY <2>1
  <2> QED BY <1>3, <2>3, <2>4
<1> QED BY <1>5, <1>6

\* Other threads' tie() and untie() cost no delivery elsewhere: when emit() or
\* flush() returns, every logger that stayed reachable throughout was reached.
THEOREM ReachableIsReached == Spec => StableReach
<1>1. ASSUME IInv, ReachInv', [Next]_vars, NEW t \in Threads, Busy(t), ~Busy(t)', NEW m \in Loggers,
             SimplePaths(root[t], m, stable[t].edges) # {}
      PROVE  copies'[t][m] > 0
  <2>1. root'[t] = root[t] /\ stable'[t] = stable[t]
    <3>1. \/ \E u \in Threads : Step(u) /\ UNCHANGED <<root, stable>>
          \/ \E u \in Threads : Begin(u)
          \/ UNCHANGED vars
      BY <1>1 DEF Next, Quiet, Step, EmitFast, EmitTied, EmitVisited, FlushEnter, Enter,
                  Snapshot, CopyTies, Forward, Return, history
    <3>2. \A u \in Threads : ~Begin(u)
      BY <1>1 DEF Begin, Start, Tie, Untie, Configure, Busy, IInv, Types
    <3>3. ~UNCHANGED vars
      BY <1>1 DEF vars, Busy
    <3> QED BY <3>1, <3>2, <3>3
  <2>2. target'[t] = NULL /\ stack'[t] = <<>>
    BY <1>1 DEF Busy
  <2> DEFINE E == stable[t].edges
             R == Reached(t)'
  <2>3. /\ root[t] \in R \/ root[t] = NULL
        /\ \A e \in E : e[1] \in R => e[2] \in R \/ e[2] = NULL
    <3>1. Covers(ties', R, root'[t], target'[t], ToSet(stack'[t]), stable'[t].edges)
      BY <1>1 DEF ReachInv
    <3>2. ToSet(stack'[t]) = {}
      BY <2>2 DEF ToSet
    <3>3. Covers(ties', R, root[t], NULL, {}, E)
      BY <2>1, <2>2, <3>1, <3>2
    <3> QED BY <3>3 DEF Covers
  <2> DEFINE Path(n, p) ==
               p[1] = root[t] /\ p[n] = m /\ \A i \in 1 .. n - 1 : <<p[i], p[i + 1]>> \in E
  <2>4. \E n \in Nat \ {0} : \E p \in [1 .. n -> Loggers] : Path(n, p)
    <3>1. PICK p \in SimplePaths(root[t], m, E) : TRUE
      BY <1>1
    <3>2. PICK n \in 0 .. Cardinality(Loggers) : p \in [1 .. n -> Loggers]
      BY <3>1 DEF SimplePaths, SeqOf
    <3>3. n \in Nat /\ Len(p) = n /\ p # <<>>
      BY <3>1, <3>2, FS_CardinalityType, ConstantsAssumption DEF SimplePaths
    <3>4. n # 0
      BY <3>2, <3>3
    <3> QED BY <3>1, <3>2, <3>3, <3>4 DEF SimplePaths
  <2>5. PICK n \in Nat \ {0} : \E p \in [1 .. n -> Loggers] : Path(n, p)
    BY <2>4
  <2>6. PICK p \in [1 .. n -> Loggers] : Path(n, p)
    BY <2>5
  <2>7. m \in R
    <3>1. p[1] \in Loggers /\ \A i \in 1 .. n - 1 : p[i + 1] \in Loggers
      OBVIOUS
    <3>2. p[1] \in R
      BY <2>3, <2>6, <3>1, ConstantsAssumption
    <3>3. \A i \in 1 .. n - 1 : p[i] \in R => p[i + 1] \in R
      BY <2>3, <2>6, <3>1, ConstantsAssumption
    <3> HIDE DEF R
    <3>4. p[n] \in R
      BY <3>2, <3>3, PathStays
    <3> QED BY <2>6, <3>4
  <2> QED BY <2>7 DEF Reached
<1>2. IInv /\ ReachInv' /\ [Next]_vars =>
        [\A t \in Threads : Busy(t) /\ ~Busy(t)' =>
            \A m \in Loggers :
               SimplePaths(root[t], m, stable[t].edges) # {} => copies'[t][m] > 0]_vars
  BY <1>1
<1> QED BY <1>2, Invariance, ReachInvariance, PTL DEF Spec, StableReach

-----------------------------------------------------------------------------
(* While nobody reconfigures, every way to a logger is taken once.         *)

\* The activation of depth d, the outermost being the first, and the logger of
\* depth k, the next after the activations being the one about to be entered.
Outer(s, d) == s[Len(s) - d + 1]
Entered(tg, s, k) == IF k = Len(s) + 1 THEN tg ELSE Outer(s, k).logger

\* flush() gets as far as the sinks of a logger it is already inside.
Slack(o) == IF o = "emit" THEN 0 ELSE 1

\* A way from r to m along E meets no logger twice, the last one of flush() apart.
IsWay(o, r, m, E, q) ==
    /\ q # <<>> /\ q[1] = r /\ q[Len(q)] = m
    /\ \A i, j \in 1 .. Len(q) - Slack(o) : q[i] = q[j] => i = j
    /\ \A i \in 1 .. Len(q) - 1 : <<q[i], q[i + 1]>> \in E

Ways(o, r, m, E) ==
    {q \in SeqOf(Loggers, Cardinality(Loggers) + Slack(o)) : IsWay(o, r, m, E, q)}

\* The way q is about to be taken: it follows the recursion into the logger it
\* enters next, or into a call left to the activation of depth d, any call as long
\* as the snapshot is to be taken.
Follows(tg, s, q) ==
    /\ tg # NULL /\ Len(s) < Len(q)
    /\ \A k \in 1 .. Len(s) + 1 : q[k] = Entered(tg, s, k)

LeftAt(s, q, d) ==
    /\ d < Len(q) /\ (Outer(s, d).at = "snap" \/ q[d + 1] \in Outer(s, d).todo)
    /\ \A k \in 1 .. d : q[k] = Outer(s, k).logger

Left(s, q) == \E d \in 1 .. Len(s) : LeftAt(s, q, d)

\* The ways to m that a chain has taken so far.
Taken(o, r, m, E, tg, s) ==
    {q \in Ways(o, r, m, E) : ~Follows(tg, s, q) /\ ~Left(s, q)}

\* The activations follow ties, each into a logger that the one before will not
\* call again.
Walks(T, r, tg, s) ==
    /\ Entered(tg, s, 1) \in {r, NULL}
    /\ \A d \in 1 .. Len(s) :
         /\ Outer(s, d).todo \subseteq T[Outer(s, d).logger]
         /\ Entered(tg, s, d + 1) # NULL =>
              Entered(tg, s, d + 1) \in T[Outer(s, d).logger] \ Outer(s, d).todo

TiesOf(T) == {e \in Loggers \X Loggers : e[2] \in T[e[1]]}

\* As long as nothing is reconfigured, the copies c of a chain are its ways so far.
Counted(T, o, r, tg, s, c, st) ==
    st.clean =>
        /\ st.edges = TiesOf(T)
        /\ Walks(T, r, tg, s)
        /\ \A m \in Loggers : c[m] = Cardinality(Taken(o, r, m, TiesOf(T), tg, s))

CopiesInv ==
    \A t \in Threads :
        Counted(ties, op[t], root[t], target[t], stack[t], copies[t], stable[t])

\* The depths of an activation begun, moved on or ended: those below keep theirs.
LEMMA OuterPush ==
  ASSUME NEW s \in Seq(Frame), NEW f \in Frame
  PROVE  /\ Len(<<f>> \o s) = Len(s) + 1 /\ Outer(<<f>> \o s, Len(s) + 1) = f
         /\ \A k \in 1 .. Len(s) : Outer(<<f>> \o s, k) = Outer(s, k)
<1> DEFINE c == <<f>> \o s
<1>1. /\ Len(c) = 1 + Len(s) /\ c[1] = f /\ Len(s) \in Nat
      /\ \A i \in 1 .. Len(s) : c[i + 1] = s[i]
  BY ConsProperties, LenProperties
<1> HIDE DEF c
<1>2. Len(c) - (Len(s) + 1) + 1 = 1
  BY <1>1
<1>3. ASSUME NEW k \in 1 .. Len(s) PROVE Outer(c, k) = Outer(s, k)
  <2>1. Len(s) - k + 1 \in 1 .. Len(s) /\ Len(c) - k + 1 = (Len(s) - k + 1) + 1
    BY <1>1
  <2> QED BY <1>1, <2>1 DEF Outer
<1>4. Outer(c, Len(s) + 1) = f /\ Len(c) = Len(s) + 1
  BY <1>1, <1>2 DEF Outer
<1> QED BY <1>3, <1>4 DEF c

LEMMA OuterTop ==
  ASSUME NEW s \in Seq(Frame), s # <<>>, NEW f \in Frame
  PROVE  /\ Len(s) \in Nat \ {0} /\ Outer(s, Len(s)) = s[1]
         /\ Len([s EXCEPT ![1] = f]) = Len(s)
         /\ Outer([s EXCEPT ![1] = f], Len(s)) = f
         /\ \A k \in 1 .. Len(s) - 1 : Outer([s EXCEPT ![1] = f], k) = Outer(s, k)
         /\ Len(Tail(s)) = Len(s) - 1
         /\ \A k \in 1 .. Len(s) - 1 : Outer(Tail(s), k) = Outer(s, k)
<1> DEFINE c == [s EXCEPT ![1] = f]
           u == Tail(s)
<1>1. Len(s) \in Nat \ {0} /\ 1 \in 1 .. Len(s)
  BY EmptySeq, LenProperties
<1>2. /\ Len(c) = Len(s) /\ c[1] = f
      /\ \A i \in 1 .. Len(s) : i # 1 => c[i] = s[i]
  BY <1>1, ExceptSeq
<1>3. Len(u) = Len(s) - 1 /\ \A i \in 1 .. Len(s) - 1 : u[i] = s[i + 1]
  BY HeadTailProperties
<1> HIDE DEF c, u
<1>4. Len(s) - Len(s) + 1 = 1
  BY <1>1
<1>5. Outer(s, Len(s)) = s[1] /\ Outer(c, Len(s)) = f
  BY <1>2, <1>4 DEF Outer
<1>6. ASSUME NEW k \in 1 .. Len(s) - 1
      PROVE  Outer(c, k) = Outer(s, k) /\ Outer(u, k) = Outer(s, k)
  <2>1. /\ Len(s) - k + 1 \in 1 .. Len(s) /\ Len(s) - k + 1 # 1
        /\ Len(u) - k + 1 \in 1 .. Len(s) - 1
        /\ (Len(u) - k + 1) + 1 = Len(s) - k + 1
    BY <1>1, <1>3
  <2>2. Outer(c, k) = Outer(s, k)
    BY <1>2, <2>1 DEF Outer
  <2>3. Outer(u, k) = Outer(s, k)
    BY <1>3, <2>1 DEF Outer
  <2> QED BY <2>2, <2>3
<1> QED BY <1>1, <1>2, <1>3, <1>5, <1>6 DEF c, u

\* Nested, by depth.
ByDepth(o, tg, s, v) ==
    /\ Len(s) \in Nat
    /\ \A d \in 1 .. Len(s) :
         /\ Outer(s, d) \in Frame
         /\ d < Len(s) \/ tg # NULL => Outer(s, d).at = "forward"
         /\ o = "emit" \/ Outer(s, d).at = "forward" => Outer(s, d).logger \in v
    /\ \A d, e \in 1 .. Len(s) :
         (/\ o = "emit" \/ Outer(s, d).at = "forward"
          /\ o = "emit" \/ Outer(s, e).at = "forward"
          /\ Outer(s, d).logger = Outer(s, e).logger) => d = e
    /\ \A m \in v : \E d \in 1 .. Len(s) :
         Outer(s, d).logger = m /\ (o = "emit" \/ Outer(s, d).at = "forward")

\* The nesting of the activations, by depth.
LEMMA NestedByDepth ==
  ASSUME NEW o \in {"emit", "flush"}, NEW tg, NEW s \in Seq(Frame),
         NEW v \in SUBSET Loggers, Nested(o, tg, s, v)
  PROVE  ByDepth(o, tg, s, v)
<1>1. Len(s) \in Nat /\ DOMAIN s = 1 .. Len(s)
  BY LenProperties
<1>2. ASSUME NEW d \in 1 .. Len(s)
      PROVE  /\ Len(s) - d + 1 \in DOMAIN s /\ s[Len(s) - d + 1] \in Frame
             /\ d < Len(s) => Len(s) - d + 1 # 1
             /\ Len(s) - (Len(s) - d + 1) + 1 = d
  <2>1. Len(s) - d + 1 \in 1 .. Len(s)
    BY <1>1
  <2>2. s[Len(s) - d + 1] \in Frame
    BY <2>1, ElementOfSeq
  <2>3. (d < Len(s) => Len(s) - d + 1 # 1) /\ Len(s) - (Len(s) - d + 1) + 1 = d
    BY <1>1
  <2> QED BY <1>1, <2>1, <2>2, <2>3
<1>3. ASSUME NEW d \in 1 .. Len(s), d < Len(s) \/ tg # NULL PROVE Outer(s, d).at = "forward"
  <2>1. s # <<>>
    BY <1>1
  <2>2. CASE Len(s) - d + 1 # 1
    BY <1>2, <2>2 DEF Nested, Outer
  <2>3. CASE Len(s) - d + 1 = 1 /\ tg # NULL
    BY <2>1, <2>3 DEF Nested, Outer
  <2> QED BY <1>2, <1>3, <2>2, <2>3
<1>4. ASSUME NEW d \in 1 .. Len(s), o = "emit" \/ Outer(s, d).at = "forward"
      PROVE  Len(s) - d + 1 \in Guards(o, s) /\ Outer(s, d).logger \in v
  <2>1. Len(s) - d + 1 \in Guards(o, s)
    BY <1>2, <1>4 DEF Guards, Outer
  <2> QED BY <2>1 DEF Nested, Outer
<1>5. ASSUME NEW d \in 1 .. Len(s), NEW e \in 1 .. Len(s),
             o = "emit" \/ Outer(s, d).at = "forward",
             o = "emit" \/ Outer(s, e).at = "forward",
             Outer(s, d).logger = Outer(s, e).logger
      PROVE  d = e
  <2>1. Len(s) - d + 1 \in Guards(o, s) /\ Len(s) - e + 1 \in Guards(o, s)
    BY <1>4, <1>5
  <2>2. Len(s) - d + 1 = Len(s) - e + 1
    BY <1>5, <2>1 DEF Nested, Outer
  <2> QED BY <1>1, <2>2
<1>6. ASSUME NEW m \in v
      PROVE  \E d \in 1 .. Len(s) :
               Outer(s, d).logger = m /\ (o = "emit" \/ Outer(s, d).at = "forward")
  <2>1. PICK i \in Guards(o, s) : m = s[i].logger
    BY DEF Nested
  <2>2. i \in 1 .. Len(s) /\ (o = "emit" \/ s[i].at = "forward")
    BY <1>1 DEF Guards
  <2>3. Len(s) - i + 1 \in 1 .. Len(s) /\ Len(s) - (Len(s) - i + 1) + 1 = i
    BY <1>1, <2>2
  <2> QED BY <2>1, <2>2, <2>3 DEF Outer
<1>7. \A d \in 1 .. Len(s) : Outer(s, d) \in Frame
  BY <1>2 DEF Outer
<1> QED BY <1>1, <1>3, <1>4, <1>5, <1>6, <1>7 DEF ByDepth

\* The ways are finitely many sequences of loggers.
LEMMA WaysFinite ==
  ASSUME NEW o \in {"emit", "flush"}, NEW r, NEW m, NEW E
  PROVE  /\ IsFiniteSet(Ways(o, r, m, E))
         /\ \A q : q \in Ways(o, r, m, E) <=>
              /\ q \in Seq(Loggers) /\ Len(q) <= Cardinality(Loggers) + Slack(o)
              /\ IsWay(o, r, m, E, q)
<1> DEFINE k == Cardinality(Loggers) + Slack(o)
           W == Ways(o, r, m, E)
<1>1. k \in Nat
  BY FS_CardinalityType, ConstantsAssumption DEF Slack
<1>2. ASSUME NEW q PROVE q \in SeqOf(Loggers, k) <=> q \in Seq(Loggers) /\ Len(q) <= k
  <2>1. ASSUME q \in SeqOf(Loggers, k) PROVE q \in Seq(Loggers) /\ Len(q) <= k
    <3>1. PICK n \in 0 .. k : q \in [1 .. n -> Loggers]
      BY <2>1 DEF SeqOf
    <3>2. n \in Nat /\ n <= k
      BY <1>1
    <3> HIDE DEF k
    <3> QED BY <3>1, <3>2
  <2>2. ASSUME q \in Seq(Loggers), Len(q) <= k PROVE q \in SeqOf(Loggers, k)
    <3>1. Len(q) \in 0 .. k /\ q \in [1 .. Len(q) -> Loggers]
      BY <1>1, <2>2, LenProperties
    <3> QED BY <3>1 DEF SeqOf
  <2> QED BY <2>1, <2>2
<1>3. ASSUME NEW q
      PROVE q \in W <=> q \in Seq(Loggers) /\ Len(q) <= k /\ IsWay(o, r, m, E, q)
  BY <1>2 DEF Ways
<1>4. IsFiniteSet(W)
  <2> DEFINE P == SUBSET ((1 .. k) \X Loggers)
             g == [q \in W |-> {<<i, q[i]>> : i \in 1 .. Len(q)}]
  <2>1. IsFiniteSet(P)
    <3>1. IsFiniteSet(1 .. k)
      BY <1>1, FS_Interval
    <3>2. IsFiniteSet((1 .. k) \X Loggers)
      BY <3>1, FS_Product, ConstantsAssumption
    <3> QED BY <3>2, FS_SUBSET
  <2>2. g \in [W -> P]
    <3>1. ASSUME NEW q \in W, NEW i \in 1 .. Len(q) PROVE <<i, q[i]>> \in (1 .. k) \X Loggers
      <4>1. q \in Seq(Loggers) /\ Len(q) \in Nat /\ Len(q) <= k
        BY <1>3, LenProperties
      <4>2. i \in 1 .. k
        BY <1>1, <4>1
      <4> QED BY <4>1, <4>2, ElementOfSeq
    <3> QED BY <3>1
  <2>3. ASSUME NEW a \in W, NEW b \in W, g[a] = g[b] PROVE a = b
    <3>0. a \in Seq(Loggers) /\ b \in Seq(Loggers)
      BY <1>3
    <3>1. Len(a) \in Nat /\ Len(b) \in Nat
      BY <3>0, LenProperties
    <3>2. \A i \in 1 .. Len(a) : <<i, a[i]>> \in g[b]
      BY <2>3
    <3>3. \A i \in 1 .. Len(b) : <<i, b[i]>> \in g[a]
      BY <2>3
    <3>4. \A i \in 1 .. Len(a) : i \in 1 .. Len(b) /\ a[i] = b[i]
      BY <3>2
    <3>5. \A i \in 1 .. Len(b) : i \in 1 .. Len(a)
      BY <3>3
    <3>6. Len(a) = Len(b)
      <4>1. Len(a) <= Len(b)
        <5>1. CASE Len(a) = 0
          BY <3>1, <5>1
        <5>2. CASE Len(a) # 0
          <6>1. Len(a) \in 1 .. Len(a)
            BY <3>1, <5>2
          <6> QED BY <3>4, <6>1
        <5> QED BY <5>1, <5>2
      <4>2. Len(b) <= Len(a)
        <5>1. CASE Len(b) = 0
          BY <3>1, <5>1
        <5>2. CASE Len(b) # 0
          <6>1. Len(b) \in 1 .. Len(b)
            BY <3>1, <5>2
          <6> QED BY <3>5, <6>1
        <5> QED BY <5>1, <5>2
      <4> QED BY <3>1, <4>1, <4>2
    <3> HIDE DEF g
    <3> QED BY <3>0, <3>4, <3>6, SeqEqual
  <2>4. g \in Injection(W, P)
    <3> HIDE DEF g, W, P
    <3> QED BY <2>2, <2>3 DEF Injection, IsInjective
  <2> HIDE DEF g, W, P
  <2> QED BY <2>1, <2>4, FS_Injection
<1> QED BY <1>3, <1>4

\* The path of the recursion into the logger it is about to enter.
PathInto(l, s) == [k \in 1 .. Len(s) + 1 |-> Entered(l, s, k)]

\* The recursion's own path is a way, left at no activation, and the only one that
\* follows the recursion so far and no further.
LEMMA PathIsWay ==
  ASSUME NEW o \in {"emit", "flush"}, NEW l \in Loggers, NEW s \in Seq(Frame),
         NEW v \in SUBSET Loggers, Nested(o, l, s, v),
         NEW T \in [Loggers -> SUBSET Loggers], NEW r, Walks(T, r, l, s)
  PROVE  /\ o = "flush" \/ l \notin v => PathInto(l, s) \in Ways(o, r, l, TiesOf(T))
         /\ ~Left(s, PathInto(l, s))
         /\ \A q \in Seq(Loggers) : Follows(l, s, q) /\ Len(q) = Len(s) + 1 <=> q = PathInto(l, s)
<1> DEFINE n == Len(s)
           Q == PathInto(l, s)
<1>0. ByDepth(o, l, s, v)
  BY NestedByDepth
<1>2. l # NULL
  BY ConstantsAssumption
<1>1. /\ n \in Nat
      /\ \A d \in 1 .. n : /\ Outer(s, d) \in Frame /\ Outer(s, d).at = "forward"
                           /\ Outer(s, d).logger \in v
      /\ \A d, e \in 1 .. n : Outer(s, d).logger = Outer(s, e).logger => d = e
  <2>1. n \in Nat /\ \A d \in 1 .. n : Outer(s, d) \in Frame /\ Outer(s, d).at = "forward"
    BY <1>2, <1>0 DEF ByDepth
  <2>2. \A d \in 1 .. n : Outer(s, d).logger \in v
    BY <2>1, <1>0 DEF ByDepth
  <2>3. \A d, e \in 1 .. n : Outer(s, d).logger = Outer(s, e).logger => d = e
    BY <2>1, <1>0 DEF ByDepth
  <2> QED BY <2>1, <2>2, <2>3
<1>3. \A d \in 1 .. n : Outer(s, d).logger \in Loggers
  BY <1>1
<1>4. /\ Entered(l, s, n + 1) = l
      /\ \A k \in 1 .. n : Entered(l, s, k) = Outer(s, k).logger
  BY <1>1 DEF Entered
<1>5. /\ Q \in Seq(Loggers) /\ Len(Q) = n + 1
      /\ \A k \in 1 .. n + 1 : Q[k] = Entered(l, s, k) /\ Q[k] \in Loggers
  <2>1. \A k \in 1 .. n + 1 : Entered(l, s, k) \in Loggers
    BY <1>1, <1>3, <1>4
  <2>2. n + 1 \in Nat
    BY <1>1
  <2>3. Q \in [1 .. n + 1 -> Loggers]
    BY <2>1 DEF PathInto
  <2>4. \A k \in 1 .. n + 1 : Q[k] = Entered(l, s, k)
    BY DEF PathInto
  <2> HIDE DEF n, Q
  <2> QED BY <2>1, <2>2, <2>3, <2>4
<1>6. \A d \in 1 .. n : Entered(l, s, d + 1) \in T[Outer(s, d).logger] \ Outer(s, d).todo
  <2> SUFFICES ASSUME NEW d \in 1 .. n
               PROVE  Entered(l, s, d + 1) \in T[Outer(s, d).logger] \ Outer(s, d).todo
    OBVIOUS
  <2>1. d + 1 \in 1 .. n + 1
    BY <1>1
  <2>2. Entered(l, s, d + 1) # NULL
    BY <1>5, <2>1, ConstantsAssumption
  <2> QED BY <2>2 DEF Walks
<1> HIDE DEF Q, n
<1>7. ASSUME o = "flush" \/ l \notin v PROVE Q \in Ways(o, r, l, TiesOf(T))
  <2>1. Len(Q) <= Cardinality(Loggers) + Slack(o)
    <3>1. IsFiniteSet(v)
      BY FS_Subset, ConstantsAssumption
    <3>2. Cardinality(v) = n
      <4>1. s # <<>> => s[1].at # "snap"
        BY <1>2 DEF Nested
      <4>2. Undecided(o, s) = 0
        BY <4>1 DEF Undecided
      <4>3. Cardinality(v) = n - 0
        BY <4>2 DEF Nested, n
      <4> QED BY <1>1, <4>3
    <3>3. CASE l \notin v
      <4>1. Cardinality(v \cup {l}) = n + 1
        BY <3>1, <3>2, <3>3, FS_AddElement
      <4>2. Cardinality(v \cup {l}) <= Cardinality(Loggers)
        BY FS_Subset, ConstantsAssumption
      <4>3. Cardinality(Loggers) \in Nat /\ Slack(o) \in {0, 1}
        BY FS_CardinalityType, ConstantsAssumption DEF Slack
      <4> QED BY <1>1, <1>5, <4>1, <4>2, <4>3
    <3>4. CASE o = "flush"
      <4>1. Cardinality(v) <= Cardinality(Loggers)
        BY FS_Subset, ConstantsAssumption
      <4>2. Cardinality(Loggers) \in Nat /\ Slack(o) = 1
        BY <3>4, FS_CardinalityType, ConstantsAssumption DEF Slack
      <4> QED BY <1>1, <1>5, <3>2, <4>1, <4>2
    <3> QED BY <1>7, <3>3, <3>4
  <2>2. Q # <<>> /\ Q[Len(Q)] = l /\ Q[1] = r
    <3>1. 1 \in 1 .. n + 1 /\ n + 1 \in 1 .. n + 1
      BY <1>1
    <3>2. Q[1] \in {r, NULL} /\ Q[1] # NULL
      BY <1>5, <3>1, ConstantsAssumption DEF Walks
    <3>3. Q # <<>>
      BY <1>1, <1>5
    <3> QED BY <1>4, <1>5, <3>1, <3>2, <3>3
  <2>3. ASSUME NEW i \in 1 .. Len(Q) - Slack(o), NEW j \in 1 .. Len(Q) - Slack(o), Q[i] = Q[j]
        PROVE  i = j
    <3>1. i \in 1 .. n + 1 /\ j \in 1 .. n + 1
      BY <1>1, <1>5, <2>3 DEF Slack
    <3>2. CASE i \in 1 .. n /\ j \in 1 .. n
      <4>1. Outer(s, i).logger = Outer(s, j).logger
        BY <1>4, <1>5, <2>3, <3>1, <3>2
      <4> QED BY <1>1, <3>2, <4>1
    <3>3. CASE ~(i \in 1 .. n /\ j \in 1 .. n)
      <4>1. l \notin v
        <5>1. CASE o = "flush"
          <6>1. i \in 1 .. n /\ j \in 1 .. n
            BY <1>1, <1>5, <2>3, <5>1 DEF Slack
          <6> QED BY <3>3, <6>1
        <5> QED BY <1>7, <5>1
      <4>2. \A k \in 1 .. n : Q[k] # l
        <5> SUFFICES ASSUME NEW k \in 1 .. n PROVE Q[k] # l OBVIOUS
        <5>1. k \in 1 .. n + 1
          BY <1>1
        <5>2. Q[k] \in v
          BY <1>1, <1>4, <1>5, <5>1
        <5> QED BY <4>1, <5>2
      <4>3. (i = n + 1 \/ i \in 1 .. n) /\ (j = n + 1 \/ j \in 1 .. n)
        BY <1>1, <3>1
      <4>4. Q[n + 1] = l
        BY <1>4, <1>5, <1>1
      <4> QED BY <2>3, <3>3, <4>2, <4>3, <4>4
    <3> QED BY <3>2, <3>3
  <2>4. ASSUME NEW i \in 1 .. Len(Q) - 1 PROVE <<Q[i], Q[i + 1]>> \in TiesOf(T)
    <3>1. i \in 1 .. n /\ i \in 1 .. n + 1 /\ i + 1 \in 1 .. n + 1
      BY <1>1, <1>5
    <3>2. Q[i] = Outer(s, i).logger /\ Q[i + 1] \in T[Outer(s, i).logger]
      BY <1>4, <1>5, <1>6, <3>1
    <3>3. Q[i] \in Loggers /\ Q[i + 1] \in Loggers
      BY <1>5, <3>1
    <3> QED BY <3>2, <3>3 DEF TiesOf
  <2>5. IsWay(o, r, l, TiesOf(T), Q)
    BY <2>2, <2>3, <2>4 DEF IsWay
  <2> QED BY <1>5, <2>1, <2>5, WaysFinite
<1>8. ~Left(s, Q)
  <2> SUFFICES ASSUME NEW d \in 1 .. n PROVE ~LeftAt(s, Q, d)
    BY DEF Left, n
  <2>1. d + 1 \in 1 .. n + 1
    BY <1>1
  <2>2. Q[d + 1] \notin Outer(s, d).todo /\ Outer(s, d).at # "snap"
    BY <1>1, <1>5, <1>6, <2>1
  <2> QED BY <2>2 DEF LeftAt
<1>9. ASSUME NEW q \in Seq(Loggers)
      PROVE  Follows(l, s, q) /\ Len(q) = n + 1 <=> q = Q
  <2>1. ASSUME Follows(l, s, q), Len(q) = n + 1 PROVE q = Q
    <3>1. \A k \in 1 .. n + 1 : q[k] = Q[k]
      BY <1>5, <2>1 DEF Follows, n
    <3> QED BY <1>5, <2>1, <3>1, SeqEqual
  <2>2. ASSUME q = Q PROVE Follows(l, s, q) /\ Len(q) = n + 1
    <3>1. n < n + 1
      BY <1>1
    <3> QED BY <1>2, <1>5, <2>2, <3>1 DEF Follows, n
  <2> QED BY <2>1, <2>2
<1> QED BY <1>7, <1>8, <1>9 DEF Q, n

\* A call that reaches the sinks of l takes exactly the path to it, and no other
\* way: as an activation that has yet to look at its ties,
LEMMA CallTakes ==
  ASSUME NEW o \in {"emit", "flush"}, NEW l \in Loggers, NEW s \in Seq(Frame),
         NEW v \in SUBSET Loggers, Nested(o, l, s, v),
         NEW T \in [Loggers -> SUBSET Loggers], NEW r, Walks(T, r, l, s),
         NEW m \in Loggers, NEW f \in Frame, f.logger = l, f.at = "snap", f.todo = {},
         o = "flush" \/ l \notin v
  PROVE  /\ Walks(T, r, NULL, <<f>> \o s)
         /\ Taken(o, r, m, TiesOf(T), NULL, <<f>> \o s) =
              Taken(o, r, m, TiesOf(T), l, s) \cup (IF m = l THEN {PathInto(l, s)} ELSE {})
         /\ PathInto(l, s) \notin Taken(o, r, m, TiesOf(T), l, s)
<1> DEFINE n == Len(s)
           Q == PathInto(l, s)
           c == <<f>> \o s
           W == Ways(o, r, m, TiesOf(T))
<1>0. ByDepth(o, l, s, v)
  BY NestedByDepth
<1>2. l # NULL
  BY ConstantsAssumption
<1>1. /\ n \in Nat
      /\ \A d \in 1 .. n : Outer(s, d) \in Frame /\ Outer(s, d).at = "forward"
  BY <1>2, <1>0 DEF ByDepth
<1>3. Len(c) = n + 1 /\ Outer(c, n + 1) = f /\ \A k \in 1 .. n : Outer(c, k) = Outer(s, k)
  BY OuterPush
<1>4. /\ Q \in Ways(o, r, l, TiesOf(T)) /\ ~Left(s, Q)
      /\ \A q \in Seq(Loggers) : Follows(l, s, q) /\ Len(q) = n + 1 <=> q = Q
  BY PathIsWay
<1> HIDE DEF Q, n, c
<1>5. \A k \in 1 .. n + 1 : Entered(l, s, k) = Outer(c, k).logger /\ Entered(NULL, c, k) = Entered(l, s, k)
  <2> SUFFICES ASSUME NEW k \in 1 .. n + 1
               PROVE  Entered(l, s, k) = Outer(c, k).logger /\ Entered(NULL, c, k) = Outer(c, k).logger
    OBVIOUS
  <2>1. k # n + 2 /\ (k = n + 1 \/ (k # n + 1 /\ k \in 1 .. n)) /\ n + 1 + 1 = n + 2
    BY <1>1
  <2>2. Entered(NULL, c, k) = Outer(c, k).logger
    BY <1>3, <2>1 DEF Entered
  <2>3. Entered(l, s, k) = Outer(c, k).logger
    BY <1>3, <2>1 DEF Entered, n
  <2> QED BY <2>2, <2>3
<1>6. Walks(T, r, NULL, c)
  <2>1. Entered(NULL, c, 1) \in {r, NULL}
    <3>1. 1 \in 1 .. n + 1
      BY <1>1
    <3> QED BY <1>5, <3>1 DEF Walks
  <2>2. ASSUME NEW d \in 1 .. n
        PROVE  /\ Outer(c, d).todo \subseteq T[Outer(c, d).logger]
               /\ Entered(NULL, c, d + 1) # NULL =>
                    Entered(NULL, c, d + 1) \in T[Outer(c, d).logger] \ Outer(c, d).todo
    <3>1. d + 1 \in 1 .. n + 1
      BY <1>1
    <3>2. /\ Outer(s, d).todo \subseteq T[Outer(s, d).logger]
          /\ Entered(l, s, d + 1) # NULL =>
               Entered(l, s, d + 1) \in T[Outer(s, d).logger] \ Outer(s, d).todo
      BY DEF Walks, n
    <3>3. Outer(c, d) = Outer(s, d) /\ Entered(NULL, c, d + 1) = Entered(l, s, d + 1)
      BY <1>3, <1>5, <3>1
    <3> QED BY <3>2, <3>3
  <2>3. Entered(NULL, c, (n + 1) + 1) = NULL /\ Outer(c, n + 1).todo = {}
    BY <1>3 DEF Entered
  <2>4. \A d \in 1 .. n + 1 : d \in 1 .. n \/ d = n + 1
    BY <1>1
  <2> QED BY <1>3, <2>1, <2>2, <2>3, <2>4 DEF Walks
<1>7. ASSUME NEW q \in Seq(Loggers)
      PROVE  Left(c, q) <=> Left(s, q) \/ (Follows(l, s, q) /\ Len(q) > n + 1)
  <2>1. \A d \in 1 .. n : LeftAt(c, q, d) <=> LeftAt(s, q, d)
    <3> SUFFICES ASSUME NEW d \in 1 .. n PROVE LeftAt(c, q, d) <=> LeftAt(s, q, d)
      OBVIOUS
    <3>1. \A k \in 1 .. d : k \in 1 .. n
      BY <1>1
    <3> QED BY <1>3, <3>1 DEF LeftAt
  <2>2. LeftAt(c, q, n + 1) <=> Follows(l, s, q) /\ Len(q) > n + 1
    <3>1. Len(q) \in Nat
      BY LenProperties
    <3>2. Len(q) > n + 1 <=> n + 1 < Len(q)
      BY <1>1, <3>1
    <3>3. n + 1 < Len(q) => n < Len(q)
      BY <1>1, <3>1
    <3> QED BY <1>2, <1>3, <1>5, <3>2, <3>3 DEF LeftAt, Follows, n
  <2>3. Left(c, q) <=> \E d \in 1 .. n + 1 : LeftAt(c, q, d)
    BY <1>3 DEF Left
  <2>4. 1 .. n + 1 = (1 .. n) \cup {n + 1}
    BY <1>1
  <2>5. Left(s, q) <=> \E d \in 1 .. n : LeftAt(s, q, d)
    BY DEF Left, n
  <2> QED BY <2>1, <2>2, <2>3, <2>4, <2>5
<1>8. ASSUME NEW q \in Seq(Loggers)
      PROVE  ~Left(c, q) <=> (~Follows(l, s, q) /\ ~Left(s, q)) \/ q = Q
  <2>1. Follows(l, s, q) => Len(q) > n + 1 \/ Len(q) = n + 1
    <3>1. Len(q) \in Nat
      BY LenProperties
    <3>2. Follows(l, s, q) => n < Len(q)
      BY DEF Follows, n
    <3> QED BY <1>1, <3>1, <3>2
  <2>2. ~(n + 1 > n + 1)
    BY <1>1
  <2> QED BY <1>4, <1>7, <2>1, <2>2
<1>9. \A q \in W : q \in Seq(Loggers) /\ q[Len(q)] = m
  BY WaysFinite DEF IsWay
<1>10. Q \in Seq(Loggers) /\ Q[Len(Q)] = l /\ Follows(l, s, Q)
  BY <1>4, WaysFinite DEF IsWay
<1>11. \A q : ~Follows(NULL, c, q)
  BY DEF Follows
<1>12. Taken(o, r, m, TiesOf(T), NULL, c) =
         Taken(o, r, m, TiesOf(T), l, s) \cup (IF m = l THEN {Q} ELSE {})
  <2>1. Taken(o, r, m, TiesOf(T), NULL, c) = {q \in W : ~Left(c, q)}
    BY <1>11 DEF Taken
  <2>2. Taken(o, r, m, TiesOf(T), l, s) = {q \in W : ~Follows(l, s, q) /\ ~Left(s, q)}
    BY DEF Taken
  <2>3. m = l => Q \in W
    BY <1>4
  <2>4. m # l => Q \notin W
    BY <1>9, <1>10
  <2> HIDE DEF W
  <2> QED BY <1>8, <1>9, <2>1, <2>2, <2>3, <2>4
<1>13. Q \notin Taken(o, r, m, TiesOf(T), l, s)
  BY <1>10 DEF Taken
<1> QED BY <1>6, <1>12, <1>13 DEF Q, c

\* ... or it ends at once, because l has no ties,
LEMMA FastTakes ==
  ASSUME NEW l \in Loggers, NEW s \in Seq(Frame),
         NEW v \in SUBSET Loggers, Nested("emit", l, s, v),
         NEW T \in [Loggers -> SUBSET Loggers], NEW r, Walks(T, r, l, s),
         NEW m \in Loggers, T[l] = {}
  PROVE  /\ Walks(T, r, NULL, s)
         /\ Taken("emit", r, m, TiesOf(T), NULL, s) =
              Taken("emit", r, m, TiesOf(T), l, s) \cup (IF m = l THEN {PathInto(l, s)} ELSE {})
         /\ PathInto(l, s) \notin Taken("emit", r, m, TiesOf(T), l, s)
<1> DEFINE n == Len(s)
           Q == PathInto(l, s)
           W == Ways("emit", r, m, TiesOf(T))
<1>0. ByDepth("emit", l, s, v)
  BY NestedByDepth
<1>1. n \in Nat /\ l # NULL
  BY <1>0, ConstantsAssumption DEF ByDepth
<1>2. l \notin v
  <2> SUFFICES ASSUME l \in v PROVE FALSE OBVIOUS
  <2>1. PICK d \in 1 .. n : Outer(s, d).logger = l
    BY <1>0 DEF ByDepth
  <2>2. Entered(l, s, d + 1) \in Loggers
    <3>1. CASE d = n
      BY <3>1 DEF Entered
    <3>2. CASE d # n
      <4>1. d + 1 \in 1 .. n /\ d + 1 # n + 1
        BY <1>1, <3>2
      <4>2. Outer(s, d + 1) \in Frame
        BY <1>0, <4>1 DEF ByDepth
      <4> QED BY <4>1, <4>2 DEF Entered, Frame
    <3> QED BY <3>1, <3>2
  <2>3. Entered(l, s, d + 1) \in T[l]
    BY <2>1, <2>2, ConstantsAssumption DEF Walks
  <2> QED BY <2>3
<1>3. /\ Q \in Ways("emit", r, l, TiesOf(T)) /\ ~Left(s, Q)
      /\ \A q \in Seq(Loggers) : Follows(l, s, q) /\ Len(q) = n + 1 <=> q = Q
  BY <1>2, PathIsWay
<1> HIDE DEF Q, n
<1>4. Walks(T, r, NULL, s)
  <2>1. Entered(NULL, s, 1) \in {r, NULL}
    BY DEF Walks, Entered
  <2>2. ASSUME NEW d \in 1 .. n
        PROVE  /\ Outer(s, d).todo \subseteq T[Outer(s, d).logger]
               /\ Entered(NULL, s, d + 1) # NULL =>
                    Entered(NULL, s, d + 1) \in T[Outer(s, d).logger] \ Outer(s, d).todo
    <3>1. /\ Outer(s, d).todo \subseteq T[Outer(s, d).logger]
          /\ Entered(l, s, d + 1) # NULL =>
               Entered(l, s, d + 1) \in T[Outer(s, d).logger] \ Outer(s, d).todo
      BY DEF Walks, n
    <3>2. Entered(NULL, s, d + 1) = NULL \/ Entered(NULL, s, d + 1) = Entered(l, s, d + 1)
      BY DEF Entered
    <3> QED BY <3>1, <3>2
  <2> QED BY <2>1, <2>2 DEF Walks, n
<1>5. \A q \in W : q \in Seq(Loggers) /\ q[Len(q)] = m
         /\ \A i \in 1 .. Len(q) - 1 : <<q[i], q[i + 1]>> \in TiesOf(T)
  BY WaysFinite DEF IsWay
<1>6. ASSUME NEW q \in W PROVE Follows(l, s, q) <=> q = Q
  <2>1. q \in Seq(Loggers)
    BY <1>5
  <2>2. Len(q) \in Nat
    BY <2>1, LenProperties
  <2>3. ASSUME Follows(l, s, q) PROVE Len(q) = n + 1
    <3> SUFFICES ASSUME Len(q) # n + 1 PROVE FALSE OBVIOUS
    <3>1. n < Len(q)
      BY <2>3 DEF Follows, n
    <3>2. n + 1 \in 1 .. Len(q) - 1 /\ n + 1 \in 1 .. n + 1
      BY <1>1, <2>2, <3>1
    <3>3. q[n + 1] = l
      BY <2>3, <3>2 DEF Follows, Entered, n
    <3>4. <<q[n + 1], q[n + 1 + 1]>> \in TiesOf(T)
      BY <1>5, <3>2
    <3> QED BY <3>3, <3>4 DEF TiesOf
  <2> QED BY <1>3, <2>1, <2>3
<1>7. Q \in Seq(Loggers) /\ Q[Len(Q)] = l /\ Follows(l, s, Q)
  <2>1. Q \in Seq(Loggers) /\ Q[Len(Q)] = l
    BY <1>3, WaysFinite DEF IsWay
  <2> QED BY <1>3, <2>1
<1>8. \A q : ~Follows(NULL, s, q)
  BY DEF Follows
<1>9. Taken("emit", r, m, TiesOf(T), NULL, s) =
         Taken("emit", r, m, TiesOf(T), l, s) \cup (IF m = l THEN {Q} ELSE {})
  <2>1. Taken("emit", r, m, TiesOf(T), NULL, s) = {q \in W : ~Left(s, q)}
    BY <1>8 DEF Taken
  <2>2. Taken("emit", r, m, TiesOf(T), l, s) = {q \in W : ~Follows(l, s, q) /\ ~Left(s, q)}
    BY DEF Taken
  <2>3. m = l => Q \in W
    BY <1>3
  <2>4. m # l => Q \notin W
    BY <1>5, <1>7
  <2> HIDE DEF W
  <2> QED BY <1>3, <1>6, <2>1, <2>2, <2>3, <2>4
<1>10. Q \notin Taken("emit", r, m, TiesOf(T), l, s)
  BY <1>7 DEF Taken
<1> QED BY <1>4, <1>9, <1>10 DEF Q

\* A call of emit() that the cycle test ends takes none.
LEMMA VisitedTakes ==
  ASSUME NEW l \in Loggers, NEW s \in Seq(Frame),
         NEW v \in SUBSET Loggers, Nested("emit", l, s, v),
         NEW T \in [Loggers -> SUBSET Loggers], NEW r, Walks(T, r, l, s),
         NEW m \in Loggers, l \in v
  PROVE  /\ Walks(T, r, NULL, s)
         /\ Taken("emit", r, m, TiesOf(T), NULL, s) = Taken("emit", r, m, TiesOf(T), l, s)
<1> DEFINE n == Len(s)
           W == Ways("emit", r, m, TiesOf(T))
<1>0. ByDepth("emit", l, s, v)
  BY NestedByDepth
<1>1. n \in Nat
  BY <1>0 DEF ByDepth
<1>2. PICK d \in 1 .. n : Outer(s, d).logger = l
  BY <1>0 DEF ByDepth
<1> HIDE DEF n
<1>3. ASSUME NEW q \in W PROVE ~Follows(l, s, q)
  <2> SUFFICES ASSUME Follows(l, s, q) PROVE FALSE OBVIOUS
  <2>1. q \in Seq(Loggers) /\ IsWay("emit", r, m, TiesOf(T), q)
    BY WaysFinite
  <2>2. Len(q) \in Nat /\ n < Len(q) /\ \A k \in 1 .. n + 1 : q[k] = Entered(l, s, k)
    BY <2>1, LenProperties DEF Follows, n
  <2>3. /\ d \in 1 .. n + 1 /\ n + 1 \in 1 .. n + 1 /\ d # n + 1
        /\ d \in 1 .. Len(q) - 0 /\ n + 1 \in 1 .. Len(q) - 0
    BY <1>1, <2>2
  <2>4. q[d] = l /\ q[n + 1] = l
    BY <1>2, <2>2, <2>3 DEF Entered, n
  <2>5. \A i, j \in 1 .. Len(q) - 0 : q[i] = q[j] => i = j
    BY <2>1 DEF IsWay, Slack
  <2> QED BY <2>3, <2>4, <2>5
<1>4. \A q : ~Follows(NULL, s, q)
  BY DEF Follows
<1>5. Taken("emit", r, m, TiesOf(T), NULL, s) = Taken("emit", r, m, TiesOf(T), l, s)
  BY <1>3, <1>4 DEF Taken
<1>6. Walks(T, r, NULL, s)
  <2>1. Entered(NULL, s, 1) \in {r, NULL}
    BY DEF Walks, Entered
  <2>2. ASSUME NEW e \in 1 .. n
        PROVE  /\ Outer(s, e).todo \subseteq T[Outer(s, e).logger]
               /\ Entered(NULL, s, e + 1) # NULL =>
                    Entered(NULL, s, e + 1) \in T[Outer(s, e).logger] \ Outer(s, e).todo
    <3>1. /\ Outer(s, e).todo \subseteq T[Outer(s, e).logger]
          /\ Entered(l, s, e + 1) # NULL =>
               Entered(l, s, e + 1) \in T[Outer(s, e).logger] \ Outer(s, e).todo
      BY DEF Walks, n
    <3>2. Entered(NULL, s, e + 1) = NULL \/ Entered(NULL, s, e + 1) = Entered(l, s, e + 1)
      BY DEF Entered
    <3> QED BY <3>1, <3>2
  <2> QED BY <2>1, <2>2 DEF Walks, n
<1> QED BY <1>5, <1>6

\* A way that goes on where the newest activation is, and one left to an older one.
Along(s, q) == Len(s) < Len(q) /\ \A k \in 1 .. Len(s) : q[k] = Outer(s, k).logger
Below(s, q) == \E d \in 1 .. Len(s) - 1 : LeftAt(s, q, d)

\* What is left when the newest activation moves on or ends.
LEMMA TopMoves ==
  ASSUME NEW s \in Seq(Frame), s # <<>>, NEW f \in Frame, f.logger = s[1].logger, NEW tg, NEW q
  PROVE  LET c == [s EXCEPT ![1] = f]
         IN  /\ Left(s, q) <=>
                  Below(s, q) \/ (Along(s, q) /\ (s[1].at = "snap" \/ q[Len(s) + 1] \in s[1].todo))
             /\ Left(c, q) <=>
                  Below(s, q) \/ (Along(s, q) /\ (f.at = "snap" \/ q[Len(s) + 1] \in f.todo))
             /\ Left(Tail(s), q) <=> Below(s, q)
             /\ Follows(tg, c, q) <=> tg # NULL /\ Along(s, q) /\ q[Len(s) + 1] = tg
<1> DEFINE n == Len(s)
           c == [s EXCEPT ![1] = f]
           u == Tail(s)
<1>1. /\ n \in Nat \ {0} /\ Outer(s, n) = s[1]
      /\ Len(c) = n /\ Outer(c, n) = f /\ \A k \in 1 .. n - 1 : Outer(c, k) = Outer(s, k)
      /\ Len(u) = n - 1 /\ \A k \in 1 .. n - 1 : Outer(u, k) = Outer(s, k)
  BY OuterTop
<1> HIDE DEF n, c, u
<1>2. 1 .. n = (1 .. n - 1) \cup {n}
  BY <1>1
<1>3. \A k \in 1 .. n : Outer(c, k).logger = Outer(s, k).logger
  BY <1>1, <1>2
<1>4. ASSUME NEW d \in 1 .. n - 1
      PROVE  (LeftAt(c, q, d) <=> LeftAt(s, q, d)) /\ (LeftAt(u, q, d) <=> LeftAt(s, q, d))
  <2>1. \A k \in 1 .. d : k \in 1 .. n - 1
    BY <1>1
  <2> QED BY <1>1, <2>1 DEF LeftAt
<1>5. LeftAt(s, q, n) <=> Along(s, q) /\ (s[1].at = "snap" \/ q[n + 1] \in s[1].todo)
  BY <1>1 DEF LeftAt, Along, n
<1>6. LeftAt(c, q, n) <=> Along(s, q) /\ (f.at = "snap" \/ q[n + 1] \in f.todo)
  BY <1>1, <1>3 DEF LeftAt, Along, n
<1>7. Left(s, q) <=> Below(s, q) \/ LeftAt(s, q, n)
  BY <1>2 DEF Left, Below, n
<1>8. Left(c, q) <=> Below(s, q) \/ LeftAt(c, q, n)
  <2>1. Left(c, q) <=> \E d \in 1 .. n : LeftAt(c, q, d)
    BY <1>1 DEF Left
  <2>2. Below(s, q) <=> \E d \in 1 .. n - 1 : LeftAt(s, q, d)
    BY DEF Below, n
  <2> QED BY <1>2, <1>4, <2>1, <2>2
<1>9. Left(u, q) <=> Below(s, q)
  <2>1. Left(u, q) <=> \E d \in 1 .. n - 1 : LeftAt(u, q, d)
    BY <1>1 DEF Left
  <2>2. Below(s, q) <=> \E d \in 1 .. n - 1 : LeftAt(s, q, d)
    BY DEF Below, n
  <2> QED BY <1>4, <2>1, <2>2
<1>10. Follows(tg, c, q) <=> tg # NULL /\ Along(s, q) /\ q[n + 1] = tg
  <2>1. Follows(tg, c, q) <=> tg # NULL /\ n < Len(q) /\ \A k \in 1 .. n + 1 : q[k] = Entered(tg, c, k)
    BY <1>1 DEF Follows
  <2>2. 1 .. n + 1 = (1 .. n) \cup {n + 1} /\ n + 1 \notin 1 .. n
    BY <1>1
  <2>3. Entered(tg, c, n + 1) = tg /\ \A k \in 1 .. n : Entered(tg, c, k) = Outer(s, k).logger
    BY <1>1, <1>3, <2>2 DEF Entered
  <2>4. Along(s, q) <=> n < Len(q) /\ \A k \in 1 .. n : q[k] = Outer(s, k).logger
    BY DEF Along, n
  <2> QED BY <2>1, <2>2, <2>3, <2>4
<1>11. Left(s, q) <=>
         Below(s, q) \/ (Along(s, q) /\ (s[1].at = "snap" \/ q[n + 1] \in s[1].todo))
  BY <1>5, <1>7
<1>12. Left(c, q) <=>
         Below(s, q) \/ (Along(s, q) /\ (f.at = "snap" \/ q[n + 1] \in f.todo))
  BY <1>6, <1>8
<1> QED BY <1>9, <1>10, <1>11, <1>12 DEF n, c, u

\* The activations still follow ties when the newest one has its snapshot, calls one
\* of the loggers in it, or ends.
LEMMA TopWalks ==
  ASSUME NEW s \in Seq(Frame), s # <<>>, NEW f \in Frame, f.logger = s[1].logger,
         NEW T, NEW r, Walks(T, r, NULL, s), f.todo \subseteq T[f.logger],
         NEW tg, tg = NULL \/ tg \in T[f.logger] \ f.todo
  PROVE  Walks(T, r, tg, [s EXCEPT ![1] = f]) /\ Walks(T, r, NULL, Tail(s))
<1> DEFINE n == Len(s)
           c == [s EXCEPT ![1] = f]
           u == Tail(s)
<1>1. /\ n \in Nat \ {0} /\ Outer(s, n) = s[1]
      /\ Len(c) = n /\ Outer(c, n) = f /\ \A k \in 1 .. n - 1 : Outer(c, k) = Outer(s, k)
      /\ Len(u) = n - 1 /\ \A k \in 1 .. n - 1 : Outer(u, k) = Outer(s, k)
  BY OuterTop
<1> HIDE DEF n, c, u
<1>2. 1 .. n = (1 .. n - 1) \cup {n} /\ n + 1 \notin 1 .. n /\ 1 \in 1 .. n /\ n - 1 + 1 = n
  BY <1>1
<1>3. \A k \in 1 .. n : /\ Entered(NULL, s, k) = Outer(s, k).logger
                        /\ Entered(tg, c, k) = Outer(s, k).logger
                        /\ Entered(NULL, u, k) \in {Outer(s, k).logger, NULL}
  <2>1. \A k \in 1 .. n : Outer(c, k).logger = Outer(s, k).logger /\ k # n + 1
    BY <1>1, <1>2
  <2>2. \A k \in 1 .. n : Entered(NULL, s, k) = Outer(s, k).logger
    BY <2>1 DEF Entered, n
  <2>3. \A k \in 1 .. n : Entered(tg, c, k) = Outer(s, k).logger
    BY <1>1, <2>1 DEF Entered
  <2>4. \A k \in 1 .. n : Entered(NULL, u, k) \in {Outer(s, k).logger, NULL}
    <3>1. Entered(NULL, u, n) = NULL
      BY <1>1, <1>2 DEF Entered
    <3>2. \A k \in 1 .. n - 1 : Entered(NULL, u, k) = Outer(s, k).logger
      BY <1>1, <1>2 DEF Entered
    <3> QED BY <1>2, <3>1, <3>2
  <2> QED BY <2>2, <2>3, <2>4
<1>4. /\ Entered(NULL, s, 1) \in {r, NULL}
      /\ \A d \in 1 .. n - 1 :
           /\ Outer(s, d).todo \subseteq T[Outer(s, d).logger]
           /\ Outer(s, d + 1).logger # NULL =>
                Outer(s, d + 1).logger \in T[Outer(s, d).logger] \ Outer(s, d).todo
  <2>1. \A d \in 1 .. n - 1 : d \in 1 .. n /\ d + 1 \in 1 .. n
    BY <1>1
  <2> QED BY <1>3, <2>1 DEF Walks, n
<1>5. Walks(T, r, tg, c)
  <2>1. Entered(tg, c, 1) \in {r, NULL}
    BY <1>2, <1>3, <1>4
  <2>2. ASSUME NEW d \in 1 .. n - 1
        PROVE  /\ Outer(c, d).todo \subseteq T[Outer(c, d).logger]
               /\ Entered(tg, c, d + 1) # NULL =>
                    Entered(tg, c, d + 1) \in T[Outer(c, d).logger] \ Outer(c, d).todo
    <3>1. d + 1 \in 1 .. n /\ Outer(c, d) = Outer(s, d)
      BY <1>1
    <3>2. Entered(tg, c, d + 1) = Outer(s, d + 1).logger
      BY <1>3, <3>1
    <3> QED BY <1>4, <3>1, <3>2
  <2>3. Entered(tg, c, n + 1) = tg
    BY <1>1 DEF Entered
  <2> QED BY <1>1, <1>2, <2>1, <2>2, <2>3 DEF Walks
<1>6. Walks(T, r, NULL, u)
  <2>1. Entered(NULL, u, 1) \in {r, NULL}
    BY <1>2, <1>3, <1>4
  <2>2. ASSUME NEW d \in 1 .. n - 1
        PROVE  /\ Outer(u, d).todo \subseteq T[Outer(u, d).logger]
               /\ Entered(NULL, u, d + 1) # NULL =>
                    Entered(NULL, u, d + 1) \in T[Outer(u, d).logger] \ Outer(u, d).todo
    <3>1. d + 1 \in 1 .. n /\ Outer(u, d) = Outer(s, d)
      BY <1>1
    <3>2. Entered(NULL, u, d + 1) \in {Outer(s, d + 1).logger, NULL}
      BY <1>3, <3>1
    <3> QED BY <1>4, <3>1, <3>2
  <2> QED BY <1>1, <2>1, <2>2 DEF Walks
<1> QED BY <1>5, <1>6 DEF c, u

\* None of these moves takes a way or gives one up: a snapshot leaves to its
\* activation all that may go on from there; a flush() that finds its logger visited
\* is where no way goes on;
LEMMA SnapshotTakes ==
  ASSUME NEW o \in {"emit", "flush"}, NEW s \in Seq(Frame), s # <<>>, s[1].at = "snap",
         NEW v \in SUBSET Loggers, Nested(o, NULL, s, v),
         NEW T \in [Loggers -> SUBSET Loggers], NEW r, Walks(T, r, NULL, s), NEW m \in Loggers,
         NEW f \in Frame, f.logger = s[1].logger, f.at = "forward", f.todo = T[f.logger]
  PROVE  /\ Walks(T, r, NULL, [s EXCEPT ![1] = f])
         /\ Taken(o, r, m, TiesOf(T), NULL, [s EXCEPT ![1] = f]) =
              Taken(o, r, m, TiesOf(T), NULL, s)
         /\ o = "flush" /\ f.logger \in v =>
              /\ Walks(T, r, NULL, Tail(s))
              /\ Taken(o, r, m, TiesOf(T), NULL, Tail(s)) = Taken(o, r, m, TiesOf(T), NULL, s)
<1> DEFINE n == Len(s)
           c == [s EXCEPT ![1] = f]
           u == Tail(s)
           W == Ways(o, r, m, TiesOf(T))
<1>1. n \in Nat \ {0} /\ Outer(s, n) = s[1]
  BY OuterTop
<1>2. Walks(T, r, NULL, c) /\ Walks(T, r, NULL, u)
  BY TopWalks
<1>3. \A q : ~Follows(NULL, s, q) /\ ~Follows(NULL, c, q) /\ ~Follows(NULL, u, q)
  BY DEF Follows
<1>4. \A q : /\ Left(s, q) <=> Below(s, q) \/ Along(s, q)
             /\ Left(c, q) <=> Below(s, q) \/ (Along(s, q) /\ q[n + 1] \in T[f.logger])
             /\ Left(u, q) <=> Below(s, q)
  BY TopMoves
<1> HIDE DEF c, u, n
<1>5. ASSUME NEW q \in W, Along(s, q)
      PROVE  q[n + 1] \in T[f.logger] /\ ~(o = "flush" /\ f.logger \in v)
  <2>1. q \in Seq(Loggers) /\ IsWay(o, r, m, TiesOf(T), q)
    BY WaysFinite
  <2>2. Len(q) \in Nat /\ n < Len(q) /\ \A k \in 1 .. n : q[k] = Outer(s, k).logger
    BY <1>5, <2>1, LenProperties DEF Along, n
  <2>3. n \in 1 .. n /\ n \in 1 .. Len(q) - 1
    BY <1>1, <2>2
  <2>4. q[n] = f.logger
    BY <1>1, <2>2, <2>3
  <2>5. <<q[n], q[n + 1]>> \in TiesOf(T)
    BY <2>1, <2>3 DEF IsWay
  <2>6. q[n + 1] \in T[f.logger]
    BY <2>4, <2>5 DEF TiesOf
  <2>7. ASSUME o = "flush", f.logger \in v PROVE FALSE
    <3>1. ByDepth(o, NULL, s, v)
      BY NestedByDepth
    <3>2. PICK d \in 1 .. n : Outer(s, d).logger = f.logger /\ Outer(s, d).at = "forward"
      BY <2>7, <3>1 DEF ByDepth, n
    <3>3. d # n
      BY <1>1, <3>2
    <3>4. d \in 1 .. Len(q) - 1
      BY <1>1, <2>2
    <3>5. q[d] = f.logger
      BY <2>2, <3>2
    <3>6. \A i, j \in 1 .. Len(q) - 1 : q[i] = q[j] => i = j
      BY <2>1, <2>7 DEF IsWay, Slack
    <3> QED BY <2>3, <2>4, <3>3, <3>4, <3>5, <3>6
  <2> QED BY <2>6, <2>7
<1>6. Taken(o, r, m, TiesOf(T), NULL, c) = Taken(o, r, m, TiesOf(T), NULL, s)
  BY <1>3, <1>4, <1>5 DEF Taken
<1>7. o = "flush" /\ f.logger \in v =>
        Taken(o, r, m, TiesOf(T), NULL, u) = Taken(o, r, m, TiesOf(T), NULL, s)
  BY <1>3, <1>4, <1>5 DEF Taken
<1> QED BY <1>2, <1>6, <1>7 DEF c, u

\* the logger an activation calls next is no longer left to it; and one that ends has
\* none left.
LEMMA ForwardTakes ==
  ASSUME NEW o \in {"emit", "flush"}, NEW s \in Seq(Frame), s # <<>>, s[1].at = "forward",
         NEW T, NEW r, Walks(T, r, NULL, s), NEW m \in Loggers, NEW l \in s[1].todo, l # NULL,
         NEW f \in Frame, f.logger = s[1].logger, f.at = "forward", f.todo = s[1].todo \ {l}
  PROVE  /\ Walks(T, r, l, [s EXCEPT ![1] = f])
         /\ Taken(o, r, m, TiesOf(T), l, [s EXCEPT ![1] = f]) =
              Taken(o, r, m, TiesOf(T), NULL, s)
<1>1. Len(s) \in Nat \ {0} /\ Outer(s, Len(s)) = s[1]
  BY OuterTop
<1>2. s[1].todo \subseteq T[s[1].logger]
  <2>1. Len(s) \in 1 .. Len(s)
    BY <1>1
  <2> QED BY <1>1, <2>1 DEF Walks
<1>3. Walks(T, r, l, [s EXCEPT ![1] = f])
  BY <1>2, TopWalks
<1>4. \A q : ~Follows(NULL, s, q)
  BY DEF Follows
<1>5. \A q : Left(s, q) <=> Left([s EXCEPT ![1] = f], q) \/ Follows(l, [s EXCEPT ![1] = f], q)
  <2> SUFFICES ASSUME NEW q
               PROVE  Left(s, q) <=>
                        Left([s EXCEPT ![1] = f], q) \/ Follows(l, [s EXCEPT ![1] = f], q)
    OBVIOUS
  <2>1. Left(s, q) <=>
          Below(s, q) \/ (Along(s, q) /\ (s[1].at = "snap" \/ q[Len(s) + 1] \in s[1].todo))
    BY TopMoves
  <2>2. Left([s EXCEPT ![1] = f], q) <=>
          Below(s, q) \/ (Along(s, q) /\ (f.at = "snap" \/ q[Len(s) + 1] \in f.todo))
    BY TopMoves
  <2>3. Follows(l, [s EXCEPT ![1] = f], q) <=> l # NULL /\ Along(s, q) /\ q[Len(s) + 1] = l
    BY TopMoves
  <2> QED BY <2>1, <2>2, <2>3
<1> QED BY <1>3, <1>4, <1>5 DEF Taken

LEMMA ReturnTakes ==
  ASSUME NEW o \in {"emit", "flush"}, NEW s \in Seq(Frame), s # <<>>,
         s[1].at = "forward", s[1].todo = {},
         NEW T, NEW r, Walks(T, r, NULL, s), NEW m \in Loggers
  PROVE  /\ Walks(T, r, NULL, Tail(s))
         /\ Taken(o, r, m, TiesOf(T), NULL, Tail(s)) = Taken(o, r, m, TiesOf(T), NULL, s)
<1>1. s[1] \in Frame
  OBVIOUS
<1>2. Walks(T, r, NULL, Tail(s))
  <2>1. s[1].todo \subseteq T[s[1].logger]
    OBVIOUS
  <2> QED BY <1>1, <2>1, TopWalks
<1>3. \A q : ~Follows(NULL, s, q) /\ ~Follows(NULL, Tail(s), q)
  BY DEF Follows
<1>4. \A q : Left(s, q) <=> Left(Tail(s), q)
  <2>1. ASSUME NEW q PROVE Left(s, q) <=> Left(Tail(s), q)
    <3>1. Left(s, q) <=>
            Below(s, q) \/ (Along(s, q) /\ (s[1].at = "snap" \/ q[Len(s) + 1] \in s[1].todo))
      BY <1>1, TopMoves
    <3>2. Left(Tail(s), q) <=> Below(s, q)
      BY <1>1, TopMoves
    <3> QED BY <3>1, <3>2
  <2> QED BY <2>1
<1> QED BY <1>2, <1>3, <1>4 DEF Taken

\* The ways of emit() are the simple paths, those of flush() what FlushVisits counts.
LEMMA WaysCounted ==
  ASSUME NEW o \in {"emit", "flush"}, NEW r, NEW m \in Loggers, NEW E
  PROVE  Cardinality(Ways(o, r, m, E)) =
           IF o = "emit" THEN Cardinality(SimplePaths(r, m, E)) ELSE FlushVisits(r, m, E)
<1>1. ASSUME NEW l PROVE Ways("emit", r, l, E) = SimplePaths(r, l, E)
  <2> DEFINE N == Cardinality(Loggers)
  <2>1. N \in Nat /\ N + Slack("emit") = N
    BY FS_CardinalityType, ConstantsAssumption DEF Slack
  <2>2. ASSUME NEW q \in SeqOf(Loggers, N)
        PROVE  (\A i, j \in 1 .. Len(q) - Slack("emit") : q[i] = q[j] => i = j) <=> IsInjective(q)
    <3>1. PICK n \in 0 .. N : q \in [1 .. n -> Loggers]
      BY DEF SeqOf
    <3>2. Len(q) = n /\ DOMAIN q = 1 .. n /\ n - Slack("emit") = n
      BY <2>1, <3>1 DEF Slack
    <3> QED BY <3>2 DEF IsInjective
  <2> QED BY <2>1, <2>2 DEF Ways, SimplePaths, IsWay
<1>2. ASSUME o = "flush" PROVE Cardinality(Ways(o, r, m, E)) = FlushVisits(r, m, E)
  <2> DEFINE In(l) == {Append(p, m) : p \in SimplePaths(r, l, E)}
             U == UNION {In(l) : l \in {x \in Loggers : <<x, m>> \in E}}
             W == Ways(o, r, m, E)
             N == Cardinality(Loggers)
  <2>0. N \in Nat /\ Slack(o) = 1 /\ Slack("emit") = 0
    BY <1>2, FS_CardinalityType, ConstantsAssumption DEF Slack
  <2>1. IsFiniteSet(W) /\ \A q : q \in W <=> /\ q \in Seq(Loggers) /\ Len(q) <= N + 1
                                             /\ IsWay(o, r, m, E, q)
    BY <2>0, WaysFinite
  <2>2. \A l : \A p : p \in SimplePaths(r, l, E) <=> /\ p \in Seq(Loggers) /\ Len(p) <= N
                                                     /\ IsWay("emit", r, l, E, p)
    <3> SUFFICES ASSUME NEW l, NEW p
                 PROVE  p \in SimplePaths(r, l, E) <=> /\ p \in Seq(Loggers) /\ Len(p) <= N
                                                       /\ IsWay("emit", r, l, E, p)
      OBVIOUS
    <3>1. p \in Ways("emit", r, l, E) <=> /\ p \in Seq(Loggers) /\ Len(p) <= N + Slack("emit")
                                          /\ IsWay("emit", r, l, E, p)
      BY WaysFinite
    <3>2. N + Slack("emit") = N
      BY <2>0
    <3> QED BY <1>1, <3>1, <3>2
  <2>3. ASSUME NEW l \in Loggers, <<l, m>> \in E, NEW p \in SimplePaths(r, l, E)
        PROVE  Append(p, m) \in W /\ Len(Append(p, m)) # 1
    <3> DEFINE q == Append(p, m)
    <3>1. p \in Seq(Loggers) /\ Len(p) <= N /\ IsWay("emit", r, l, E, p)
      BY <2>2
    <3>2. Len(p) \in Nat \ {0}
      BY <3>1, LenProperties, EmptySeq DEF IsWay
    <3>3. /\ q \in Seq(Loggers) /\ q # <<>> /\ Len(q) = Len(p) + 1
          /\ q[Len(p) + 1] = m /\ \A i \in 1 .. Len(p) : q[i] = p[i]
      BY <3>1, AppendProperties
    <3> HIDE DEF q
    <3>4. q[1] = r /\ q[Len(q)] = m
      BY <3>1, <3>2, <3>3 DEF IsWay
    <3>5. \A i, j \in 1 .. Len(q) - Slack(o) : q[i] = q[j] => i = j
      <4>1. Len(q) - Slack(o) = Len(p) /\ Len(p) - Slack("emit") = Len(p)
        BY <2>0, <3>2, <3>3
      <4> QED BY <3>1, <3>3, <4>1 DEF IsWay
    <3>6. ASSUME NEW i \in 1 .. Len(q) - 1 PROVE <<q[i], q[i + 1]>> \in E
      <4>1. i \in 1 .. Len(p)
        BY <3>2, <3>3
      <4>2. CASE i = Len(p)
        BY <2>3, <3>1, <3>3, <4>1, <4>2 DEF IsWay
      <4>3. CASE i # Len(p)
        <5>1. i \in 1 .. Len(p) - 1 /\ i + 1 \in 1 .. Len(p)
          BY <3>2, <4>1, <4>3
        <5> QED BY <3>1, <3>3, <4>1, <5>1 DEF IsWay
      <4> QED BY <4>2, <4>3
    <3>7. Len(q) <= N + 1 /\ Len(q) # 1
      BY <2>0, <3>1, <3>2, <3>3
    <3>8. IsWay(o, r, m, E, q)
      BY <3>3, <3>4, <3>5, <3>6 DEF IsWay
    <3> HIDE DEF W
    <3>9. q \in W
      BY <2>1, <3>3, <3>7, <3>8
    <3> QED BY <3>7, <3>9 DEF q
  <2>4. ASSUME NEW q \in W, Len(q) # 1 PROVE q \in U
    <3>0. q \in Seq(Loggers) /\ Len(q) <= N + 1 /\ IsWay(o, r, m, E, q)
      BY <2>1
    <3>1. Len(q) \in Nat /\ Len(q) > 1
      <4> HIDE DEF W, U, In, N
      <4>1. Len(q) \in Nat
        BY <3>0, LenProperties
      <4>2. Len(q) # 0
        BY <3>0, EmptySeq DEF IsWay
      <4>3. Len(q) # 1
        BY <2>4
      <4>4. \A n \in Nat : n # 0 /\ n # 1 => n > 1
        OBVIOUS
      <4> QED BY <4>1, <4>2, <4>3, <4>4
    <3>2. PICK k \in Nat \ {0} : Len(q) = k + 1
      <4> HIDE DEF W, U, In, N
      <4>1. Len(q) - 1 \in Nat \ {0} /\ Len(q) = (Len(q) - 1) + 1
        <5>1. \A n \in Nat : n > 1 => n - 1 \in Nat \ {0} /\ n = (n - 1) + 1
          OBVIOUS
        <5> QED BY <3>1, <5>1
      <4> QED BY <4>1
    <3> DEFINE p == [i \in 1 .. k |-> q[i]]
               l == q[k]
    <3>3. k \in 1 .. Len(q) /\ (\A i \in 1 .. k : i \in 1 .. Len(q))
      BY <3>1, <3>2
    <3>4. l \in Loggers /\ \A i \in 1 .. k : q[i] \in Loggers
      BY <3>0, <3>3, ElementOfSeq
    <3>5. p \in Seq(Loggers) /\ Len(p) = k /\ \A i \in 1 .. k : p[i] = q[i]
      BY <3>2, <3>4
    <3>6. Append(p, m) = q
      <4>1. /\ Append(p, m) \in Seq(Loggers) /\ Len(Append(p, m)) = k + 1
            /\ Append(p, m)[k + 1] = m /\ \A i \in 1 .. k : Append(p, m)[i] = q[i]
        <5> HIDE DEF p
        <5> QED BY <3>5, AppendProperties
      <4>2. q[k + 1] = m
        BY <3>0, <3>2 DEF IsWay
      <4>3. \A i \in 1 .. k + 1 : i = k + 1 \/ i \in 1 .. k
        BY <3>2
      <4>4. \A i \in 1 .. k + 1 : Append(p, m)[i] = q[i]
        <5> HIDE DEF p
        <5> QED BY <4>1, <4>2, <4>3
      <4> HIDE DEF p
      <4> QED BY <3>0, <3>2, <4>1, <4>4, SeqEqual
    <3>7. <<l, m>> \in E
      <4>1. k \in 1 .. Len(q) - 1 /\ q[k + 1] = m
        BY <3>0, <3>1, <3>2 DEF IsWay
      <4> QED BY <3>0, <4>1 DEF IsWay
    <3>8. p \in SimplePaths(r, l, E)
      <4>1. p # <<>> /\ p[1] = r /\ p[Len(p)] = l
        <5>1. p[1] = q[1] /\ p[k] = l /\ Len(p) # 0
          BY <3>2, <3>5
        <5> HIDE DEF p
        <5> QED BY <3>0, <3>5, <5>1, EmptySeq DEF IsWay
      <4>2. \A i, j \in 1 .. Len(p) - Slack("emit") : p[i] = p[j] => i = j
        <5>1. Len(p) - Slack("emit") = k /\ Len(q) - Slack(o) = k
          BY <2>0, <3>2, <3>5
        <5> HIDE DEF p
        <5> QED BY <3>0, <3>5, <5>1 DEF IsWay
      <4>3. \A i \in 1 .. Len(p) - 1 : <<p[i], p[i + 1]>> \in E
        <5> SUFFICES ASSUME NEW i \in 1 .. Len(p) - 1 PROVE <<p[i], p[i + 1]>> \in E
          OBVIOUS
        <5>1. i \in 1 .. k /\ i + 1 \in 1 .. k /\ i \in 1 .. Len(q) - 1
          BY <3>2, <3>5
        <5>2. p[i] = q[i] /\ p[i + 1] = q[i + 1]
          BY <3>5, <5>1
        <5>3. <<q[i], q[i + 1]>> \in E
          BY <3>0, <5>1 DEF IsWay
        <5> QED BY <5>2, <5>3
      <4>4. Len(p) <= N
        BY <2>0, <3>0, <3>2, <3>5
      <4> HIDE DEF p, l
      <4> QED BY <2>2, <3>5, <4>1, <4>2, <4>3, <4>4 DEF IsWay
    <3>9. q \in In(l)
      <4> HIDE DEF p
      <4> QED BY <3>6, <3>8
    <3> QED BY <3>4, <3>7, <3>9
  <2>5. ASSUME NEW q \in U PROVE q \in W /\ Len(q) # 1
    <3>1. PICK l \in Loggers : <<l, m>> \in E /\ q \in In(l)
      <4> HIDE DEF W, In
      <4> QED BY <2>5 DEF U
    <3>2. PICK p \in SimplePaths(r, l, E) : q = Append(p, m)
      BY <3>1
    <3> QED BY <2>3, <3>1, <3>2
  <2>6. /\ <<m>> \in Seq(Loggers) /\ Len(<<m>>) = 1
        /\ \A q \in Seq(Loggers) : Len(q) = 1 /\ q[Len(q)] = m => q = <<m>>
    <3>1. <<m>> \in Seq(Loggers) /\ Len(<<m>>) = 1 /\ <<m>>[1] = m
      OBVIOUS
    <3>2. ASSUME NEW q \in Seq(Loggers), Len(q) = 1, q[Len(q)] = m PROVE q = <<m>>
      <4>1. \A i \in 1 .. Len(q) : q[i] = <<m>>[i]
        BY <3>1, <3>2
      <4> QED BY <3>1, <3>2, <4>1, SeqEqual
    <3> QED BY <3>1, <3>2
  <2>7. <<m>> \in W <=> m = r
    <3>1. IsWay(o, r, m, E, <<m>>) <=> m = r
      BY <2>0, <2>6 DEF IsWay
    <3>2. Len(<<m>>) <= N + 1
      BY <2>0, <2>6
    <3> HIDE DEF W
    <3> QED BY <2>1, <2>6, <3>1, <3>2
  <2>8. \A q \in W : Len(q) = 1 => q = <<m>>
    BY <2>1, <2>6 DEF IsWay
  <2> HIDE DEF U, W
  <2>9. <<m>> \notin U /\ U \subseteq W
    BY <2>5, <2>6
  <2>10. W = IF m = r THEN U \cup {<<m>>} ELSE U
    BY <2>4, <2>7, <2>8, <2>9
  <2>11. IsFiniteSet(U)
    BY <2>1, <2>9, FS_Subset
  <2>12. Cardinality(U) \in Nat /\ Cardinality(U \cup {<<m>>}) = Cardinality(U) + 1
    BY <2>9, <2>11, FS_AddElement, FS_CardinalityType
  <2>13. Cardinality(W) = (IF m = r THEN 1 ELSE 0) + Cardinality(U)
    BY <2>10, <2>12
  <2> QED BY <2>13 DEF U, W, FlushVisits
<1> QED BY <1>1, <1>2

\* A call that takes one more way to l, and to no other logger, is counted so.
LEMMA OneMoreWay ==
  ASSUME NEW o \in {"emit", "flush"}, NEW l \in Loggers, NEW r, NEW T,
         NEW s, NEW c \in [Loggers -> Nat], NEW z, NEW Q, NEW m \in Loggers,
         c[m] = Cardinality(Taken(o, r, m, TiesOf(T), l, s)),
         Taken(o, r, m, TiesOf(T), NULL, z) =
           Taken(o, r, m, TiesOf(T), l, s) \cup (IF m = l THEN {Q} ELSE {}),
         Q \notin Taken(o, r, m, TiesOf(T), l, s)
  PROVE  [c EXCEPT ![l] = @ + 1][m] = Cardinality(Taken(o, r, m, TiesOf(T), NULL, z))
<1>1. PICK A : A = Taken(o, r, m, TiesOf(T), l, s)
  OBVIOUS
<1>2. IsFiniteSet(A)
  <2>1. IsFiniteSet(Ways(o, r, m, TiesOf(T)))
    BY WaysFinite
  <2>2. A \in SUBSET Ways(o, r, m, TiesOf(T))
    BY <1>1 DEF Taken
  <2> QED BY <2>1, <2>2, FS_Subset
<1>3. c[m] = Cardinality(A) /\ Q \notin A
  BY <1>1
<1>4. CASE m = l
  <2>1. Taken(o, r, m, TiesOf(T), NULL, z) = A \cup {Q}
    BY <1>1, <1>4
  <2>2. Cardinality(A \cup {Q}) = Cardinality(A) + 1
    BY <1>2, <1>3, FS_AddElement
  <2> QED BY <1>3, <1>4, <2>1, <2>2
<1>5. CASE m # l
  <2>1. Taken(o, r, m, TiesOf(T), NULL, z) = A
    BY <1>1, <1>5
  <2> QED BY <1>3, <1>5, <2>1
<1> QED BY <1>4, <1>5

\* A step of t that leaves the ties and the other threads alone need only be looked
\* at for t.
LEMMA CopiesOne ==
  ASSUME CopiesInv, NEW t \in Threads, ties' = ties,
         \A u \in Threads : u # t =>
            UNCHANGED <<op[u], root[u], target[u], stack[u], copies[u], stable[u]>>,
         Counted(ties, op'[t], root'[t], target'[t], stack'[t], copies'[t], stable'[t])
  PROVE  CopiesInv'
BY DEF CopiesInv

\* The calls: to a logger without ties, into a cycle, and with an activation.
LEMMA CallCopies ==
  ASSUME IInv, CopiesInv, NEW t \in Threads,
         EmitFast(t) \/ EmitTied(t) \/ EmitVisited(t) \/ FlushEnter(t)
  PROVE  CopiesInv'
<1> DEFINE l == target[t]
           s == stack[t]
           v == visited[t]
           r == root[t]
           f == [logger |-> l, at |-> "snap", todo |-> {}]
<1>1. /\ l \in Loggers /\ op[t] \in {"emit", "flush"} /\ s \in Seq(Frame)
      /\ v \in SUBSET Loggers /\ Nested(op[t], l, s, v)
  <2>1. l # NULL
    BY DEF EmitFast, EmitTied, EmitVisited, FlushEnter, Enter
  <2> QED BY <2>1, OfThread
<1>2. /\ ties \in [Loggers -> SUBSET Loggers] /\ copies[t] \in [Loggers -> Nat]
      /\ f \in Frame
  BY <1>1 DEF IInv, Types, Frame
<1>3. /\ ties' = ties /\ op' = op /\ root' = root /\ stable' = stable
      /\ target'[t] = NULL /\ \A u \in Threads : u # t => target'[u] = target[u]
  BY DEF EmitFast, EmitTied, EmitVisited, FlushEnter, Enter, IInv, Types
<1>4. Counted(ties, op[t], r, l, s, copies[t], stable[t])
  BY DEF CopiesInv
<1>5. ASSUME ReachSinks(t, l), NEW z, stack'[t] = z,
             \A u \in Threads : u # t => stack'[u] = stack[u],
             stable[t].clean =>
               /\ Walks(ties, r, NULL, z)
               /\ \A m \in Loggers :
                    /\ Taken(op[t], r, m, TiesOf(ties), NULL, z) =
                         Taken(op[t], r, m, TiesOf(ties), l, s)
                           \cup (IF m = l THEN {PathInto(l, s)} ELSE {})
                    /\ PathInto(l, s) \notin Taken(op[t], r, m, TiesOf(ties), l, s)
      PROVE  CopiesInv'
  <2>1. /\ copies'[t] = [copies[t] EXCEPT ![l] = @ + 1]
        /\ \A u \in Threads : u # t => copies'[u] = copies[u]
    BY <1>5 DEF ReachSinks, IInv, Types
  <2> HIDE DEF l, s, r, v
  <2>2. Counted(ties, op[t], r, NULL, z, copies'[t], stable[t])
    <3> SUFFICES ASSUME stable[t].clean
                 PROVE  /\ stable[t].edges = TiesOf(ties) /\ Walks(ties, r, NULL, z)
                        /\ \A m \in Loggers :
                             copies'[t][m] = Cardinality(Taken(op[t], r, m, TiesOf(ties), NULL, z))
      BY DEF Counted
    <3>1. \A m \in Loggers : copies[t][m] = Cardinality(Taken(op[t], r, m, TiesOf(ties), l, s))
      BY <1>4 DEF Counted
    <3>2. \A m \in Loggers :
            [copies[t] EXCEPT ![l] = @ + 1][m] =
              Cardinality(Taken(op[t], r, m, TiesOf(ties), NULL, z))
      <4> SUFFICES ASSUME NEW m \in Loggers
                   PROVE  [copies[t] EXCEPT ![l] = @ + 1][m] =
                            Cardinality(Taken(op[t], r, m, TiesOf(ties), NULL, z))
        OBVIOUS
      <4>1. copies[t][m] = Cardinality(Taken(op[t], r, m, TiesOf(ties), l, s))
        BY <3>1
      <4>2. /\ Taken(op[t], r, m, TiesOf(ties), NULL, z) =
                 Taken(op[t], r, m, TiesOf(ties), l, s)
                   \cup (IF m = l THEN {PathInto(l, s)} ELSE {})
            /\ PathInto(l, s) \notin Taken(op[t], r, m, TiesOf(ties), l, s)
        BY <1>5
      <4> QED BY <1>1, <1>2, <4>1, <4>2, OneMoreWay
    <3> QED BY <1>4, <1>5, <2>1, <3>2 DEF Counted
  <2>3. Counted(ties, op'[t], root'[t], target'[t], stack'[t], copies'[t], stable'[t])
    BY <1>3, <1>5, <2>2 DEF r
  <2>4. \A u \in Threads : u # t =>
          UNCHANGED <<op[u], root[u], target[u], stack[u], copies[u], stable[u]>>
    BY <1>3, <1>5, <2>1
  <2> QED BY <1>3, <2>3, <2>4, CopiesOne
<1>6. CASE EmitFast(t)
  <2>1. op[t] = "emit" /\ ties[l] = {} /\ ReachSinks(t, l) /\ stack' = stack
    BY <1>6 DEF EmitFast, Enter, Untied
  <2>2. stable[t].clean =>
          /\ Walks(ties, r, NULL, s)
          /\ \A m \in Loggers :
               /\ Taken(op[t], r, m, TiesOf(ties), NULL, s) =
                    Taken(op[t], r, m, TiesOf(ties), l, s)
                      \cup (IF m = l THEN {PathInto(l, s)} ELSE {})
               /\ PathInto(l, s) \notin Taken(op[t], r, m, TiesOf(ties), l, s)
    <3> HIDE DEF l, s, r, v, f
    <3>1. stable[t].clean => Walks(ties, r, l, s)
      BY <1>4 DEF Counted
    <3>2. Nested("emit", l, s, v)
      BY <1>1, <2>1
    <3>3. ASSUME stable[t].clean, NEW m \in Loggers
          PROVE  /\ Walks(ties, r, NULL, s)
                 /\ Taken("emit", r, m, TiesOf(ties), NULL, s) =
                      Taken("emit", r, m, TiesOf(ties), l, s)
                        \cup (IF m = l THEN {PathInto(l, s)} ELSE {})
                 /\ PathInto(l, s) \notin Taken("emit", r, m, TiesOf(ties), l, s)
      BY <1>1, <1>2, <2>1, <3>1, <3>2, <3>3, FastTakes
    <3> QED BY <1>1, <2>1, <3>3
  <2>3. stack'[t] = s /\ \A u \in Threads : u # t => stack'[u] = stack[u]
    BY <2>1
  <2> HIDE DEF l, s, r
  <2> QED BY <1>5, <2>1, <2>2, <2>3
<1>7. CASE EmitVisited(t)
  <2>1. op[t] = "emit" /\ l \in v /\ stack' = stack /\ copies' = copies
    BY <1>7 DEF EmitVisited, Enter, Unvisited
  <2> HIDE DEF l, s, r, v, f
  <2>2. Counted(ties, op[t], r, NULL, s, copies[t], stable[t])
    <3> SUFFICES ASSUME stable[t].clean
                 PROVE  Counted(ties, op[t], r, NULL, s, copies[t], stable[t])
      BY DEF Counted
    <3>1. Walks(ties, r, l, s)
      BY <1>4 DEF Counted
    <3>2. Nested("emit", l, s, v)
      BY <1>1, <2>1
    <3>3. ASSUME NEW m \in Loggers
          PROVE  /\ Walks(ties, r, NULL, s)
                 /\ Taken("emit", r, m, TiesOf(ties), NULL, s) =
                      Taken("emit", r, m, TiesOf(ties), l, s)
      BY <1>1, <1>2, <2>1, <3>1, <3>2, VisitedTakes
    <3> QED BY <1>1, <1>4, <2>1, <3>3 DEF Counted
  <2>3. Counted(ties, op'[t], root'[t], target'[t], stack'[t], copies'[t], stable'[t])
    BY <1>3, <2>1, <2>2 DEF r, s
  <2>4. \A u \in Threads : u # t =>
          UNCHANGED <<op[u], root[u], target[u], stack[u], copies[u], stable[u]>>
    BY <1>3, <2>1
  <2> QED BY <1>3, <2>3, <2>4, CopiesOne
<1>8. CASE EmitTied(t) \/ FlushEnter(t)
  <2>1. /\ op[t] = "flush" \/ l \notin v
        /\ ReachSinks(t, l) /\ Push(t, l)
    BY <1>8 DEF EmitTied, FlushEnter, Enter, Unvisited
  <2>2. stack'[t] = <<f>> \o s /\ \A u \in Threads : u # t => stack'[u] = stack[u]
    BY <2>1 DEF Push, IInv, Types
  <2>3. f.logger = l /\ f.at = "snap" /\ f.todo = {}
    OBVIOUS
  <2> HIDE DEF l, s, r, v, f
  <2>4. ASSUME stable[t].clean, NEW m \in Loggers
        PROVE  /\ Walks(ties, r, NULL, <<f>> \o s)
               /\ Taken(op[t], r, m, TiesOf(ties), NULL, <<f>> \o s) =
                    Taken(op[t], r, m, TiesOf(ties), l, s)
                      \cup (IF m = l THEN {PathInto(l, s)} ELSE {})
               /\ PathInto(l, s) \notin Taken(op[t], r, m, TiesOf(ties), l, s)
    <3>1. Walks(ties, r, l, s)
      BY <1>4, <2>4 DEF Counted
    <3> QED BY <1>1, <1>2, <2>1, <2>3, <3>1, CallTakes
  <2>5. stable[t].clean =>
          /\ Walks(ties, r, NULL, <<f>> \o s)
          /\ \A m \in Loggers :
               /\ Taken(op[t], r, m, TiesOf(ties), NULL, <<f>> \o s) =
                    Taken(op[t], r, m, TiesOf(ties), l, s)
                      \cup (IF m = l THEN {PathInto(l, s)} ELSE {})
               /\ PathInto(l, s) \notin Taken(op[t], r, m, TiesOf(ties), l, s)
    BY <1>1, <2>4
  <2> QED BY <1>5, <2>1, <2>2, <2>5
<1> QED BY <1>6, <1>7, <1>8

\* The snapshot, the calls and the return of the newest activation.
LEMMA WalkCopies ==
  ASSUME IInv, CopiesInv, NEW t \in Threads, Snapshot(t) \/ Forward(t) \/ Return(t)
  PROVE  CopiesInv'
<1> DEFINE s == stack[t]
           r == root[t]
           o == op[t]
           v == visited[t]
<1>1. /\ o \in {"emit", "flush"} /\ s \in Seq(Frame) /\ s # <<>> /\ v \in SUBSET Loggers
      /\ target[t] = NULL /\ Nested(o, NULL, s, v)
      /\ s[1] \in Frame /\ Top(t) = s[1]
  <2>1. target[t] = NULL /\ s # <<>>
    BY DEF Snapshot, CopyTies, Forward, Return
  <2> QED BY <2>1, OfThread
<1>2. ties \in [Loggers -> SUBSET Loggers]
  BY DEF IInv, Types
<1>3. /\ ties' = ties /\ op' = op /\ root' = root /\ stable' = stable /\ copies' = copies
      /\ \A u \in Threads : u # t => target'[u] = target[u] /\ stack'[u] = stack[u]
  BY DEF Snapshot, CopyTies, Forward, Return, history, IInv, Types
<1>4. Counted(ties, o, r, NULL, s, copies[t], stable[t])
  BY <1>1 DEF CopiesInv
<1>5. ASSUME NEW tg, NEW z, target'[t] = tg, stack'[t] = z,
             stable[t].clean =>
               /\ Walks(ties, r, tg, z)
               /\ \A m \in Loggers :
                    Taken(o, r, m, TiesOf(ties), tg, z) = Taken(o, r, m, TiesOf(ties), NULL, s)
      PROVE  CopiesInv'
  <2> HIDE DEF s, r, o, v
  <2>1. Counted(ties, o, r, tg, z, copies[t], stable[t])
    BY <1>4, <1>5 DEF Counted
  <2>2. Counted(ties, op'[t], root'[t], target'[t], stack'[t], copies'[t], stable'[t])
    BY <1>3, <1>5, <2>1 DEF r, o
  <2>3. \A u \in Threads : u # t =>
          UNCHANGED <<op[u], root[u], target[u], stack[u], copies[u], stable[u]>>
    BY <1>3
  <2> QED BY <1>3, <2>2, <2>3, CopiesOne
<1>6. stable[t].clean => Walks(ties, r, NULL, s)
  BY <1>4 DEF Counted
<1>7. s[1].logger \in Loggers /\ s[1].todo \subseteq Loggers
  BY <1>1 DEF Frame
<1>8. CASE Snapshot(t)
  <2> DEFINE f == [s[1] EXCEPT !.at = "forward", !.todo = ties[s[1].logger]]
  <2>1. /\ s[1].at = "snap" /\ target'[t] = NULL
        /\ stack'[t] = IF o = "flush" /\ s[1].logger \in v THEN Tail(s)
                       ELSE [s EXCEPT ![1] = f]
    <3>1. /\ s[1].at = "snap" /\ target' = target /\ stack \in [Threads -> Seq(Frame)]
          /\ stack' = IF o = "flush" /\ s[1].logger \in v
                      THEN [stack EXCEPT ![t] = Tail(@)]
                      ELSE [stack EXCEPT ![t][1] = [@ EXCEPT !.at = "forward",
                                                             !.todo = ties[s[1].logger]]]
      BY <1>1, <1>8 DEF Snapshot, CopyTies, IInv, Types
    <3> QED BY <1>1, <3>1
  <2>2. f \in Frame /\ f.logger = s[1].logger /\ f.at = "forward" /\ f.todo = ties[f.logger]
    BY <1>1, <1>2, <1>7 DEF Frame
  <2> HIDE DEF s, r, o, v, f
  <2>3. ASSUME stable[t].clean, NEW m \in Loggers
        PROVE  /\ Walks(ties, r, NULL, [s EXCEPT ![1] = f])
               /\ Taken(o, r, m, TiesOf(ties), NULL, [s EXCEPT ![1] = f]) =
                    Taken(o, r, m, TiesOf(ties), NULL, s)
               /\ o = "flush" /\ f.logger \in v =>
                    /\ Walks(ties, r, NULL, Tail(s))
                    /\ Taken(o, r, m, TiesOf(ties), NULL, Tail(s)) =
                         Taken(o, r, m, TiesOf(ties), NULL, s)
    BY <1>1, <1>2, <1>6, <2>1, <2>2, <2>3, SnapshotTakes
  <2>4. stable[t].clean =>
          /\ Walks(ties, r, NULL, stack'[t])
          /\ \A m \in Loggers :
               Taken(o, r, m, TiesOf(ties), NULL, stack'[t]) =
                 Taken(o, r, m, TiesOf(ties), NULL, s)
    BY <1>7, <2>1, <2>2, <2>3
  <2> QED BY <1>5, <2>1, <2>4
<1>9. CASE Forward(t)
  <2>1. PICK l \in s[1].todo : /\ target' = [target EXCEPT ![t] = l]
                               /\ stack' = [stack EXCEPT ![t][1].todo = @ \ {l}]
    BY <1>1, <1>9 DEF Forward
  <2> DEFINE f == [s[1] EXCEPT !.todo = @ \ {l}]
  <2>2. s[1].at = "forward" /\ target'[t] = l /\ stack'[t] = [s EXCEPT ![1] = f]
    BY <1>1, <1>9, <2>1 DEF Forward, IInv, Types
  <2>3. /\ f \in Frame /\ f.logger = s[1].logger /\ f.at = "forward"
        /\ f.todo = s[1].todo \ {l} /\ l # NULL
    BY <1>1, <1>7, <2>2, ConstantsAssumption DEF Frame
  <2> HIDE DEF s, r, o, v, f
  <2>4. ASSUME stable[t].clean, NEW m \in Loggers
        PROVE  /\ Walks(ties, r, l, [s EXCEPT ![1] = f])
               /\ Taken(o, r, m, TiesOf(ties), l, [s EXCEPT ![1] = f]) =
                    Taken(o, r, m, TiesOf(ties), NULL, s)
    <3>1. o \in {"emit", "flush"} /\ s \in Seq(Frame) /\ s # <<>> /\ s[1].at = "forward"
      BY <1>1, <2>2
    <3>2. Walks(ties, r, NULL, s)
      BY <1>6, <2>4
    <3> QED BY <2>3, <3>1, <3>2, ForwardTakes
  <2> QED BY <1>5, <1>7, <2>2, <2>4
<1>10. CASE Return(t)
  <2>1. s[1].at = "forward" /\ s[1].todo = {} /\ target'[t] = NULL /\ stack'[t] = Tail(s)
    BY <1>1, <1>10 DEF Return, IInv, Types
  <2> HIDE DEF s, r, o, v
  <2>2. ASSUME stable[t].clean, NEW m \in Loggers
        PROVE  /\ Walks(ties, r, NULL, Tail(s))
               /\ Taken(o, r, m, TiesOf(ties), NULL, Tail(s)) =
                    Taken(o, r, m, TiesOf(ties), NULL, s)
    BY <1>1, <1>6, <2>1, <2>2, ReturnTakes
  <2> QED BY <1>5, <1>7, <2>1, <2>2
<1> QED BY <1>8, <1>9, <1>10

\* A chain begins with no way taken; a change of the ties ends what is promised of
\* the chains that are under way.
LEMMA BeginCopies ==
  ASSUME IInv, CopiesInv, NEW t \in Threads, Begin(t)
  PROVE  CopiesInv'
<1>1. ASSUME NEW o \in {"emit", "flush"}, NEW l \in Loggers, Start(t, o, l)
      PROVE  CopiesInv'
  <2> DEFINE st == [edges |-> Edges, clean |-> TRUE]
             c == [m \in Loggers |-> 0]
  <2>1. /\ op'[t] = o /\ target'[t] = l /\ root'[t] = l /\ copies'[t] = c /\ stable'[t] = st
        /\ stack' = stack /\ ties' = ties /\ stack[t] = <<>>
        /\ \A u \in Threads : u # t =>
             UNCHANGED <<op[u], root[u], target[u], stack[u], copies[u], stable[u]>>
    BY <1>1 DEF Start, Busy, IInv, Types
  <2>2. st.edges = TiesOf(ties)
    BY DEF Edges, TiesOf
  <2>3. Walks(ties, l, l, <<>>)
    <3>1. Len(<<>>) = 0 /\ 1 .. 0 = {}
      OBVIOUS
    <3>2. Entered(l, <<>>, 1) = l
      BY <3>1 DEF Entered
    <3> QED BY <3>1, <3>2 DEF Walks
  <2>4. ASSUME NEW m \in Loggers PROVE Taken(o, l, m, TiesOf(ties), l, <<>>) = {}
    <3>1. Len(<<>>) = 0
      OBVIOUS
    <3>2. ASSUME NEW q \in Ways(o, l, m, TiesOf(ties)) PROVE Follows(l, <<>>, q)
      <4>1. q \in Seq(Loggers) /\ q # <<>> /\ q[1] = l
        BY WaysFinite DEF IsWay
      <4>2. Len(q) \in Nat /\ Len(q) # 0
        BY <4>1, LenProperties, EmptySeq
      <4>3. \A k \in 1 .. Len(<<>>) + 1 : q[k] = Entered(l, <<>>, k)
        BY <3>1, <4>1 DEF Entered
      <4> QED BY <3>1, <4>2, <4>3, ConstantsAssumption DEF Follows
    <3> QED BY <3>2 DEF Taken
  <2>5. \A m \in Loggers : c[m] = Cardinality(Taken(o, l, m, TiesOf(ties), l, <<>>))
    BY <2>4, FS_EmptySet
  <2> HIDE DEF st, c
  <2>6. Counted(ties, o, l, l, <<>>, c, st)
    BY <2>2, <2>3, <2>5 DEF Counted
  <2>7. Counted(ties, op'[t], root'[t], target'[t], stack'[t], copies'[t], stable'[t])
    BY <2>1, <2>6
  <2> QED BY <2>1, <2>7, CopiesOne
<1>2. ASSUME NEW l \in Loggers, NEW m \in Loggers, Tie(t, l, m) \/ Untie(t, l, m)
      PROVE  CopiesInv'
  <2>1. \A u \in Threads : ~stable'[u].clean
    BY <1>2 DEF Tie, Untie, IInv, Types
  <2> QED BY <2>1 DEF CopiesInv, Counted
<1> QED BY <1>1, <1>2 DEF Begin

\* A chain's copies are, at any time, the ways it has taken.
LEMMA CopiesInvariance == Spec => []CopiesInv
<1>1. Init => CopiesInv
  <2> SUFFICES ASSUME Init, NEW t \in Threads
               PROVE  Counted(ties, op[t], root[t], target[t], stack[t], copies[t], stable[t])
    BY DEF CopiesInv
  <2> DEFINE c == [m \in Loggers |-> 0]
             st == [edges |-> {}, clean |-> TRUE]
  <2>1. /\ op[t] = "emit" /\ root[t] = NULL /\ target[t] = NULL /\ stack[t] = <<>>
        /\ copies[t] = c /\ stable[t] = st
    BY DEF Init
  <2>2. TiesOf(ties) = {}
    BY DEF Init, TiesOf
  <2>3. Walks(ties, NULL, NULL, <<>>)
    <3>1. Len(<<>>) = 0 /\ 1 .. 0 = {}
      OBVIOUS
    <3>2. Entered(NULL, <<>>, 1) = NULL
      BY <3>1 DEF Entered
    <3> QED BY <3>1, <3>2 DEF Walks
  <2>4. ASSUME NEW m \in Loggers PROVE Taken("emit", NULL, m, TiesOf(ties), NULL, <<>>) = {}
    <3>1. ASSUME NEW q \in Ways("emit", NULL, m, TiesOf(ties)) PROVE FALSE
      <4>1. q \in Seq(Loggers) /\ q # <<>> /\ q[1] = NULL
        BY WaysFinite DEF IsWay
      <4>2. Len(q) \in Nat /\ Len(q) # 0
        BY <4>1, LenProperties, EmptySeq
      <4>3. q[1] \in Loggers
        BY <4>1, <4>2, ElementOfSeq
      <4> QED BY <4>1, <4>3, ConstantsAssumption
    <3> QED BY <3>1 DEF Taken
  <2>5. \A m \in Loggers : c[m] = Cardinality(Taken("emit", NULL, m, TiesOf(ties), NULL, <<>>))
    BY <2>4, FS_EmptySet
  <2>6. st.edges = TiesOf(ties)
    BY <2>2
  <2> HIDE DEF c, st
  <2>7. Counted(ties, "emit", NULL, NULL, <<>>, c, st)
    BY <2>3, <2>5, <2>6 DEF Counted
  <2> QED BY <2>1, <2>7
<1>2. IInv /\ CopiesInv /\ [Next]_vars => CopiesInv'
  <2> SUFFICES ASSUME IInv, CopiesInv, [Next]_vars PROVE CopiesInv' OBVIOUS
  <2>1. CASE UNCHANGED vars
    BY <2>1 DEF vars, CopiesInv
  <2>2. ASSUME NEW t \in Threads, Step(t) PROVE CopiesInv'
    BY <2>2, CallCopies, WalkCopies DEF Step
  <2>3. ASSUME NEW t \in Threads, Begin(t) PROVE CopiesInv'
    BY <2>3, BeginCopies
  <2> QED BY <2>1, <2>2, <2>3 DEF Next, Quiet
<1> QED BY <1>1, <1>2, Invariance, PTL DEF Spec

\* When emit() or flush() returns and nobody has changed a tie since it was called,
\* each logger's sinks have had the line once per simple path from the root, and
\* flush() has flushed them once per way in.
THEOREM EveryWayOnce == Spec => ExactCopies
<1>1. ASSUME IInv, CopiesInv', [Next]_vars, NEW t \in Threads, Busy(t), ~Busy(t)',
             stable[t].clean, NEW m \in Loggers
      PROVE  copies'[t][m] =
               IF op[t] = "emit"
               THEN Cardinality(SimplePaths(root[t], m, stable[t].edges))
               ELSE FlushVisits(root[t], m, stable[t].edges)
  <2>1. root'[t] = root[t] /\ stable'[t] = stable[t] /\ op'[t] = op[t]
    <3>1. \/ \E u \in Threads : Step(u) /\ UNCHANGED <<root, stable, op>>
          \/ \E u \in Threads : Begin(u)
          \/ UNCHANGED vars
      BY <1>1 DEF Next, Quiet, Step, EmitFast, EmitTied, EmitVisited, FlushEnter, Enter,
                  Snapshot, CopyTies, Forward, Return, history
    <3>2. \A u \in Threads : ~Begin(u)
      BY <1>1 DEF Begin, Start, Tie, Untie, Configure, Busy, IInv, Types
    <3>3. ~UNCHANGED vars
      BY <1>1 DEF vars, Busy
    <3> QED BY <3>1, <3>2, <3>3
  <2>2. target'[t] = NULL /\ stack'[t] = <<>>
    BY <1>1 DEF Busy
  <2>3. PICK T : T = ties'
    OBVIOUS
  <2>4. Counted(T, op[t], root[t], NULL, <<>>, copies'[t], stable[t])
    <3>1. Counted(ties', op'[t], root'[t], target'[t], stack'[t], copies'[t], stable'[t])
      BY <1>1 DEF CopiesInv
    <3> QED BY <2>1, <2>2, <2>3, <3>1
  <2>5. /\ stable[t].edges = TiesOf(T)
        /\ copies'[t][m] = Cardinality(Taken(op[t], root[t], m, TiesOf(T), NULL, <<>>))
    BY <1>1, <2>4 DEF Counted
  <2>6. Taken(op[t], root[t], m, TiesOf(T), NULL, <<>>) = Ways(op[t], root[t], m, TiesOf(T))
    <3>1. 1 .. Len(<<>>) = {}
      OBVIOUS
    <3>2. \A q : ~Left(<<>>, q) /\ ~Follows(NULL, <<>>, q)
      BY <3>1 DEF Left, Follows
    <3> QED BY <3>2 DEF Taken
  <2>7. op[t] \in {"emit", "flush"}
    BY <1>1, OfThread
  <2>8. Cardinality(Ways(op[t], root[t], m, TiesOf(T))) =
          IF op[t] = "emit" THEN Cardinality(SimplePaths(root[t], m, TiesOf(T)))
          ELSE FlushVisits(root[t], m, TiesOf(T))
    BY <2>7, WaysCounted
  <2> QED BY <2>5, <2>6, <2>8
<1>2. IInv /\ CopiesInv' /\ [Next]_vars =>
        [\A t \in Threads : Busy(t) /\ ~Busy(t)' /\ stable[t].clean =>
            \A m \in Loggers :
               copies'[t][m] =
                 IF op[t] = "emit"
                 THEN Cardinality(SimplePaths(root[t], m, stable[t].edges))
                 ELSE FlushVisits(root[t], m, stable[t].edges)]_vars
  BY <1>1
<1> QED BY <1>2, Invariance, CopiesInvariance, PTL DEF Spec, ExactCopies

-----------------------------------------------------------------------------
(* The registry.  What a name stands for is what it owns, the default      *)
(* logger, or nothing; and as long as nobody asked for the default         *)
(* logger's name too early or removed it, that name and the references     *)
(* obtained with it lead to one logger.                                    *)

\* The shape of the variables, which TypeOK leaves to the actions.
RegistryShapes ==
    /\ owned \in [Names -> Nat \cup {None}]
    /\ all \in [Names -> Nat \cup {None}]
    /\ made \in Nat
    /\ guard \in Clients \cup {None}
    /\ default \in Nat \cup {None}
    /\ held \in [Clients -> [name : Names, logger : Nat] \cup {None}]
    /\ \A t \in Clients : held[t] # None => held[t].logger \in 1 .. made

\* The default logger exists once its initialization has begun.
DefaultInv == default = None <=> init = "none"

\* A name that owns a logger stands for it; only Default may stand for another.
AliasInv ==
    \A n \in Names : all[n] # owned[n] => n = Default /\ all[n] = default

\* Without a split, Default stands for nothing before the registration, and
\* nobody has a reference by that name.
UnsplitInv ==
    split = {} /\ init \in {"none", "constructed"} =>
        /\ all[Default] = None
        /\ \A t \in Clients : held[t] # None => held[t].name # Default

RegistryInv ==
    /\ RegistryShapes /\ RegistryTypeOK
    /\ DefaultInv /\ AliasInv /\ UnsplitInv /\ ReferencesAgree

USE RegistryAssumption

-----------------------------------------------------------------------------
(* The invariant holds at the start.                                       *)

\* At the start no logger exists and every name is unknown.
LEMMA RegistryInitially ==
  RegistryInit => RegistryInv
<1> SUFFICES ASSUME RegistryInit PROVE RegistryInv OBVIOUS
<1>1. RegistryShapes BY DEF RegistryInit, RegistryShapes
<1>2. RegistryTypeOK
  <2>1. Owned = {} BY DEF RegistryInit, Owned
  <2>2. alive = Owned \cup ({default} \ {None}) BY <2>1 DEF RegistryInit
  <2>3. made = 0 /\ made <= MaxLoggers BY RegistryAssumption DEF RegistryInit
  <2>4. removes \in 0 .. MaxRemoves BY RegistryAssumption DEF RegistryInit
  <2>5. \A n \in Names : owned[n] = None /\ all[n] = None BY DEF RegistryInit
  <2>6. /\ default \notin Owned \ {None}
        /\ alive \subseteq 1 .. made
        /\ split \subseteq {"early", "removed"}
        /\ init = "none" /\ guard = None
    BY <2>1 DEF RegistryInit
  <2> QED BY <2>2, <2>3, <2>4, <2>5, <2>6 DEF RegistryTypeOK
<1>3. DefaultInv BY DEF RegistryInit, DefaultInv
<1>4. AliasInv BY DEF RegistryInit, AliasInv
<1>5. UnsplitInv BY RegistryAssumption DEF RegistryInit, UnsplitInv
<1>6. ReferencesAgree BY DEF RegistryInit, ReferencesAgree, DefaultIsFound
<1> QED BY <1>1, <1>2, <1>3, <1>4, <1>5, <1>6 DEF RegistryInv

-----------------------------------------------------------------------------
(* Every step keeps it: one lemma per operation, one step per part of IInv. *)

\* A look-up that finds its name.
LEMMA FindStep ==
  ASSUME RegistryInv, NEW t \in Clients, NEW n \in Names, Find(t, n)
  PROVE  RegistryInv'
<1>1. RegistryShapes'
  BY DEF Find, Known, Hold, RegistryInv, RegistryShapes, RegistryTypeOK
<1>2. RegistryTypeOK'
  BY DEF Find, RegistryInv, RegistryTypeOK, Owned
<1>3. DefaultInv'
  BY DEF Find, RegistryInv, DefaultInv
<1>4. AliasInv'
  BY DEF Find, RegistryInv, AliasInv
<1>5. UnsplitInv'
  BY DEF Find, Known, Hold, RegistryInv, UnsplitInv
<1>6. ReferencesAgree'
  BY DEF Find, Known, Hold, RegistryInv, ReferencesAgree, DefaultIsFound
<1> QED BY <1>1, <1>2, <1>3, <1>4, <1>5, <1>6 DEF RegistryInv

\* get_logger() of an unknown name.
LEMMA CreateStep ==
  ASSUME RegistryInv, NEW t \in Clients, NEW n \in Names, Create(t, n)
  PROVE  RegistryInv'
<1>1. RegistryShapes'
  BY DEF Create, Construct, Hold, RegistryInv, RegistryShapes
<1>2. RegistryTypeOK'
  BY DEF Create, Construct, Known, RegistryInv, RegistryShapes, RegistryTypeOK, Owned
<1>3. DefaultInv'
  BY DEF Create, RegistryInv, DefaultInv
<1>4. AliasInv'
  BY DEF Create, RegistryInv, RegistryShapes, AliasInv
<1>5. UnsplitInv'
  BY DEF Create, Known, Hold, RegistryInv, RegistryShapes, DefaultInv, UnsplitInv
<1>6. ReferencesAgree'
  <2>1. DefaultIsFound'
    BY DEF Create, Known, RegistryInv, RegistryShapes, DefaultInv, ReferencesAgree,
           DefaultIsFound
  <2>2. ASSUME NEW u \in Clients, held'[u] # None, held'[u].logger \in alive'
        PROVE  \/ held'[u].logger = all'[held'[u].name]
               \/ /\ held'[u].name = Default /\ split' # {}
                  /\ held'[u].logger \in {default', owned'[Default]}
    <3>1. CASE u = t
      BY <3>1 DEF Create, Hold, RegistryInv, RegistryShapes
    <3>2. CASE u # t
      <4>1. held'[u] = held[u] /\ split \subseteq split' /\ default' = default
        BY <3>2 DEF Create, Hold, RegistryInv, RegistryShapes
      <4>2. held[u].logger # made + 1 /\ held[u].logger \in alive
        BY <2>2, <4>1 DEF Create, Construct, RegistryInv, RegistryShapes
      <4>3. held[u].logger # None /\ owned[n] = None
        BY <2>2, <4>1 DEF Create, Known, RegistryInv, RegistryShapes, RegistryTypeOK
      <4> QED BY <2>2, <4>1, <4>2, <4>3
           DEF Create, Known, RegistryInv, RegistryShapes, ReferencesAgree
    <3> QED BY <3>1, <3>2
  <2> QED BY <2>1, <2>2 DEF ReferencesAgree
<1> QED BY <1>1, <1>2, <1>3, <1>4, <1>5, <1>6 DEF RegistryInv

\* remove_logger().
LEMMA RemoveStep ==
  ASSUME RegistryInv, NEW n \in Names, RemoveLogger(n)
  PROVE  RegistryInv'
<1>1. RegistryShapes'
  BY DEF RemoveLogger, Forgotten, Without, RegistryInv, RegistryShapes
<1>2. RegistryTypeOK'
  BY DEF RemoveLogger, Forgotten, Without, RegistryInv, RegistryShapes, RegistryTypeOK, Owned, AliasInv
<1>3. DefaultInv'
  BY DEF RemoveLogger, RegistryInv, DefaultInv
<1>4. AliasInv'
  BY DEF RemoveLogger, Forgotten, Without, RegistryInv, RegistryShapes, AliasInv
<1>5. UnsplitInv'
  BY DEF RemoveLogger, Forgotten, Without, RegistryInv, RegistryShapes, UnsplitInv
<1>6. ReferencesAgree'
  BY DEF RemoveLogger, Forgotten, Without, RegistryInv, RegistryShapes, AliasInv,
         ReferencesAgree, DefaultIsFound
<1> QED BY <1>1, <1>2, <1>3, <1>4, <1>5, <1>6 DEF RegistryInv

\* The construction of the default logger, and its later uses.
LEMMA DefaultStep ==
  ASSUME RegistryInv, NEW t \in Clients,
         BeginDefault(t) \/ UseDefault(t) \/ RegisterDefault \/ EndDefault
  PROVE  RegistryInv'
<1>1. RegistryShapes'
  BY DEF BeginDefault, UseDefault, RegisterDefault, EndDefault, Construct, Hold,
         RegistryInv, RegistryShapes, RegistryTypeOK, DefaultInv
<1>2. RegistryTypeOK'
  <2>1. CASE BeginDefault(t)
    BY <2>1 DEF BeginDefault, Construct, RegistryInv, RegistryShapes, RegistryTypeOK, Owned,
                DefaultInv
  <2>2. CASE RegisterDefault
    BY <2>2 DEF RegisterDefault, RegistryInv, RegistryShapes, RegistryTypeOK, Owned, DefaultInv
  <2>3. CASE UseDefault(t)
    BY <2>3 DEF UseDefault, RegistryInv, RegistryTypeOK, Owned
  <2>4. CASE EndDefault
    BY <2>4 DEF EndDefault, RegistryInv, RegistryTypeOK, Owned
  <2> QED BY <2>1, <2>2, <2>3, <2>4
<1>3. DefaultInv'
  BY DEF BeginDefault, UseDefault, RegisterDefault, EndDefault, Construct, RegistryInv,
         RegistryShapes, DefaultInv
<1>4. AliasInv'
  BY DEF BeginDefault, UseDefault, RegisterDefault, EndDefault, RegistryInv, RegistryShapes,
         RegistryTypeOK, DefaultInv, AliasInv
<1>5. UnsplitInv'
  BY DEF BeginDefault, UseDefault, RegisterDefault, EndDefault, RegistryInv, RegistryShapes,
         UnsplitInv
<1>6. ReferencesAgree'
  <2>1. DefaultIsFound'
    <3>1. CASE RegisterDefault
      BY <3>1 DEF RegisterDefault, RegistryInv, RegistryShapes, DefaultIsFound
    <3>2. CASE BeginDefault(t)
      BY <3>2 DEF BeginDefault, DefaultIsFound
    <3>3. CASE UseDefault(t) \/ EndDefault
      BY <3>3 DEF UseDefault, EndDefault, RegistryInv, ReferencesAgree, DefaultIsFound
    <3> QED BY <3>1, <3>2, <3>3
  <2>2. ASSUME NEW u \in Clients, held'[u] # None, held'[u].logger \in alive'
        PROVE  \/ held'[u].logger = all'[held'[u].name]
               \/ /\ held'[u].name = Default /\ split' # {}
                  /\ held'[u].logger \in {default', owned'[Default]}
    <3>1. CASE UseDefault(t)
      BY <2>2, <3>1 DEF UseDefault, Hold, RegistryInv, RegistryShapes, ReferencesAgree,
                        DefaultIsFound
    <3>2. CASE EndDefault
      BY <2>2, <3>2 DEF EndDefault, Hold, RegistryInv, RegistryShapes, ReferencesAgree,
                        DefaultIsFound
    <3>3. CASE BeginDefault(t)
      <4>1. held[u] # None /\ held[u].logger \in 1 .. made /\ made \in Nat
        BY <2>2, <3>3 DEF BeginDefault, RegistryInv, RegistryShapes
      <4>2. held[u].logger \in alive /\ held[u].logger # default
        BY <2>2, <3>3, <4>1 DEF BeginDefault, Construct, RegistryInv, DefaultInv
      <4> QED BY <3>3, <4>1, <4>2 DEF BeginDefault, RegistryInv, ReferencesAgree
    <3>4. CASE RegisterDefault
      <4>1. held[u].name = Default => split # {}
        BY <2>2, <3>4 DEF RegisterDefault, RegistryInv, UnsplitInv
      <4>2. all[Default] \in {default, owned[Default]}
        BY RegistryAssumption DEF RegistryInv, AliasInv
      <4> QED BY <2>2, <3>4, <4>1, <4>2 DEF RegisterDefault, RegistryInv, RegistryShapes,
                                            ReferencesAgree
    <3> QED BY <3>1, <3>2, <3>3, <3>4
  <2> QED BY <2>1, <2>2 DEF ReferencesAgree
<1> QED BY <1>1, <1>2, <1>3, <1>4, <1>5, <1>6 DEF RegistryInv

-----------------------------------------------------------------------------
(* The invariant holds always, and the properties with it.                 *)

\* Every step, or none, keeps the invariant.
LEMMA RegistryKept ==
  RegistryInv /\ [RegistryNext]_registryVars => RegistryInv'
<1> SUFFICES ASSUME RegistryInv, [RegistryNext]_registryVars PROVE RegistryInv' OBVIOUS
<1>1. CASE UNCHANGED registryVars
  BY <1>1 DEF registryVars, RegistryInv, RegistryShapes, RegistryTypeOK, Owned, DefaultInv,
              AliasInv, UnsplitInv,
              ReferencesAgree, DefaultIsFound
<1>2. CASE \E t \in Clients : BeginDefault(t) \/ UseDefault(t)
  BY <1>2, DefaultStep
<1>3. CASE \E t \in Clients, n \in Names : Find(t, n) \/ Create(t, n)
  BY <1>3, FindStep, CreateStep
<1>4. CASE \E n \in Names : RemoveLogger(n)
  BY <1>4, RemoveStep
<1>5. CASE RegisterDefault \/ EndDefault
  <2>1. PICK t \in Clients : guard = t
    BY <1>5 DEF RegisterDefault, EndDefault, RegistryInv, RegistryShapes, RegistryTypeOK
  <2> QED BY <1>5, DefaultStep
<1> QED BY <1>1, <1>2, <1>3, <1>4, <1>5 DEF RegistryNext

\* The inductive invariant holds in every reachable state.
LEMMA RegistryInvariance ==
  RegistrySpec => []RegistryInv
<1> QED BY RegistryInitially, RegistryKept, PTL DEF RegistrySpec

\* For any threads, names and bounds: no name of the registry leads to a
\* destroyed logger, no logger is owned twice, and the loggers alive are the
\* owned ones and the default logger.
THEOREM RegistryTypeCorrect ==
  RegistrySpec => []RegistryTypeOK
<1>1. RegistryInv => RegistryTypeOK BY DEF RegistryInv
<1> QED BY <1>1, RegistryInvariance, PTL

\* For any threads, names and bounds: a reference to a live logger is what the
\* registry has under the name it was obtained with; "default" alone may mean two
\* loggers, the default logger and one the registry owns, once
\* get_logger("default") came before the registration or the name was removed; and
\* it finds the default logger from the registration on until it is removed.
THEOREM NamesAgree ==
  RegistrySpec => []ReferencesAgree
<1>1. RegistryInv => ReferencesAgree BY DEF RegistryInv
<1> QED BY <1>1, RegistryInvariance, PTL

=============================================================================
