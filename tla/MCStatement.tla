---------------------------- MODULE MCStatement ----------------------------
(***************************************************************************)
(* Statements for TLC: every format of up to four characters, every value  *)
(* of a few shapes nested to depth three, packs, and renderers that log.   *)
(* The scratch buffer has 20 bytes, six of them taken by the prologue,     *)
(* so that most lines fit; a filler in front makes the others run short.   *)
(***************************************************************************)
EXTENDS StatementLines

Text(s)      == [kind |-> "text", text |-> s]
Number(v)    == [kind |-> "int", v |-> v]
Based(k, v)  == [kind |-> k, v |-> v]
Shown(k, s)  == [kind |-> k, text |-> s]
Char(c)      == [kind |-> "char", c |-> c]
Dump(n)      == [kind |-> "hexdump", n |-> n]
Null         == [kind |-> "nullable", of |-> <<>>]
NotNull(v)   == [kind |-> "nullable", of |-> <<v>>]
Pad(v, w, l) == [kind |-> "padded", of |-> v, width |-> w, left |-> l]
Parted(open, close, seps, parts) ==
  [kind |-> "parts", open |-> open, close |-> close, seps |-> seps, parts |-> parts]
Commas       == <<<<>>, <<",", " ">>, <<",", " ">>>>
Vector(ps)   == Parted(<<"[">>, <<"]">>, Commas, ps)
Join(ps)     == Parted(<<>>, <<>>, <<<<>>, <<"+">>, <<"+">>>>, ps)
Map(k, v)    == Parted(<<"M">>, <<"M">>, <<<<>>, <<":", " ">>>>, <<k, v>>)
Pack(alloc, ps) == [kind |-> "pack", alloc |-> alloc, parts |-> ps]
Logs(st, s)  == [kind |-> "logs", stmt |-> st, text |-> s]

Stmt(lvl, fmt, args) == [lvl |-> lvl, cond |-> TRUE, fmt |-> fmt, args |-> args]
If(cond, st)         == [st EXCEPT !.cond = cond]
OneHole  == <<"{", "}">>
TwoHoles == <<"{", "}", "x", "{", "}">>

Formats == UNION {[1..n -> {"{", "}", "x"}] : n \in 0..4}
FormatStatements == {Stmt(3, f, <<Number(3), Text(<<"t">>)>>) : f \in Formats}

Words == {<<>>, <<"a", "b">>, <<"a", "'", "raw", "b">>}
Leaves ==
  {Text(s) : s \in Words} \cup {Char("c"), Null, Dump(2), Dump(3)}
  \cup {Number(v) : v \in {-8, -1, 0, 7}}
  \cup {Based(k, 12) : k \in {"hex", "bin", "oct", "pointer"}}
  \cup {Shown(k, <<"a", "b">>) : k \in {"float", "fixed", "time"}}
  \cup {Shown(k, s) : k \in {"quoted", "escaped"}, s \in Words}

Few == {Text(<<"a", "b">>), Text(<<>>), Number(-8), Shown("fixed", <<"a", "b">>),
        Shown("escaped", <<"raw", "b">>)}

Composite(vs) ==
  {Pad(v, w, l) : v \in vs, w \in {0, 3, 5}, l \in BOOLEAN}
  \cup {NotNull(v) : v \in vs}
  \cup {Vector(<<>>)} \cup {Vector(<<v>>) : v \in vs}
  \cup {Join(<<v, w, Number(1)>>) : v \in vs, w \in Few}
  \cup {Map(v, w) : v \in vs, w \in Few}

Values == Leaves \cup Composite(Leaves) \cup Composite(Composite(Few))
ValueStatements == {Stmt(3, TwoHoles, <<v, Number(5)>>) : v \in Values}

\* The same values with 0 to 6 bytes of the buffer left.
Filler(n) == Shown("escaped", Repeat("e", n))
TightStatements ==
  {Stmt(3, TwoHoles, <<Filler(Cap - 6 - room), v>>) :
     room \in 0..6, v \in Leaves \cup Composite(Few)}

PackStatements ==
  {Stmt(3, TwoHoles, <<Pack(a, <<v, Number(2)>>), Pack(b, ps)>>) :
     a \in BOOLEAN, b \in BOOLEAN, v \in Few,
     ps \in {<<>>, <<Number(5)>>, <<Number(5), Text(<<"t">>), Number(6)>>}}

Short  == Stmt(3, <<"i">>, <<>>)
Packed == Stmt(3, OneHole, <<Pack(TRUE, <<Number(4)>>)>>)
Inner  == {Short, Packed, Stmt(3, OneHole, <<Shown("fixed", <<"f">>)>>),
           Stmt(1, <<"i">>, <<>>), If(FALSE, Packed),
           Stmt(3, OneHole, <<Logs(Packed, <<"g">>)>>)}

LoggingStatements ==
  {Stmt(3, OneHole \o TwoHoles, <<v, Logs(i, <<"l">>), w>>) :
     i \in Inner, v \in Few, w \in {Number(6), Pack(TRUE, <<Number(6)>>)}}

MCFirst  == FormatStatements \cup ValueStatements \cup TightStatements
            \cup PackStatements \cup LoggingStatements
MCNested == Inner
=============================================================================
