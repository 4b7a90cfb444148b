------------------------------ MODULE MCStorage ------------------------------
(* Contracts of at most four small variables, with words of five bytes of 16
   values, and every statement of their types. *)
EXTENDS Storage

Type(kind, n, parts) == [kind |-> kind, n |-> n, parts |-> parts]
W(n) == Type("word", n, <<>>)
Bytes(n) == Type("bytes", n, <<>>)
Struct(parts) == Type("struct", 0, parts)
Fixed(n, t) == Type("fixed", n, <<t>>)
Dynamic(n, t) == Type("dynamic", n, <<t>>)
Mapping(n, t) == Type("mapping", n, <<t>>)

Pair == Struct(<<W(1), Dynamic(2, W(1))>>)
Row == Dynamic(2, W(2))
Keyed == Struct(<<Mapping(1, W(5)), W(5)>>)

(* a contract and the type its storage pointers have *)
Cases == <<
  <<Struct(<<W(2), W(3), Dynamic(3, W(2)), W(1)>>), W(0)>>,
  <<Struct(<<W(4), Struct(<<W(1), W(3), W(2)>>), W(1)>>), Struct(<<W(1), W(3), W(2)>>)>>,
  <<Struct(<<Fixed(3, W(2)), W(1), Fixed(2, Struct(<<W(3), W(3)>>))>>), Struct(<<W(3), W(3)>>)>>,
  <<Struct(<<Dynamic(2, Pair)>>), Pair>>,
  <<Struct(<<Dynamic(2, Row)>>), Row>>,
  <<Struct(<<Dynamic(2, Fixed(3, W(2))), W(5)>>), Fixed(3, W(2))>>,
  <<Struct(<<Bytes(6), W(1)>>), W(0)>>,
  <<Struct(<<Dynamic(1, Bytes(5))>>), Bytes(5)>>,
  <<Struct(<<Mapping(2, Struct(<<W(2), Row>>)), W(5)>>), Struct(<<W(2), Row>>)>>,
  <<Struct(<<Dynamic(2, Keyed)>>), Keyed>>>>

(* the paths below a type, and an index past the end of a fixed array *)
RECURSIVE Paths(_)
Paths(t) ==
  <<<<>>>> \o
  (IF t.kind = "word" THEN <<>>
   ELSE FlattenSeq([i \in 1 .. Size(t) + (IF t.kind = "fixed" THEN 1 ELSE 0) |->
                     LET tails == Paths(PartOf(t, i)) IN [k \in DOMAIN tails |-> <<i>> \o tails[k]]]))
PathsTo(c, t) == SelectSeq(Paths(c), LAMBDA p : TypeAt(c, p) = t)

RECURSIVE Copyable(_)
Copyable(t) == t.kind # "mapping" /\ \A i \in DOMAIN t.parts : Copyable(t.parts[i])

Ones(n) == <<>> \o [i \in 1 .. n |-> ByteMod - 1]
RECURSIVE Full(_)
Full(t) ==
  CASE t.kind = "word" -> ByteMod ^ t.n - 1
    [] t.kind = "bytes" -> Ones(t.n)
    [] OTHER -> <<>> \o [i \in 1 .. Size(t) |-> Full(PartOf(t, i))]
Values(t) ==
  CASE t.kind \in {"word", "struct"} -> <<Full(t)>>
    [] t.kind = "bytes" -> <<<<>>, Ones(4), Full(t)>>
    [] OTHER -> [n \in 1 .. t.n |-> SubSeq(Full(t), 1, n)] \o (IF t.kind = "dynamic" THEN <<<<>>>> ELSE <<>>)

Plain(op, base, path) == <<Statement(op, base, path, <<>>, <<>>)>>
Taking(op, base, path, values) == [i \in DOMAIN values |-> Statement(op, base, path, values[i], <<>>)]
Ops(base, path, t) ==
  (IF Copyable(t) THEN Taking("assign", base, path, Values(t)) ELSE <<>>)
  \o (IF t.kind # "mapping" THEN Plain("delete", base, path) ELSE <<>>)
  \o (IF t.kind \notin {"bytes", "dynamic"} THEN <<>>
      ELSE Plain("grow", base, path) \o Plain("pop", base, path)
           \o (IF Copyable(t) THEN Taking("push", base, path, <<Full(PartOf(t, 1))>>) ELSE <<>>))
OpsBelow(base, t) ==
  LET paths == Tail(Paths(t)) IN FlattenSeq([k \in DOMAIN paths |-> Ops(base, paths[k], TypeAt(t, paths[k]))])

Body(c, t) ==
  LET places == PathsTo(c, t)
      arrays == PathsTo(c, Dynamic(1, t)) \o PathsTo(c, Dynamic(2, t))
  IN OpsBelow("variable", c)
       \o FlattenSeq([i \in DOMAIN places |->
           Plain("bind", "variable", places[i])
           \o (IF Copyable(t)
               THEN [j \in DOMAIN places |-> Statement("copy", "variable", places[i], <<>>, places[j])] ELSE <<>>)])
       \o FlattenSeq([i \in DOMAIN arrays |->
           IF Copyable(t) THEN Plain("pushref", "variable", arrays[i]) ELSE <<>>])
       \o OpsBelow("pointer", t)
       \o (IF t.kind \in {"dynamic", "bytes"} THEN Tail(Ops("pointer", <<>>, t)) ELSE <<>>)
MCContracts == { [variables |-> Cases[k][1], body |-> <<>> \o Body(Cases[k][1], Cases[k][2])] : k \in DOMAIN Cases }
=============================================================================
