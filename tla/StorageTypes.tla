---------------------------- MODULE StorageTypes ----------------------------
(***************************************************************************)
(* The types of state variables, their values as trees, and the statements *)
(* about them.                                                             *)
(*                                                                         *)
(* A type is [kind, n, parts]: n is the width in bytes of a "word", the    *)
(* size of a "fixed" array, and the bound the model puts on the length of  *)
(* a "dynamic" array or of "bytes" and on the keys of a "mapping"; parts   *)
(* are the members of a "struct" or the one element type.  A contract is   *)
(* the struct of its variables.  Positions, members and keys count from 1. *)
(*                                                                         *)
(* A tree is a number for a word, a sequence of numbers for bytes,         *)
(* [length, cells] for a dynamic array, with the cells up to the bound     *)
(* whatever the length is, and a sequence of trees for the others.  A      *)
(* value, which is what an assignment takes, is a tree without the cells   *)
(* past the lengths.                                                       *)
(***************************************************************************)
EXTENDS Integers, Sequences, SequencesExt

PartOf(t, i) ==
  CASE t.kind = "struct" -> t.parts[i]
    [] t.kind = "bytes" -> [kind |-> "word", n |-> 1, parts |-> <<>>]
    [] OTHER -> t.parts[1]
Size(t) == IF t.kind = "struct" THEN Len(t.parts) ELSE t.n

RECURSIVE Default(_)
Default(t) ==
  CASE t.kind = "word" -> 0
    [] t.kind = "bytes" -> <<>>
    [] t.kind = "dynamic" -> [length |-> 0, cells |-> [i \in 1 .. t.n |-> Default(t.parts[1])]]
    [] OTHER -> [i \in 1 .. Size(t) |-> Default(PartOf(t, i))]

RECURSIVE TypeAt(_, _)
TypeAt(t, path) == IF path = <<>> THEN t ELSE TypeAt(PartOf(t, Head(path)), Tail(path))

Cells(t, tree) == IF t.kind = "dynamic" THEN tree.cells ELSE tree
Length(t, tree) ==
  CASE t.kind = "dynamic" -> tree.length
    [] t.kind = "bytes" -> Len(tree)
    [] OTHER -> Size(t)

(* every index on the way is within its bounds *)
RECURSIVE Live(_, _, _)
Live(t, tree, path) ==
  path # <<>> =>
    /\ Head(path) <= Length(t, tree)
    /\ Live(PartOf(t, Head(path)), Cells(t, tree)[Head(path)], Tail(path))

RECURSIVE At(_, _, _)
At(t, tree, path) ==
  IF path = <<>> THEN tree ELSE At(PartOf(t, Head(path)), Cells(t, tree)[Head(path)], Tail(path))

RECURSIVE Replaced(_, _, _, _)
Replaced(t, tree, path, new) ==
  IF path = <<>> THEN new
  ELSE LET cells == [Cells(t, tree) EXCEPT ![Head(path)] = Replaced(PartOf(t, Head(path)), @, Tail(path), new)]
       IN IF t.kind = "dynamic" THEN [tree EXCEPT !.cells = cells] ELSE cells

(* A statement of a body is [op, base, path, value, from]: op on what the path
   leads to, from the contract's variables or from the pointer; `value` is assigned
   or pushed, and `from` is the path a "copy" reads. *)
Statement(op, base, path, value, from) ==
  [op |-> op, base |-> base, path |-> path, value |-> value, from |-> from]
=============================================================================
