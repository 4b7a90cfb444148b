----------------------------- MODULE StorageSpec -----------------------------
(***************************************************************************)
(* What storage promises: a contract's variables are a tree of values, and *)
(* a statement changes the values it names and no other.  A pop, a delete  *)
(* and an assignment clear what they remove, but for mappings; push()      *)
(* gives back whatever the cell holds.  A storage pointer is the path it   *)
(* was bound to; whether that still is within bounds is not asked again.   *)
(* A statement whose path is not live reverts and changes nothing.         *)
(***************************************************************************)
EXTENDS StorageTypes

CONSTANT Contracts      \* records [variables, body]: a type and a sequence of statements

VARIABLES
  contract,       \* the contract that runs
  tree,           \* its variables
  bound,          \* the path of the pointer, <<>> before it is bound
  call            \* the number of the statement to execute, or 0
vars == <<contract, tree, bound, call>>

RECURSIVE Cleared(_, _)
Cleared(t, old) ==
  CASE t.kind = "word" -> 0
    [] t.kind = "bytes" -> <<>>
    [] t.kind = "mapping" -> old
    [] t.kind = "dynamic" ->
         [length |-> 0,
          cells |-> [i \in 1 .. t.n |-> IF i <= old.length THEN Cleared(t.parts[1], old.cells[i]) ELSE old.cells[i]]]
    [] OTHER -> [i \in 1 .. Size(t) |-> Cleared(PartOf(t, i), old[i])]

RECURSIVE Assigned(_, _, _)
Assigned(t, old, value) ==
  CASE t.kind \in {"word", "bytes"} -> value
    [] t.kind = "dynamic" ->
         [length |-> Len(value),
          cells |-> [i \in 1 .. t.n |->
                      IF i <= Len(value) THEN Assigned(t.parts[1], old.cells[i], value[i])
                      ELSE IF i <= old.length THEN Cleared(t.parts[1], old.cells[i])
                      ELSE old.cells[i]]]
    [] OTHER ->
         [i \in 1 .. Size(t) |->
           IF i <= Len(value) THEN Assigned(PartOf(t, i), old[i], value[i]) ELSE Cleared(PartOf(t, i), old[i])]

RECURSIVE ValueOf(_, _)
ValueOf(t, old) ==
  CASE t.kind \in {"word", "bytes"} -> old
    [] OTHER -> [i \in 1 .. Length(t, old) |-> ValueOf(PartOf(t, i), Cells(t, old)[i])]

Popped(t, old) ==
  IF t.kind = "bytes" THEN Front(old)
  ELSE [old EXCEPT !.length = @ - 1, !.cells[old.length] = Cleared(t.parts[1], @)]
Pushed(t, old, value) ==
  IF t.kind = "bytes" THEN Append(old, value)
  ELSE [old EXCEPT !.length = @ + 1, !.cells[old.length + 1] = Assigned(t.parts[1], @, value)]
Grown(t, old) == IF t.kind = "bytes" THEN Append(old, 0) ELSE [old EXCEPT !.length = @ + 1]

(* the subtree a statement leaves where it found `old` *)
Effect(op, t, old, value) ==
  CASE op \in {"assign", "copy"} -> Assigned(t, old, value)
    [] op = "delete" -> Cleared(t, old)
    [] op = "push" -> Pushed(t, old, value)
    [] op \in {"grow", "pushref"} -> Grown(t, old)
    [] op = "pop" -> Popped(t, old)
    [] OTHER -> old

Variables == contract.variables
Base(c) == IF c.base = "pointer" THEN bound ELSE <<>>
Place(c) == Base(c) \o c.path
Here(path) == At(Variables, tree, path)
Targeted(c) == Live(TypeAt(Variables, Base(c)), Here(Base(c)), c.path)
Succeeds(c) ==
  /\ Targeted(c)
  /\ c.op = "pop" => Length(TypeAt(Variables, Place(c)), Here(Place(c))) > 0
  /\ c.op = "copy" => Live(Variables, tree, c.from)
Fits(c) ==
  (c.op \in {"push", "grow", "pushref"} /\ Targeted(c)) =>
    LET t == TypeAt(Variables, Place(c)) IN Length(t, Here(Place(c))) < t.n

Init ==
  /\ contract \in Contracts
  /\ tree = Default(Variables)
  /\ bound = <<>> /\ call = 0

Choose ==
  /\ call = 0
  /\ \E k \in DOMAIN contract.body :
       /\ call' = k
       /\ LET c == contract.body[k] IN (c.base = "pointer" => bound # <<>>) /\ Fits(c)
  /\ UNCHANGED <<contract, tree, bound>>

Execute ==
  /\ call # 0 /\ call' = 0
  /\ UNCHANGED contract
  /\ LET c == contract.body[call]
         place == Place(c)
         t == TypeAt(Variables, place)
         value == IF c.op = "copy" THEN ValueOf(TypeAt(Variables, c.from), Here(c.from)) ELSE c.value
     IN IF ~Succeeds(c) THEN UNCHANGED <<tree, bound>>
        ELSE /\ tree' = Replaced(Variables, tree, place, Effect(c.op, t, Here(place), value))
             /\ bound' = CASE c.op = "bind" -> place
                           [] c.op = "pushref" -> Append(place, Length(t, Here(place)) + 1)
                           [] OTHER -> bound

Next == Choose \/ Execute
Spec == Init /\ [][Next]_vars
=============================================================================
