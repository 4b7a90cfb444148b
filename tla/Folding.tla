------------------------------ MODULE Folding ------------------------------
(***************************************************************************)
(* The constants that the gate folds (contest/reject_gate.py), and what    *)
(* Solidity makes of the same expression.  An expression is [op, value,    *)
(* unit, args]; the value of a conversion is the size of its type.  solc's *)
(* AST has one kind of node for a call and for a conversion.  Bitwise      *)
(* operators and negative divisors are left out.                           *)
(***************************************************************************)
EXTENDS Integers, Sequences

CONSTANT
  MaxShift,
  Anything    \* what a function may return or a variable hold

Half(a, n) == a \div 2 ^ n
FoldedBinary(op, a, b) ==
  CASE op = "+" -> <<a + b>>
    [] op = "-" -> <<a - b>>
    [] op = "*" -> <<a * b>>
    [] op = "/" -> IF b > 0 THEN <<a \div b>> ELSE <<>>
    [] op = "%" -> IF b > 0 THEN <<a % b>> ELSE <<>>
    [] op = "<<" -> IF b \in 0 .. MaxShift - 1 THEN <<a * 2 ^ b>> ELSE <<>>
    [] op = ">>" -> IF b >= 0 THEN <<Half(a, b)>> ELSE <<>>
RECURSIVE LiteralInt(_)
LiteralInt(e) ==
  LET folded == [i \in DOMAIN e.args |-> LiteralInt(e.args[i])]
  IN CASE e.op = "literal" -> <<e.value>>
       [] e.op \in {"conversion", "call"} -> IF Len(e.args) = 1 THEN folded[1] ELSE <<>>
       [] e.op = "name" \/ \E i \in DOMAIN folded : folded[i] = <<>> -> <<>>
       [] e.op = "negate" -> <<-folded[1][1]>>
       [] e.op = "~" -> <<-folded[1][1] - 1>>
       [] OTHER -> FoldedBinary(e.op, folded[1][1], folded[2][1])

-----------------------------------------------------------------------------
RECURSIVE Constant(_)
Constant(e) == e.op \notin {"call", "name"} /\ \A i \in DOMAIN e.args : Constant(e.args[i])

(* Arithmetic on literals alone is exact: a value is a fraction <<n, d>>.  *)
RECURSIVE Rational(_)
Rational(e) == e.op \notin {"call", "name", "conversion"} /\ \A i \in DOMAIN e.args : Rational(e.args[i])
Fraction(op, x, y) ==
  CASE op = "+" -> <<x[1] * y[2] + y[1] * x[2], x[2] * y[2]>>
    [] op = "-" -> <<x[1] * y[2] - y[1] * x[2], x[2] * y[2]>>
    [] op = "*" -> <<x[1] * y[1], x[2] * y[2]>>
    [] op = "/" -> <<x[1] * y[2], x[2] * y[1]>>
Whole(x) == x[1] % x[2] = 0
(* A conversion of a literal must fit its type, of another value it drops  *)
(* the upper bits; a whole number divided is whole again.                  *)
RECURSIVE Fractions(_)
Fractions(e) ==
  LET of == [i \in DOMAIN e.args |-> Fractions(e.args[i])]
      Binary(Op(_, _)) == {Op(p[1], p[2]) : p \in {q \in of[1] \X of[2] : e.op = "/" => q[2][1] > 0}}
  IN CASE e.op = "literal" -> {<<e.value * e.unit, 1>>}
       [] e.op \in {"call", "name"} -> {<<n, 1>> : n \in Anything}
       [] e.op = "conversion" /\ Rational(e.args[1]) ->
            {x \in of[1] : Whole(x) /\ x[1] \div x[2] \in 0 .. e.value - 1}
       [] e.op = "conversion" /\ ~Rational(e.args[1]) -> {<<x[1] % e.value, 1>> : x \in of[1]}
       [] e.op = "negate" -> {<<-x[1], x[2]>> : x \in of[1]}
       [] e.op = "/" /\ ~Rational(e) -> Binary(LAMBDA x, y : <<x[1] \div y[1], 1>>)
       [] OTHER -> Binary(LAMBDA x, y : Fraction(e.op, x, y))
(* what is passed of an argument *)
Solidity(e) == {x[1] \div x[2] : x \in {y \in Fractions(e) : Whole(y)}}

(* Numbers without units, under operators that keep them whole, and under
   conversions that cannot drop a bit. *)
RECURSIVE Plain(_)
Plain(e) ==
  /\ \/ e.op = "literal" /\ e.unit = 1
     \/ e.op \in {"negate", "+", "-", "*"}
     \/ e.op = "conversion" /\ Rational(e.args[1])
  /\ \A i \in DOMAIN e.args : Plain(e.args[i])
=============================================================================
