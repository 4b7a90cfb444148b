-------------------------- MODULE MCWorldAdoption --------------------------
(* A small instance of WorldAdoption.                                       *)
EXTENDS WorldAdoption

CONSTANTS other, e1, c1

MCAddrs == {Self, other}
MCEvents == {e1}
MCCodes == {NoCode, c1}
MCSeedBalance == [a \in MCAddrs |-> IF a = Self THEN 1 ELSE 2]
MCSeedCode == [a \in MCAddrs |-> IF a = Self THEN c1 ELSE NoCode]
MCKnown == MCAddrs
MCPrecompiles == {other}
MCCreatedSeeds == {{}, {Self}}

(* a callee that reenters: writes our slots, logs, creates, moves facts *)
Reenters ==
  [EmptyDelta EXCEPT !.sto = [s \in Slots |-> 1], !.tr = [s \in Slots |-> 1],
     !.logs = <<[from |-> other, ev |-> e1]>>, !.created = {other},
     !.others = [a \in {other} |-> [bal |-> 3, code |-> c1]]]
(* a callee that leaves us an absolute balance *)
Pays == [EmptyDelta EXCEPT !.bal = 3, !.nonce = 1]

Ok(post) == [success |-> TRUE, zero |-> FALSE, post |-> post]
Fails(post) == [success |-> FALSE, zero |-> FALSE, post |-> post]
OkAtZero == [success |-> TRUE, zero |-> TRUE, post |-> NoDelta]

AllRows == {Ok(NoDelta), Fails(NoDelta), Ok(Reenters), Fails(Reenters),
            Ok(Pays), OkAtZero}

(* The rows are of the kind that the theorems about single runs speak of. *)
ASSUME InstanceAssumption == CalleesLogApart /\ BalancesAreMarked
=============================================================================
