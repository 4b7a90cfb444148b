--------------------------- MODULE MCHarnessCache ---------------------------
(* A small instance of HarnessCache. *)
EXTENDS HarnessCache

CONSTANTS p1, p2, w1, w2, w3, half, huge

(* two threads of one process, and another process *)
TwoProcs == [w \in Workers |-> IF w = w3 THEN p2 ELSE p1]
(* half the memory, the longest result that is stored, and one more *)
MCSizes ==
  [i \in Inputs |-> IF i = half THEN MaxEntry \div 2 ELSE MaxEntry \div 2 + 1]
=============================================================================
