---------------------------- MODULE MCKnownGaps ----------------------------
(* Two threads of one process beside the maintainer's process; two open    *)
(* gaps, one whose program imports and one whose program solc rejects, and *)
(* a fixed gap without a repro.                                            *)
EXTENDS KnownGaps

CONSTANTS t1, t2, m1, adjudicator, maintainer, imports, rejected, g1, g2, g3

MCProcOf == [t \in Threads |-> IF t = m1 THEN maintainer ELSE adjudicator]
MCGaps == <<g1, g2, g3>>
MCDeltaOf == [g \in {g1, g2, g3} |-> IF g = g2 THEN "over-accept" ELSE "wrong-value"]
MCReproOf == [g \in {g1, g2, g3} |-> IF g = g2 THEN rejected ELSE imports]
=============================================================================
