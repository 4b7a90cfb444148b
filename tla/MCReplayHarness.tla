-------------------------- MODULE MCReplayHarness --------------------------
(* Small manifests for ReplayHarness. *)
EXTENDS ReplayHarness

Base == [dir |-> "a", entry |-> "valid", selected |-> TRUE, raises |-> FALSE,
         rejects |-> "none", forge |-> "none", lean |-> "none"]
Paired == [Base EXCEPT !.forge = "pass", !.lean = "agrees"]
Rejecting == [Base EXCEPT !.dir = "b", !.rejects = "rejected"]

(* Every way a case can be wrong, beside two cases that are right; two cases in
   one directory; a case that raises before, between and after others. *)
Wrong == {
  [Base EXCEPT !.dir = "c", !.rejects = "accepted"],
  [Base EXCEPT !.dir = "c", !.rejects = "other_diagnostic"],
  [Base EXCEPT !.dir = "c", !.forge = "fail"],
  [Base EXCEPT !.dir = "c", !.forge = "empty"],
  [Base EXCEPT !.dir = "c", !.lean = "refused"],
  [Base EXCEPT !.dir = "c", !.lean = "differs"],
  [Base EXCEPT !.dir = "c", !.entry = "no_name"],
  [Base EXCEPT !.dir = "c", !.entry = "bad_timeout"],
  [Base EXCEPT !.dir = "c", !.forge = "fail", !.selected = FALSE],
  [Base EXCEPT !.dir = "c", !.forge = "pass", !.raises = TRUE]}
MCManifests ==
  {<<Paired, c>> : c \in Wrong} \cup {<<c, Rejecting>> : c \in Wrong}
    \cup {<<Paired, Rejecting>>, <<Paired, [Paired EXCEPT !.lean = "differs"]>>}
    \cup {<<Rejecting, c, [Base EXCEPT !.dir = "d", !.forge = "pass"]>> : c \in Wrong}
=============================================================================
