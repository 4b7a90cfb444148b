----------------------------- MODULE Adjudicate -----------------------------
(***************************************************************************)
(* The adjudication of one submission (contest/adjudicate.py): a chain of  *)
(* checks that halts at its first verdict.  Most checks run a tool, and a  *)
(* tool may time out, be killed, or not start at all; what such a failure  *)
(* becomes differs from call to call.                                      *)
(*                                                                         *)
(* sub is what is true of the submission, whether or not a check finds it  *)
(* out.  MaxFaults bounds the tool failures of one adjudication.  solc has *)
(* no time limit when it is asked for an AST: a hang there is no verdict.  *)
(*                                                                         *)
(* Every check asks solc for the AST anew.  AstsAreCached: solc is a       *)
(* native binary, no source imports and the result cache is on, so an AST  *)
(* that solc once returned is not asked for again (run_solc_ast).          *)
(***************************************************************************)
EXTENDS Integers, FiniteSets

CONSTANTS MaxFaults, AstsAreCached
ASSUME AdjudicateAssumption == MaxFaults \in Nat /\ AstsAreCached \in BOOLEAN

Submission == [
  mode: {"test", "manifest", "over_accept", "skip_forge"},
  malformed: {"no", "claim", "entry"},  \* entry: found with the AST in hand
  solc: {"accepts", "parsing", "analysis", "codegen"},  \* where it rejects
  banned: {"no", "src", "test"},        \* where a cheatcode is used
  scope: {"in", "param", "return", "gate", "revert"},  \* what an exclusion hits
  names: {"none", "param", "return", "error"},  
    \* where a struct, an enum or an error must be looked up by its name
  reproduces: BOOLEAN,                  \* the submitter's own test passes
  lean: {"unsupported", "excluded", "rejects", "stops", "agrees", "differs"}]

Verdicts == {"REJECT_MALFORMED", "INVALID", "REJECTED_OOS", "NEEDS_REVIEW",
             "COVERAGE_GAP", "NO_DIVERGENCE", "SOUNDNESS_GAP"}
Qualifying == {"COVERAGE_GAP", "SOUNDNESS_GAP"}

(* Submissions a submitter can make: over-accept claims have no signature to
   be out of scope by and manifests have no test. *)
Submitted(s) ==
  /\ s.mode = "over_accept" => s.scope \in {"in", "gate"} /\ s.names = "none"
  /\ s.mode = "manifest" => s.banned # "test" /\ s.reproduces
  /\ s.mode # "test" => s.reproduces
  /\ s.solc # "accepts" => (s.mode = "test" => ~s.reproduces)

VARIABLES
  sub, at,   \* the submission, and the next check
  faults,    \* history: the tool calls that failed, as <<check, how>>
  ran,       \* history: the checks that executed submitted code
  measured,  \* the EVM observable was measured
  result,    \* run_solidity_lean_observable's classification
  verdict

vars == <<sub, at, faults, ran, measured, result, verdict>>

Checks == {"load", "signature", "asts", "parse", "cheatcodes", "solc_rejects",
           "forge", "returns", "measure", "gate", "source", "import", "lean",
           "classify", "compare"}
Results == {"none", "ok", "refused", "excluded", "rejected", "stopped",
            "inconclusive"}

(* solc has no analyzed AST for the program. *)
Unanalyzed == sub.solc \in {"parsing", "analysis"}

Goto(next) == at' = next /\ UNCHANGED verdict
(* Mutant: a missing return. *)
ReportGoesOn(v) == at' = at /\ verdict' = v

Report(v) == at' = "done" /\ verdict' = v
(* An exception leaves adjudicate: there is no report. *)
Raise == at' = "raised" /\ UNCHANGED verdict

Quiet == UNCHANGED faults
Breaks(how) ==
  Cardinality(faults) < MaxFaults /\ faults' = faults \cup {<<at, how>>}
Keeps == UNCHANGED <<sub, ran, measured, result>>

(* solc is asked again for an AST it has given before, and fails. *)
LookupFails == ~AstsAreCached /\ Breaks("killed")

Init ==
  /\ sub \in {s \in Submission : Submitted(s)} /\ at = "load"
  /\ faults = {} /\ ran = {} /\ measured = FALSE /\ result = "none"
  /\ verdict = "none"

-----------------------------------------------------------------------------
(* Steps 0 to 0b: the claim, and what solc's AST says of the sources *)

Load ==
  /\ at = "load" /\ Quiet /\ Keeps
  /\ IF sub.malformed = "claim" THEN Report("REJECT_MALFORMED")
     ELSE Goto(IF sub.mode = "over_accept" THEN "asts" ELSE "signature")

(* Tables of structs and enums are empty when solc fails (struct_definitions,
   enum_member_counts), and a type that is not in them is out of scope. *)
Signature ==
  /\ at = "signature" /\ Keeps
  /\ \/ /\ Quiet
        /\ IF Unanalyzed \/ sub.malformed = "entry"
           THEN Report("REJECT_MALFORMED")
           ELSE IF sub.scope = "param" THEN Report("REJECTED_OOS")
           ELSE Goto("asts")
     \/ sub.names = "param" /\ LookupFails /\ Report("REJECTED_OOS")
     \/ Breaks("oserror") /\ Report("NEEDS_REVIEW")
     \/ Breaks("killed") /\ Report("REJECT_MALFORMED")

SourceAsts ==
  /\ at = "asts" /\ Keeps
  /\ \/ /\ Quiet
        /\ Goto(IF Unanalyzed THEN "parse" ELSE "cheatcodes")
     \/ sub.mode = "over_accept" /\ Breaks("killed") /\ Goto("parse")
     \/ sub.mode # "over_accept" /\ LookupFails /\ Report("REJECT_MALFORMED")
     \/ /\ sub.mode = "over_accept" \/ ~AstsAreCached
        /\ Breaks("oserror") /\ Report("NEEDS_REVIEW")

(* An over-accept claim falls back to the AST of the parser alone. *)
ParseOnly ==
  /\ at = "parse" /\ Keeps
  /\ \/ /\ Quiet
        /\ IF sub.solc = "parsing" THEN Report("REJECT_MALFORMED")
           ELSE Goto("cheatcodes")
     \/ Breaks("killed") /\ Report("REJECT_MALFORMED")

RealBehavior ==
  CASE sub.mode = "over_accept" -> "solc_rejects"
    [] sub.mode = "test" -> "forge"
    [] sub.mode = "manifest" -> "returns"
    [] sub.mode = "skip_forge" -> "gate"

(* Mutant: only the sources are scanned. *)
CheatcodesOfSources ==
  /\ at = "cheatcodes" /\ Quiet /\ Keeps
  /\ IF sub.banned = "src" THEN Report("REJECTED_OOS") ELSE Goto(RealBehavior)

(* A test whose AST cannot be had is scanned as if there were none. *)
Cheatcodes ==
  /\ at = "cheatcodes" /\ Keeps
  /\ \/ /\ Quiet
        /\ IF sub.banned # "no" THEN Report("REJECTED_OOS") ELSE Goto(RealBehavior)
     \/ /\ sub.mode # "manifest" /\ Breaks("killed")
        /\ IF sub.banned = "src" THEN Report("REJECTED_OOS") ELSE Goto(RealBehavior)
     \/ sub.mode # "manifest" /\ Breaks("oserror") /\ Raise

-----------------------------------------------------------------------------
(* Steps 1 and 1a: the real behavior *)

(* run_solc_rejects_source: a killed solc prints no diagnostic *)
SolcRejects ==
  /\ at = "solc_rejects" /\ Keeps
  /\ \/ /\ Quiet
        /\ IF sub.solc = "accepts" THEN Report("INVALID") ELSE Goto("gate")
     \/ Breaks("timeout") /\ Report("NEEDS_REVIEW")
     \/ Breaks("killed") /\ Report("INVALID")
     \/ Breaks("oserror") /\ Raise

(* run_forge_test: a killed forge is forge_exit_<status>, like a failed test *)
Forge ==
  /\ at = "forge" /\ ran' = ran \cup {at} /\ UNCHANGED <<sub, measured, result>>
  /\ \/ /\ Quiet
        /\ IF sub.reproduces THEN Goto("returns") ELSE Report("INVALID")
     \/ \E how \in {"timeout", "oserror"} : Breaks(how) /\ Report("NEEDS_REVIEW")
     \/ Breaks("killed") /\ Report("INVALID")

ReturnTypes ==
  /\ at = "returns" /\ Keeps
  /\ \/ /\ Quiet
        /\ IF sub.scope = "return" THEN Report("REJECTED_OOS") ELSE Goto("measure")
     \/ sub.names = "return" /\ LookupFails /\ Report("REJECTED_OOS")

(* measure_evm: forge does not compile a program solc rejects, and arguments
   whose struct is not in the table cannot be encoded *)
Measure ==
  /\ at = "measure" /\ UNCHANGED <<sub, result>>
  /\ \/ /\ ran' = ran \cup {at} /\ Quiet /\ sub.solc = "accepts"
        /\ measured' = TRUE /\ Goto("gate")
     \/ /\ ran' = ran \cup {at} /\ UNCHANGED measured /\ Report("NEEDS_REVIEW")
        /\ \/ sub.solc # "accepts" /\ Quiet
           \/ \E how \in {"timeout", "killed", "oserror"} : Breaks(how)
     \/ /\ sub.names = "param" /\ LookupFails
        /\ UNCHANGED <<ran, measured>> /\ Raise

-----------------------------------------------------------------------------
(* Steps 2 and 3: the reject gate, the semantics, the comparison *)

(* Mutant: an exclusion is noted and the run goes on. *)
GateIgnored == at = "gate" /\ Quiet /\ Keeps /\ Goto("source")

(* run_gate falls back to the parser's AST for an over-accept claim only. *)
Gate ==
  /\ at = "gate" /\ Keeps
  /\ \/ /\ Quiet \/ (sub.mode = "over_accept" /\ LookupFails)
        /\ IF sub.scope = "gate" THEN Report("REJECTED_OOS") ELSE Goto("source")
     \/ sub.mode # "over_accept" /\ LookupFails /\ Raise
     \/ Unanalyzed /\ Breaks("killed") /\ Raise

(* _source_of_contract tries the analyzed AST, then the parser's. *)
SourceOfContract ==
  /\ at = "source" /\ Keeps
  /\ \/ /\ Quiet \/ LookupFails
        /\ IF sub.malformed = "entry" THEN Report("REJECT_MALFORMED")
           ELSE Goto("import")
     \/ /\ Unanalyzed \/ ~AstsAreCached
        /\ Breaks("oserror") /\ Report("REJECT_MALFORMED")

(* run_solc_import: the importer asks solc for the analyzed AST, and a program
   that has none is refused; so is one whose importer did not finish *)
Import ==
  /\ at = "import" /\ UNCHANGED <<sub, ran, measured>>
  /\ \/ /\ Quiet
        /\ IF Unanalyzed \/ sub.lean = "unsupported"
           THEN result' = "refused" /\ Goto("classify")
           ELSE IF sub.lean = "excluded"
           THEN result' = "excluded" /\ Goto("classify")
           ELSE UNCHANGED result /\ Goto("lean")
     \/ /\ \E how \in {"timeout", "killed"} : Breaks(how)
        /\ result' = "refused" /\ Goto("classify")
     \/ Breaks("oserror") /\ UNCHANGED result /\ Raise

(* Mutant: a Lean that ends without a result has rejected the program. *)
LeanFailureRejects ==
  /\ at = "lean" /\ ran' = ran \cup {at} /\ UNCHANGED <<sub, measured>>
  /\ Quiet \/ Breaks("killed")
  /\ result' = (IF sub.lean = "rejects" \/ faults' # faults THEN "rejected"
                ELSE IF sub.lean = "stops" THEN "stopped" ELSE "ok")
  /\ Goto("classify")

(* A result that was printed counts, whatever the exit status. *)
Lean ==
  /\ at = "lean" /\ ran' = ran \cup {at} /\ UNCHANGED <<sub, measured>>
  /\ \/ /\ Quiet \/ Breaks("killed")
        /\ result' = (CASE sub.lean = "rejects" -> "rejected"
                        [] sub.lean = "stops" -> "stopped"
                        [] sub.lean \in {"agrees", "differs"} -> "ok")
        /\ Goto("classify")
     \/ /\ \E how \in {"timeout", "killed"} : Breaks(how)
        /\ result' = "inconclusive" /\ Goto("classify")
     \/ Breaks("oserror") /\ UNCHANGED result /\ Raise

Classify ==
  /\ at = "classify" /\ Quiet /\ Keeps
  /\ CASE sub.mode = "over_accept" ->
            Report(IF result = "ok" THEN "SOUNDNESS_GAP" ELSE "NO_DIVERGENCE")
       [] sub.mode # "over_accept" /\ result \in {"inconclusive", "stopped"} ->
            Report("NEEDS_REVIEW")
       [] sub.mode # "over_accept" /\ result = "excluded" -> Report("REJECTED_OOS")
       [] sub.mode # "over_accept" /\ result \in {"refused", "rejected"} ->
            Report("COVERAGE_GAP")
       [] sub.mode # "over_accept" /\ result = "ok" -> Goto("compare")

(* Without the table of custom errors the measured revert stays raw bytes, and
   Lean's has a name.  Bytes the declared types do not fit are the decoder's
   failure. *)
Compare ==
  /\ at = "compare" /\ Keeps
  /\ CASE ~measured -> Quiet /\ Report("REJECT_MALFORMED")
       [] measured /\ sub.scope = "revert" -> Quiet /\ Report("REJECTED_OOS")
       [] measured /\ sub.scope # "revert" ->
            \/ Quiet /\ Report(IF sub.lean = "agrees" THEN "NO_DIVERGENCE"
                               ELSE "SOUNDNESS_GAP")
            \/ sub.names = "error" /\ LookupFails /\ Report("SOUNDNESS_GAP")
            \/ Breaks("undecodable") /\ Report("NEEDS_REVIEW")

Next ==
  \/ Load \/ Signature \/ SourceAsts \/ ParseOnly \/ Cheatcodes
  \/ SolcRejects \/ Forge \/ ReturnTypes \/ Measure
  \/ Gate \/ SourceOfContract \/ Import \/ Lean \/ Classify \/ Compare

Spec == Init /\ [][Next]_vars

-----------------------------------------------------------------------------
(* Type invariant. *)
TypeOK ==
  /\ sub \in Submission /\ at \in Checks \cup {"done", "raised"}
  /\ faults \subseteq Checks \X {"timeout", "killed", "oserror", "undecodable"}
  /\ Cardinality(faults) <= MaxFaults
  /\ ran \subseteq {"forge", "measure", "lean"} /\ measured \in BOOLEAN
  /\ result \in Results /\ verdict \in Verdicts \cup {"none"}
  /\ at = "done" <=> verdict # "none"

LeanRuns == sub.lean \in {"agrees", "differs"}

(* What contest/README.md says a verdict means, of the submission itself. *)
HasItsReason ==
  /\ verdict = "REJECT_MALFORMED" =>
       \/ sub.malformed # "no"
       \/ IF sub.mode = "over_accept" THEN sub.solc = "parsing" ELSE Unanalyzed
       \/ sub.mode = "skip_forge" /\ LeanRuns
  /\ verdict = "INVALID" =>
       IF sub.mode = "over_accept" THEN sub.solc = "accepts" ELSE ~sub.reproduces
  /\ verdict = "REJECTED_OOS" =>
       sub.banned # "no" \/ sub.scope # "in" \/ sub.lean = "excluded"
  /\ verdict = "NEEDS_REVIEW" => sub.lean = "stops" \/ sub.solc = "codegen"
  /\ verdict = "COVERAGE_GAP" =>
       /\ sub.mode # "over_accept" /\ sub.lean \in {"unsupported", "rejects"}
       /\ sub.banned = "no" /\ sub.scope \in {"in", "return", "revert"}
       /\ sub.mode # "skip_forge" => sub.solc = "accepts" /\ sub.reproduces
  /\ verdict = "NO_DIVERGENCE" =>
       IF sub.mode = "over_accept"
       THEN sub.solc # "accepts" /\ (Unanalyzed \/ ~LeanRuns)
       ELSE sub.lean = "agrees"
  /\ verdict = "SOUNDNESS_GAP" =>
       /\ sub.banned = "no" /\ sub.scope = "in"
       /\ IF sub.mode = "over_accept" THEN sub.solc = "codegen" /\ LeanRuns
          ELSE sub.solc = "accepts" /\ sub.reproduces /\ sub.lean = "differs"

(* While every tool works, the chain of checks ends in a verdict, and the
   verdict is one the submission deserves (adjudicate). *)
EveryVerdictHasItsReason ==
  faults = {} => at # "raised" /\ HasItsReason

(* Whatever fails, a soundness gap is a difference that is there and a coverage
   gap is a refusal, with two exceptions: the lookup of the errors, when it is
   solc's to answer, and the importer (adjudicate, steps 3a to 3c).  The scan of
   the test may have failed. *)
GapsAreReal ==
  /\ (verdict = "SOUNDNESS_GAP" /\ <<"compare", "killed">> \notin faults) =>
       /\ sub.scope = "in" /\ sub.banned # "src" /\ LeanRuns
       /\ IF sub.mode = "over_accept" THEN sub.solc = "codegen"
          ELSE measured /\ sub.lean = "differs" /\ sub.reproduces
  /\ (verdict = "COVERAGE_GAP" /\ \A f \in faults : f[1] # "import") =>
       /\ sub.lean \in {"unsupported", "rejects"} /\ sub.banned # "src"
       /\ sub.mode # "skip_forge" => measured /\ sub.reproduces

(* No submitted code runs before the cheatcode scan has cleared it: "untrusted
   code never executes with a cheatcode reference the gate would have caught"
   (contest/adjudicate.py:516-519).  A killed solc leaves the test unscanned. *)
NothingRunsBeforeTheGate ==
  (sub.banned # "no" /\ ran # {}) =>
    sub.banned = "test" /\ <<"cheatcodes", "killed">> \in faults

-----------------------------------------------------------------------------
(* What the documentation says and the code does not do *)

(* "NEEDS_REVIEW - solidity-lean failed inconclusively (timeout / resource
   exhaustion) [...] never auto-qualified" (contest/README.md:287). *)
InconclusiveNeverQualifies ==
  verdict \in Qualifying => \A f \in faults : f[1] \notin {"import", "lean"}

(* "routed to a human" (contest/README.md:288), in the over-accept lane too. *)
InconclusiveIsReviewed ==
  (verdict # "none" /\ result = "inconclusive") => verdict = "NEEDS_REVIEW"

(* "solidity-lean runs but the observable differs" (contest/README.md:294). *)
SoundnessGapsDiffer ==
  (verdict = "SOUNDNESS_GAP" /\ sub.mode # "over_accept") => sub.lean = "differs"

(* "never terminally reject on a broken toolchain" (contest/adjudicate.py:381). *)
BrokenToolchainNeverRejects ==
  verdict \in {"REJECT_MALFORMED", "INVALID", "REJECTED_OOS"} => HasItsReason
=============================================================================
