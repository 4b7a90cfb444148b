------------------------- MODULE Adjudicate_proofs -------------------------
(***************************************************************************)
(* What a verdict rests on, for every number of tool failures, every       *)
(* register and every measured program.                                    *)
(*                                                                         *)
(* Adjudicate: the checks run in one order, so the invariant says, of each *)
(* check, what the ones before it have established (Passed); a verdict     *)
(* then follows from the check that gives it.  ScopeGate: what a source    *)
(* that passed may compute (Kept), and what the cheatcode scan makes of a  *)
(* test, call by call (Mirrored).  Measurement: what becomes of a program  *)
(* in both engines and what is compared of it (MeasureInv).                *)
(***************************************************************************)
EXTENDS Adjudicate, ScopeGate, Measurement, Recursion, SequenceTheorems, FiniteSetTheorems, TLAPS

(* The checks that come after a given one. *)
AfterGate == {"source", "import", "lean", "classify", "compare"}
AfterMeasure == AfterGate \cup {"gate"}
AfterForge == AfterMeasure \cup {"returns", "measure"}
AfterScan == AfterForge \cup {"solc_rejects", "forge"}
AfterSignature == AfterScan \cup {"asts", "parse", "cheatcodes"}

Scanned ==
  \/ sub.banned = "no"
  \/ sub.banned = "test" /\ <<"cheatcodes", "killed">> \in faults

FromForge == sub.mode \in {"test", "manifest"}

(* What each check may rely on. *)
Passed ==
  /\ at \in AfterSignature => sub.mode = "over_accept"
                                \/ (~Unanalyzed /\ sub.scope # "param")
  /\ at \in AfterScan => Scanned
  /\ at \in AfterForge => sub.reproduces
  /\ at = "solc_rejects" => sub.mode = "over_accept"
  /\ at = "forge" => sub.mode = "test"
  /\ at \in {"returns", "measure"} => FromForge
  /\ at = "measure" => sub.scope # "return"
  /\ at \in AfterMeasure => /\ FromForge => measured /\ sub.scope # "return"
                            /\ sub.mode = "over_accept" => sub.solc # "accepts"
  /\ measured => FromForge
  /\ at \in AfterGate => sub.scope # "gate"
  /\ at = "lean" => ~Unanalyzed /\ sub.lean \notin {"unsupported", "excluded"}
  /\ at = "compare" => LeanRuns /\ sub.mode # "over_accept"

(* What the classification of the Lean run says. *)
ResultIsTrue ==
  /\ result \in Results /\ (at = "classify" => result # "none")
  /\ result = "ok" => LeanRuns /\ ~Unanalyzed
  /\ result = "rejected" => sub.lean = "rejects"
  /\ (result = "refused" /\ \A f \in faults : f[1] # "import") =>
       Unanalyzed \/ sub.lean = "unsupported"

(* The inductive invariant. *)
IInv ==
  /\ sub \in Submission /\ Submitted(sub)
  /\ ran # {} => Scanned
  /\ at \in Checks => verdict = "none"
  /\ Passed /\ ResultIsTrue
  /\ GapsAreReal

-----------------------------------------------------------------------------
USE DEF Keeps, Quiet, Breaks, LookupFails, Goto, Report, Raise

(* The submission does not change, and failures are not forgotten. *)
LEMMA Monotone ==
  ASSUME Next
  PROVE  sub' = sub /\ faults \subseteq faults'
  BY DEF Next, Load, Signature, SourceAsts, ParseOnly, Cheatcodes, SolcRejects,
    Forge, ReturnTypes, Measure, Gate, SourceOfContract, Import, Lean, Classify,
    Compare

(* Every check keeps the invariant. *)
LEMMA Step == IInv /\ [Next]_vars => IInv'
<1> SUFFICES ASSUME IInv, Next PROVE IInv'
  <2>1. CASE UNCHANGED vars
    BY <2>1 DEF vars, IInv, Passed, ResultIsTrue, GapsAreReal, Submitted, Scanned,
      FromForge, LeanRuns, Unanalyzed
  <2> QED
    BY <2>1
<1>a. sub' = sub /\ faults \subseteq faults'
  BY Monotone
<1>b. (Scanned => Scanned') /\ Submitted(sub)' /\ (sub \in Submission)'
      /\ Unanalyzed' = Unanalyzed /\ LeanRuns' = LeanRuns /\ FromForge' = FromForge
  BY <1>a DEF IInv, Submitted, Scanned, Unanalyzed, LeanRuns, FromForge
<1> USE DEF IInv, Passed, ResultIsTrue, GapsAreReal, Results, Checks, AfterGate,
  AfterMeasure, AfterForge, AfterScan, AfterSignature
<1>1. CASE Load
  BY <1>1, <1>a, <1>b DEF Load, Submitted
<1>2. CASE Signature
  BY <1>2, <1>a, <1>b DEF Signature, Unanalyzed
<1>3. CASE SourceAsts
  BY <1>3, <1>a, <1>b DEF SourceAsts, Unanalyzed
<1>4. CASE ParseOnly
  BY <1>4, <1>a, <1>b DEF ParseOnly, Submitted, Unanalyzed
<1>5. CASE Cheatcodes
  BY <1>5, <1>a, <1>b
    DEF Cheatcodes, Scanned, RealBehavior, Submission, Submitted, FromForge
<1>6. CASE SolcRejects
  BY <1>6, <1>a, <1>b DEF SolcRejects, FromForge, Submitted
<1>7. CASE Forge
  BY <1>7, <1>a, <1>b DEF Forge, FromForge, Submitted
<1>8. CASE ReturnTypes
  BY <1>8, <1>a, <1>b DEF ReturnTypes, FromForge
<1>9. CASE Measure
  <2>1. Passed'
    BY <1>9, <1>a, <1>b DEF Measure, FromForge
  <2>2. ResultIsTrue'
    BY <1>9, <1>a, <1>b DEF Measure, FromForge
  <2>3. GapsAreReal'
    BY <1>9, <1>a, <1>b DEF Measure, FromForge
  <2> QED
    BY <1>9, <2>1, <2>2, <2>3, <1>a, <1>b DEF Measure
<1>10. CASE Gate
  BY <1>10, <1>a, <1>b DEF Gate, Submitted
<1>11. CASE SourceOfContract
  BY <1>11, <1>a, <1>b DEF SourceOfContract
<1>12. CASE Import
  <2>1. CASE \A how \in {"timeout", "killed", "oserror"} : ~Breaks(how)
    <3>1. Passed'
      BY <1>12, <2>1, <1>a, <1>b DEF Import, Submission
    <3>2. ResultIsTrue'
      BY <1>12, <2>1, <1>a, <1>b DEF Import
    <3> QED
      BY <1>12, <2>1, <3>1, <3>2, <1>a, <1>b DEF Import
  <2>2. ASSUME NEW how \in {"timeout", "killed", "oserror"}, Breaks(how)
        PROVE  IInv'
    <3>1. <<"import", how>> \in faults' /\ <<"import", how>>[1] = "import"
      BY <1>12, <2>2 DEF Import
    <3>2. ResultIsTrue'
      BY <1>12, <3>1, <1>a, <1>b DEF Import
    <3> QED
      BY <1>12, <2>2, <3>2, <1>a, <1>b DEF Import
  <2> QED
    BY <1>12, <2>1, <2>2 DEF Import
<1>13. CASE Lean
  BY <1>13, <1>a, <1>b DEF Lean, LeanRuns, Submission
<1>14. CASE Classify
  <2>0. at' = "done" \/ (at' = "compare" /\ result = "ok" /\ sub.mode # "over_accept")
    BY <1>14 DEF Classify
  <2>1. Passed'
    BY <1>14, <2>0, <1>a, <1>b
      DEF Classify, LeanRuns, Scanned, Submission, Submitted, Unanalyzed, FromForge
  <2>2. ResultIsTrue'
    BY <1>14, <1>a, <1>b
      DEF Classify, LeanRuns, Scanned, Submission, Submitted, Unanalyzed, FromForge
  <2>3. GapsAreReal'
    BY <1>14, <1>a, <1>b, ZenonT(30)
      DEF Classify, LeanRuns, Scanned, Submission, Submitted, Unanalyzed, FromForge
  <2> QED
    BY <1>14, <2>1, <2>2, <2>3, <1>a, <1>b DEF Classify
<1>15. CASE Compare
  <2>1. Passed'
    BY <1>15, <1>a, <1>b DEF Compare, LeanRuns, Scanned, Submission, FromForge
  <2>2. ResultIsTrue'
    <3>1. result' = result /\ at' # "classify"
      BY <1>15 DEF Compare
    <3> QED
      BY <3>1, <1>a, <1>b
  <2>3. GapsAreReal'
    BY <1>15, <1>a, <1>b DEF Compare, LeanRuns, Scanned, Submission, FromForge
  <2> QED
    BY <1>15, <2>1, <2>2, <2>3, <1>a, <1>b DEF Compare
<1> QED
  BY <1>1, <1>2, <1>3, <1>4, <1>5, <1>6, <1>7, <1>8, <1>9,
    <1>10, <1>11, <1>12, <1>13, <1>14, <1>15
    DEF Next

LEMMA Start == Init => IInv
  BY
    DEF Init, IInv, Passed, ResultIsTrue, GapsAreReal, Results, Checks, AfterGate,
    AfterMeasure, AfterForge, AfterScan, AfterSignature

LEMMA Invariant == Spec => []IInv
  BY Start, Step, PTL DEF Spec

(* Whatever fails, and however often: a reported gap is there, but for a solc
   that fails when the errors are looked up and an importer that fails
   (adjudicate, steps 3a to 3c). *)
THEOREM ReportedGapsAreReal == Spec => []GapsAreReal
<1>1. IInv => GapsAreReal
  BY DEF IInv
<1> QED
  BY <1>1, Invariant, PTL

(* Whatever fails: submitted code runs only after the cheatcode scan cleared it
   (adjudicate, step 0b), unless the solc that parses the test was killed. *)
THEOREM ScanIsFirst == Spec => []NothingRunsBeforeTheGate
<1>1. IInv => NothingRunsBeforeTheGate
  BY DEF IInv, Scanned, NothingRunsBeforeTheGate
<1> QED
  BY <1>1, Invariant, PTL

-----------------------------------------------------------------------------
(* Types.  The number of failures is bounded, which needs the set finite. *)
TypeInv == TypeOK /\ IsFiniteSet(faults)

Hows == {"timeout", "killed", "oserror", "undecodable"}

LEMMA OneMore ==
  ASSUME NEW S, NEW x, IsFiniteSet(S)
  PROVE  /\ IsFiniteSet(S \cup {x}) /\ Cardinality(S) \in Nat
         /\ Cardinality(S \cup {x}) \in {Cardinality(S), Cardinality(S) + 1}
  BY FS_AddElement, FS_CardinalityType

LEMMA FaultsBounded ==
  ASSUME TypeInv, at \in Checks, NEW how \in Hows, Breaks(how)
  PROVE  /\ faults' \subseteq Checks \X Hows /\ IsFiniteSet(faults')
         /\ Cardinality(faults') <= MaxFaults
<1>1. faults' = faults \cup {<<at, how>>} /\ Cardinality(faults) < MaxFaults
  OBVIOUS
<1>2. /\ IsFiniteSet(faults') /\ Cardinality(faults) \in Nat
      /\ Cardinality(faults') \in {Cardinality(faults), Cardinality(faults) + 1}
  <2>1. IsFiniteSet(faults)
    BY DEF TypeInv
  <2> QED
    BY <1>1, <2>1, OneMore, ZenonT(30)
<1>3. faults' \subseteq Checks \X Hows
  BY <1>1 DEF TypeInv, TypeOK, Hows
<1> QED
  BY <1>1, <1>2, <1>3, AdjudicateAssumption

LEMMA FaultsInRange ==
  ASSUME TypeInv, Next
  PROVE  /\ faults' \subseteq Checks \X Hows /\ IsFiniteSet(faults')
         /\ Cardinality(faults') <= MaxFaults
<1>1. at \in Checks
  BY DEF Next, Load, Signature, SourceAsts, ParseOnly, Cheatcodes, SolcRejects,
    Forge, ReturnTypes, Measure, Gate, SourceOfContract, Import, Lean, Classify,
    Compare, Checks
<1>2. Quiet \/ \E how \in Hows : Breaks(how)
  BY DEF Next, Load, Signature, SourceAsts, ParseOnly, Cheatcodes, SolcRejects,
    Forge, ReturnTypes, Measure, Gate, SourceOfContract, Import, Lean, Classify,
    Compare, Hows
<1>3. CASE Quiet
  BY <1>3 DEF TypeInv, TypeOK, Hows
<1>4. CASE \E how \in Hows : Breaks(how)
  BY <1>1, <1>4, FaultsBounded
<1> QED
  BY <1>2, <1>3, <1>4

LEMMA TypeStep == IInv /\ TypeInv /\ [Next]_vars => TypeInv'
<1> SUFFICES ASSUME IInv, TypeInv, Next PROVE TypeInv'
  BY DEF vars, TypeInv, TypeOK
<1>a. faults' \subseteq Checks \X Hows /\ IsFiniteSet(faults')
      /\ Cardinality(faults') <= MaxFaults /\ sub' = sub
  BY FaultsInRange, Monotone
<1> HIDE DEF Quiet, Breaks, LookupFails
<1> USE DEF TypeInv, TypeOK, Checks, Results, Verdicts, Hows
<1>1. CASE Load
  BY <1>1, <1>a DEF Load
<1>2. CASE Signature
  BY <1>2, <1>a DEF Signature
<1>3. CASE SourceAsts
  BY <1>3, <1>a DEF SourceAsts
<1>4. CASE ParseOnly
  BY <1>4, <1>a DEF ParseOnly
<1>5. CASE Cheatcodes
  BY <1>5, <1>a DEF Cheatcodes, RealBehavior, Submission
<1>6. CASE SolcRejects
  BY <1>6, <1>a DEF SolcRejects
<1>7. CASE Forge
  BY <1>7, <1>a DEF Forge
<1>8. CASE ReturnTypes
  BY <1>8, <1>a DEF ReturnTypes
<1>9. CASE Measure
  BY <1>9, <1>a DEF Measure
<1>10. CASE Gate
  BY <1>10, <1>a DEF Gate
<1>11. CASE SourceOfContract
  BY <1>11, <1>a DEF SourceOfContract
<1>12. CASE Import
  BY <1>12, <1>a DEF Import
<1>13. CASE Lean
  BY <1>13, <1>a DEF Lean, IInv, Passed, Submission
<1>14. CASE Classify
  BY <1>14, <1>a DEF Classify, IInv, ResultIsTrue, Submission
<1>15. CASE Compare
  BY <1>15, <1>a DEF Compare
<1> QED
  BY <1>1, <1>2, <1>3, <1>4, <1>5, <1>6, <1>7, <1>8, <1>9,
    <1>10, <1>11, <1>12, <1>13, <1>14, <1>15
    DEF Next

(* Every variable stays in its type, for every number of failures; a verdict
   and the end of the adjudication come together (adjudicate's returns). *)
THEOREM TypeCorrect == Spec => []TypeOK
<1>1. Init => TypeInv
  <2> SUFFICES ASSUME Init PROVE TypeInv
    OBVIOUS
  <2>1. IsFiniteSet(faults) /\ Cardinality(faults) <= MaxFaults
    BY FS_EmptySet, AdjudicateAssumption DEF Init
  <2> QED
    BY <2>1 DEF Init, TypeInv, TypeOK, Checks, Results, Verdicts
<1>2. TypeInv => TypeOK
  BY DEF TypeInv
<1> QED
  BY <1>1, <1>2, TypeStep, Invariant, PTL DEF Spec


-----------------------------------------------------------------------------
(* While no tool has failed, each check has established more, and nothing but
   a verdict that is deserved ends the chain. *)
AfterLoad == AfterSignature \cup {"signature"}

Established ==
  /\ at # "raised"
  /\ at \in AfterLoad => sub.malformed # "claim"
  /\ at = "signature" => sub.mode # "over_accept"
  /\ at \in AfterSignature => sub.mode = "over_accept" \/ sub.malformed # "entry"
  /\ at = "parse" => sub.mode = "over_accept" /\ Unanalyzed
  /\ at \in AfterScan \cup {"cheatcodes"} => sub.solc # "parsing"
  /\ at \in AfterScan => sub.banned = "no"
  /\ at \in AfterMeasure => (FromForge => sub.solc = "accepts")
  /\ at = "classify" =>
       /\ result = "refused" => Unanalyzed \/ sub.lean = "unsupported"
       /\ result = "excluded" => sub.lean = "excluded"
       /\ result = "stopped" => sub.lean = "stops"
       /\ result # "inconclusive"

FaultFree == faults = {} => Established /\ HasItsReason

(* A failed tool leaves the fault-free runs. *)
LEMMA BreaksAreFaults ==
  ASSUME NEW how, Breaks(how)
  PROVE  faults' # {}
  OBVIOUS

LEMMA FaultFreeStep == IInv /\ FaultFree /\ [Next]_vars => FaultFree'
<1> SUFFICES ASSUME IInv, FaultFree, Next, faults' = {}
             PROVE  Established' /\ HasItsReason'
  <2>1. CASE UNCHANGED vars
    BY <2>1 DEF vars, FaultFree, Established, HasItsReason, Unanalyzed, LeanRuns,
      FromForge
  <2> QED
    BY <2>1 DEF FaultFree
<1>a. sub' = sub /\ faults = {}
  BY Monotone
<1>b. /\ Established /\ Passed /\ ResultIsTrue /\ Submitted(sub) /\ sub \in Submission
      /\ at \in Checks => verdict = "none"
  BY <1>a DEF FaultFree, IInv
<1>c. \A how : ~Breaks(how)
  BY BreaksAreFaults
<1>d. ~LookupFails
  BY <1>c DEF LookupFails
<1> HIDE DEF Breaks, LookupFails
<1>e. Unanalyzed' = Unanalyzed /\ LeanRuns' = LeanRuns /\ FromForge' = FromForge
  BY <1>a DEF Unanalyzed, LeanRuns, FromForge
<1> USE <1>a, <1>b, <1>c, <1>d, <1>e DEF Established, Passed, AfterLoad, AfterGate,
  AfterMeasure, AfterForge, AfterScan, AfterSignature, HasItsReason, Checks
<1>1. CASE Load
  BY <1>1 DEF Load, HasItsReason
<1>2. CASE Signature
  BY <1>2 DEF Signature, HasItsReason, Submitted, Submission, Unanalyzed
<1>3. CASE SourceAsts
  BY <1>3 DEF SourceAsts, Unanalyzed
<1>4. CASE ParseOnly
  BY <1>4 DEF ParseOnly, HasItsReason, Unanalyzed
<1>5. CASE Cheatcodes
  BY <1>5 DEF Cheatcodes, RealBehavior, Submission, FromForge
<1>6. CASE SolcRejects
  BY <1>6 DEF SolcRejects, HasItsReason, FromForge
<1>7. CASE Forge
  BY <1>7 DEF Forge, HasItsReason
<1>8. CASE ReturnTypes
  BY <1>8 DEF ReturnTypes, HasItsReason
<1>9. CASE Measure
  BY <1>9 DEF Measure, HasItsReason, FromForge, Unanalyzed, Submission
<1>10. CASE Gate
  BY <1>10 DEF Gate, HasItsReason
<1>11. CASE SourceOfContract
  BY <1>11 DEF SourceOfContract, HasItsReason
<1>12. CASE Import
  BY <1>12 DEF Import, HasItsReason
<1>13. CASE Lean
  BY <1>13 DEF Lean, HasItsReason, Submission, LeanRuns
<1>14. CASE Classify
  <2>1. Established'
    BY <1>14 DEF Classify, Submission, ResultIsTrue, FromForge, Results
  <2>2. CASE sub.mode = "over_accept"
    <3>1. CASE result = "ok"
      BY <1>14, <2>2, <3>1
        DEF Classify, HasItsReason, ResultIsTrue, Unanalyzed, LeanRuns, Submission, Submitted
    <3>2. CASE result # "ok"
      BY <1>14, <2>1, <2>2, <3>2
        DEF Classify, HasItsReason, ResultIsTrue, Unanalyzed, LeanRuns, Results
    <3> QED
      BY <3>1, <3>2
  <2>3. CASE sub.mode # "over_accept"
    <3>1. CASE result \in {"inconclusive", "stopped", "excluded"}
      BY <1>14, <2>1, <2>3, <3>1 DEF Classify
    <3>2. CASE result \in {"refused", "rejected"}
      <4>1. /\ at' = "done" /\ verdict' = "COVERAGE_GAP"
            /\ sub.lean \in {"unsupported", "rejects"}
        BY <1>14, <2>3, <3>2 DEF Classify, ResultIsTrue
      <4>2. /\ sub.banned = "no" /\ sub.scope \in {"in", "return", "revert"}
            /\ sub.mode # "skip_forge" => sub.solc = "accepts" /\ sub.reproduces
        BY <1>14, <2>3 DEF Classify, Submission, FromForge
      <4> QED
        BY <2>1, <2>3, <4>1, <4>2
    <3>3. CASE result = "ok"
      BY <1>14, <2>1, <2>3, <3>3 DEF Classify
    <3> QED
      BY <1>14, <3>1, <3>2, <3>3 DEF Classify, ResultIsTrue, Results
  <2> QED
    BY <2>2, <2>3
<1>15. CASE Compare
  <2>1. CASE ~measured
    BY <1>15, <2>1, ZenonT(30) DEF Compare, FromForge, Submission
  <2>2. CASE measured /\ sub.scope = "revert"
    BY <1>15, <2>2 DEF Compare
  <2>3. CASE measured /\ sub.scope # "revert"
    <3>1. /\ FromForge /\ sub.scope = "in" /\ sub.banned = "no" /\ LeanRuns
          /\ sub.solc = "accepts" /\ sub.reproduces /\ sub.mode # "over_accept"
      BY <1>15, <2>3 DEF Compare, Submission
    <3>2. /\ at' = "done"
          /\ verdict' = IF sub.lean = "agrees" THEN "NO_DIVERGENCE" ELSE "SOUNDNESS_GAP"
      BY <1>15, <2>3 DEF Compare
    <3> QED
      BY <3>1, <3>2 DEF LeanRuns
  <2> QED
    BY <2>1, <2>2, <2>3
<1> QED
  BY <1>1, <1>2, <1>3, <1>4, <1>5, <1>6, <1>7, <1>8, <1>9,
    <1>10, <1>11, <1>12, <1>13, <1>14, <1>15
    DEF Next

(* While every tool works, the adjudication does not raise and its verdict is
   one that the submission deserves (adjudicate). *)
THEOREM VerdictsHaveReasons == Spec => []EveryVerdictHasItsReason
<1>1. Init => FaultFree
  BY DEF Init, FaultFree, Established, HasItsReason, AfterLoad, AfterGate, AfterMeasure,
    AfterForge, AfterScan, AfterSignature
<1>2. FaultFree => EveryVerdictHasItsReason
  BY DEF FaultFree, Established, HasItsReason, EveryVerdictHasItsReason
<1> QED
  BY <1>1, <1>2, FaultFreeStep, Invariant, PTL DEF Spec

-----------------------------------------------------------------------------
(* The gate.                                                               *)

Entered == submission.sources[submission.entry]
Observed == {"return", "emit", "assert"}

(* An entry source in which something is observed has no node of an excluded
   quantity, so none gets anywhere; in one where nothing is, one may get
   anywhere else. *)
Kept ==
  IF ObservedFunctions(Entered) # {}
  THEN \A p \in Places : reached[p] \cap ExcludedAt(submission.at) = {}
  ELSE \A p \in Observed : reached[p] = {}

(* What was scanned is within its bounds, and is what Foundry did with a test of
   plain literals that stops no prank. *)
Mirrored ==
  ~scan.rejected =>
    /\ \A f \in Fields : scan.pins[f] \in -1 .. Bound(f) - 1
    /\ NothingStopped /\ OnlyLiterals => SameEnvironment

Shaped ==
  /\ scan = [rejected |-> scan.rejected, deals |-> scan.deals, pins |-> scan.pins]
  /\ foundry = [pins |-> foundry.pins, deals |-> foundry.deals]
  /\ DOMAIN scan.pins = Fields /\ DOMAIN foundry.pins = Fields

GateInv ==
  /\ reached \in [Places -> SUBSET Quantities]
  /\ scanned \in Nat /\ Shaped
  /\ outcome = "none" => scanned = 0
  /\ outcome # "none" => WellFormed(submission)
  /\ outcome # "PASS" => \A p \in Places : reached[p] = {}
  /\ outcome = "PASS" => RunGateOnAsts(submission.sources, submission.at) = "PASS" /\ Kept
  /\ outcome = "OUT_OF_SCOPE" /\ ~scan.rejected => RunGateOnAsts(submission.sources, submission.at) # "PASS"
  /\ Mirrored

(* A quantity that a node has is one that its row's detector finds (the
   detectors of the semantic rows). *)
LEMMA HoldsIsMatched ==
  ASSUME NEW n, NEW v, NEW q \in Quantities, Holds(q, n)
  PROVE  Matches(q, n, v)
<1>1. CASE q = "gas"
  BY <1>1 DEF Holds, Matches, Named, Member, HasOption, RefsBuiltin
<1>2. CASE q = "hash"
  BY <1>2 DEF Holds, Matches, Named, Member, HasOption, RefsBuiltin
<1>3. CASE q = "code"
  BY <1>3 DEF Holds, Matches, Named, Member, HasOption, RefsBuiltin
<1>4. CASE q = "create2"
  BY <1>4 DEF Holds, Matches, Named, Member, HasOption, RefsBuiltin
<1>5. CASE q = "stipend"
  BY <1>5 DEF Holds, Matches, Named, Member, HasOption, RefsBuiltin
<1> QED
  BY <1>1, <1>2, <1>3, <1>4, <1>5 DEF Quantities

(* A source that passes has no hit of a row in force (run_gate_on_asts). *)
LEMMA NoHits ==
  ASSUME NEW sources, NEW v, RunGateOnAsts(sources, v) = "PASS",
         NEW i \in DOMAIN sources, NEW row \in Semantic, IsActive(row, v)
  PROVE  Hits(row, sources[i], v) = {}
<1>1. sources[i] \in ToSet(sources)
  BY DEF ToSet
<1> QED
  BY <1>1 DEF RunGateOnAsts

(* Every node of a statement is a node of its source (iter_nodes). *)
LEMMA StatementNodes ==
  ASSUME NEW source, NEW f \in ToSet(source.functions), NEW st \in ToSet(f.body), NEW n \in st.nodes
  PROVE  n \in AllNodes(source)
<1>1. st \in StatementsOf(ToSet(source.functions))
  BY DEF StatementsOf
<1> QED
  BY <1>1 DEF AllNodes

(* Nothing excluded is in a statement of a source that passes and in which
   something is observed (_whole_source_taint_scan, _presence_scan). *)
LEMMA CleanStatements ==
  ASSUME NEW sources, NEW v, RunGateOnAsts(sources, v) = "PASS",
         NEW i \in DOMAIN sources, ObservedFunctions(sources[i]) # {},
         NEW f \in ToSet(sources[i].functions), NEW st \in ToSet(f.body),
         NEW n \in st.nodes, NEW q \in Quantities, Holds(q, n)
  PROVE  q \notin ExcludedAt(v)
<1> SUFFICES ASSUME q \in ExcludedAt(v) PROVE FALSE
  OBVIOUS
<1>1. PICK row \in Semantic : IsActive(row, v) /\ row.detector = q
  BY DEF ExcludedAt
<1> DEFINE flagged == {m \in AllNodes(sources[i]) : Matches(row.detector, m, v)}
<1>2. n \in flagged
  BY <1>1, HoldsIsMatched, StatementNodes
<1>3. WholeSourceTaintScan(flagged, sources[i]) = flagged
  BY DEF WholeSourceTaintScan
<1>4. Hits(row, sources[i], v) = flagged
  BY <1>3 DEF Hits
<1>5. Hits(row, sources[i], v) = {}
  BY <1>1, NoHits
<1> QED
  BY <1>2, <1>4, <1>5

(* The whitelist of the environment (CHEATCODE_ALLOW), and Foundry's. *)
Setting == {n \in DOMAIN CheatcodeAllow : CheatcodeAllow[n] \in Fields}
LEMMA Whitelist ==
  /\ Setting = {"roll", "warp", "chainId", "fee", "prevrandao", "prank", "startPrank"}
  /\ DOMAIN CheatcodeAllow = Setting \cup {"stopPrank", "deal"}
  /\ DOMAIN CheatcodeAllow \cap CheatcodeIgnore = {}
  /\ DOMAIN FoundrySets = Setting /\ \A n \in Setting : FoundrySets[n] = CheatcodeAllow[n]
<1>1. Setting = {"roll", "warp", "chainId", "fee", "prevrandao", "prank", "startPrank"}
  BY DEF Setting, CheatcodeAllow, Fields
<1> QED
  BY <1>1 DEF CheatcodeAllow, CheatcodeIgnore, FoundrySets

(* A literal without a unit is folded to what Solidity computes (_literal_int). *)
LEMMA LiteralIsComputed ==
  ASSUME NEW call, NEW values \in Arguments(call), NEW i \in DOMAIN call.args,
         call.args[i].op = "literal", call.args[i].unit = 1, LiteralInt(call.args[i])[1] \in Int
  PROVE  values[i] = LiteralInt(call.args[i])[1]
<1>1. values[i] \in Computed(call.args[i])
  BY DEF Arguments
<1>2. Computed(call.args[i]) = {call.args[i].value * 1}
  BY DEF Computed
<1>3. LiteralInt(call.args[i])[1] = call.args[i].value
  BY DEF LiteralInt
<1> QED
  BY <1>1, <1>2, <1>3

(* The next call of the test, scanned and performed (scan_cheatcodes). *)
LEMMA CallsAreMirrored ==
  ASSUME GateInv, ScanCheatcodes
  PROVE  Mirrored' /\ Shaped'
<1> DEFINE call == submission.test[scanned + 1]
           field == CheatcodeAllow[call.name]
           plain == NothingStopped' /\ OnlyLiterals'
<1>0. PICK values \in Arguments(call) : foundry' = FoundryCall(foundry, call.name, values)
  BY DEF ScanCheatcodes
<1>1. /\ scanned \in Nat /\ scan' = ScanCall(scan, call)
      /\ scanned' = scanned + 1 /\ submission' = submission /\ Shaped /\ Mirrored
  BY DEF GateInv, ScanCheatcodes
<1>2. /\ "stopPrank" \notin Setting /\ "deal" \notin Setting
      /\ DOMAIN CheatcodeAllow = Setting \cup {"stopPrank", "deal"}
      /\ DOMAIN CheatcodeAllow \cap CheatcodeIgnore = {}
      /\ DOMAIN FoundrySets = Setting /\ \A n \in Setting : FoundrySets[n] = CheatcodeAllow[n]
  BY Whitelist
<1>3. ASSUME plain
      PROVE  /\ NothingStopped /\ OnlyLiterals /\ call.name # "stopPrank"
             /\ call.name \in DOMAIN CheatcodeAllow =>
                  \A i \in DOMAIN call.args : call.args[i].op = "literal" /\ call.args[i].unit = 1
  <2>1. 1 .. scanned \subseteq 1 .. scanned' /\ scanned + 1 \in 1 .. scanned'
    BY <1>1
  <2>2. \A i \in DOMAIN call.args : call.args[i] \in ToSet(call.args)
    BY DEF ToSet
  <2> QED
    BY <1>1, <1>3, <2>1, <2>2 DEF NothingStopped, OnlyLiterals, Pinning
<1>4. scanned + 1 \in DOMAIN submission.test /\ WellFormed(submission)
  BY DEF GateInv, ScanCheatcodes
<1>5. Word160 \in Int /\ Word256 \in Int /\ \A f \in Fields : Bound(f) \in Int
  BY ScopeGateAssumption DEF Bound
<1> HIDE DEF call
<1>6. CASE call.name \in CheatcodeIgnore
  <2>1. scan' = scan /\ foundry' = foundry
    BY <1>0, <1>1, <1>2, <1>6 DEF ScanCall, FoundryCall
  <2> QED
    BY <1>1, <1>3, <2>1 DEF Mirrored, Shaped, SameEnvironment
<1>7. CASE call.name \notin DOMAIN CheatcodeAllow \cup CheatcodeIgnore
  <2>1. scan' = [scan EXCEPT !.rejected = TRUE] /\ foundry' = foundry
    BY <1>0, <1>1, <1>2, <1>7 DEF ScanCall, FoundryCall, Unmirrorable
  <2> QED
    BY <1>1, <2>1 DEF Mirrored, Shaped
<1>8. CASE call.name = "stopPrank"
  <2>1. scan' = scan
    BY <1>1, <1>2, <1>8 DEF ScanCall, Setting
  <2>2. foundry' = [foundry EXCEPT !.pins["_sender"] = -1]
    BY <1>0, <1>2, <1>8 DEF FoundryCall
  <2>3. Shaped'
    BY <1>1, <2>1, <2>2 DEF Shaped
  <2> QED
    BY <1>1, <1>3, <1>8, <2>1, <2>3 DEF Mirrored
<1>9. CASE call.name = "deal"
  <2>1. scan' = ScanDeal(scan, call.args)
    BY <1>1, <1>2, <1>9 DEF ScanCall, Setting
  <2>2. foundry' = [foundry EXCEPT !.deals = Append(@, <<values[1], values[2]>>)]
    BY <1>0, <1>2, <1>9 DEF FoundryCall
  <2> DEFINE a == LiteralInt(call.args[1])
             b == LiteralInt(call.args[2])
             taken == /\ Len(call.args) = 2 /\ a # <<>> /\ b # <<>>
                      /\ a[1] \in 0 .. Word160 - 1 /\ b[1] \in 0 .. Word256 - 1
  <2>3. DOMAIN call.args = 1 .. 2
    BY <1>4, <1>9 DEF WellFormed, call
  <2>4. scan' = IF taken THEN [scan EXCEPT !.deals = Append(@, <<a[1], b[1]>>)]
                ELSE [scan EXCEPT !.rejected = TRUE]
    <3> DEFINE folded == [i \in DOMAIN call.args |-> LiteralInt(call.args[i])]
    <3>1. folded[1] = a /\ folded[2] = b /\ DOMAIN folded = 1 .. 2
      BY <2>3
    <3>2. (\A i \in DOMAIN folded : folded[i] # <<>>) <=> (a # <<>> /\ b # <<>>)
      <4>1. \A i \in DOMAIN folded : i = 1 \/ i = 2
        BY <3>1
      <4> HIDE DEF folded, a, b
      <4> QED
        BY <3>1, <4>1
    <3>3. scan' = IF /\ Len(call.args) = 2 /\ \A i \in DOMAIN folded : folded[i] # <<>>
                     /\ folded[1][1] \in 0 .. Word160 - 1 /\ folded[2][1] \in 0 .. Word256 - 1
                  THEN [scan EXCEPT !.deals = Append(@, <<folded[1][1], folded[2][1]>>)]
                  ELSE [scan EXCEPT !.rejected = TRUE]
      BY <2>1 DEF ScanDeal, Unmirrorable
    <3> HIDE DEF folded, a, b
    <3> QED
      BY <3>1, <3>2, <3>3
  <2>5. ASSUME plain, taken
        PROVE  values[1] = a[1] /\ values[2] = b[1]
    <3>1. a[1] \in Int /\ b[1] \in Int /\ 1 \in DOMAIN call.args /\ 2 \in DOMAIN call.args
      BY <1>5, <2>3, <2>5
    <3>2. \A i \in DOMAIN call.args : call.args[i].op = "literal" /\ call.args[i].unit = 1
      BY <1>2, <1>3, <1>9, <2>5
    <3> QED
      BY <3>1, <3>2, LiteralIsComputed
  <2> HIDE DEF a, b
  <2>6. CASE taken
    <3>1. scan'.rejected = scan.rejected /\ scan'.pins = scan.pins /\ scan'.deals = Append(scan.deals, <<a[1], b[1]>>)
      BY <1>1, <2>4, <2>6 DEF Shaped
    <3>2. foundry'.pins = foundry.pins /\ foundry'.deals = Append(foundry.deals, <<values[1], values[2]>>)
      BY <1>1, <2>2 DEF Shaped
    <3>3. Shaped'
      BY <1>1, <2>2, <2>4, <2>6 DEF Shaped
    <3>4. ASSUME ~scan.rejected, plain PROVE SameEnvironment'
      BY <1>1, <1>3, <2>5, <2>6, <3>1, <3>2, <3>4 DEF Mirrored, SameEnvironment
    <3> QED
      BY <1>1, <3>1, <3>3, <3>4 DEF Mirrored
  <2>7. CASE ~taken
    <3>1. scan'.rejected
      BY <1>1, <2>4, <2>7 DEF Shaped
    <3>2. Shaped'
      BY <1>1, <2>2, <2>4, <2>7 DEF Shaped
    <3> QED
      BY <3>1, <3>2 DEF Mirrored
  <2> QED
    BY <2>6, <2>7
<1>10. CASE call.name \in Setting
  <2>1. scan' = ScanPin(scan, field, call.args) /\ foundry' = [foundry EXCEPT !.pins[field] = values[1]]
    BY <1>0, <1>1, <1>2, <1>10 DEF ScanCall, FoundryCall, Setting
  <2> DEFINE a == LiteralInt(call.args[1])
             taken == call.args # <<>> /\ a # <<>> /\ a[1] \in 0 .. Bound(field) - 1
  <2>2. scan' = IF taken THEN [scan EXCEPT !.pins[field] = a[1]] ELSE [scan EXCEPT !.rejected = TRUE]
    BY <2>1 DEF ScanPin, Unmirrorable
  <2>3. field \in Fields
    BY <1>10 DEF Setting
  <2>4. ASSUME plain, taken PROVE values[1] = a[1]
    <3>1. a[1] \in Int
      BY <1>5, <2>3, <2>4
    <3>2. 1 \in DOMAIN call.args
      BY <1>2, <1>4, <1>10 DEF WellFormed, call
    <3>3. call.args[1].op = "literal" /\ call.args[1].unit = 1
      BY <1>2, <1>3, <1>10, <2>4, <3>2
    <3> QED
      BY <3>1, <3>2, <3>3, LiteralIsComputed
  <2> HIDE DEF a, field
  <2>5. CASE taken
    <3>1. /\ scan'.rejected = scan.rejected /\ scan'.deals = scan.deals
          /\ scan'.pins = [scan.pins EXCEPT ![field] = a[1]]
      BY <1>1, <2>2, <2>5 DEF Shaped
    <3>2. foundry'.deals = foundry.deals /\ foundry'.pins = [foundry.pins EXCEPT ![field] = values[1]]
      BY <1>1, <2>1 DEF Shaped
    <3>3. Shaped'
      BY <1>1, <2>1, <2>2, <2>5 DEF Shaped
    <3>4. ASSUME ~scan.rejected PROVE \A f \in Fields : scan'.pins[f] \in -1 .. Bound(f) - 1
      <4> SUFFICES ASSUME NEW f \in Fields PROVE scan'.pins[f] \in -1 .. Bound(f) - 1
        OBVIOUS
      <4>1. CASE f = field
        BY <1>1, <1>5, <2>5, <3>1, <4>1 DEF Shaped
      <4>2. CASE f # field
        BY <1>1, <3>1, <3>4, <4>2 DEF Shaped, Mirrored
      <4> QED
        BY <4>1, <4>2
    <3>5. ASSUME ~scan.rejected, plain PROVE SameEnvironment'
      BY <1>1, <1>3, <2>4, <2>5, <3>1, <3>2, <3>5 DEF Mirrored, SameEnvironment
    <3> QED
      BY <1>1, <3>1, <3>3, <3>4, <3>5 DEF Mirrored
  <2>6. CASE ~taken
    <3>1. scan'.rejected
      BY <1>1, <2>2, <2>6 DEF Shaped
    <3>2. Shaped'
      BY <1>1, <2>1, <2>2, <2>6 DEF Shaped
    <3> QED
      BY <3>1, <3>2 DEF Mirrored
  <2> QED
    BY <2>5, <2>6
<1> QED
  BY <1>2, <1>6, <1>7, <1>8, <1>9, <1>10

(* A statement that is executed puts nothing excluded where it can be observed. *)
LEMMA ExecutionKeeps ==
  ASSUME GateInv, Execute
  PROVE  Kept' /\ reached' \in [Places -> SUBSET Quantities]
<1>0. PICK f \in ToSet(Entered.functions) : \E st \in ToSet(f.body) :
        reached' = [reached EXCEPT ![st.to] = @ \cup Value(st)]
  BY DEF Execute, Entered
<1>1. PICK st \in ToSet(f.body) : reached' = [reached EXCEPT ![st.to] = @ \cup Value(st)]
  BY <1>0
<1>2. /\ outcome = "PASS" /\ submission' = submission /\ Kept
      /\ RunGateOnAsts(submission.sources, submission.at) = "PASS" /\ WellFormed(submission)
      /\ reached \in [Places -> SUBSET Quantities]
  BY DEF Execute, GateInv
<1>3. /\ submission.entry \in DOMAIN submission.sources /\ st.to \in Places /\ st.reads \subseteq Places
      /\ f.kind = "initializer" => st.to = "storage"
  BY <1>2 DEF WellFormed, Entered
<1>4. Value(st) \subseteq Quantities
  BY <1>2, <1>3 DEF Value
<1>5. /\ reached' \in [Places -> SUBSET Quantities]
      /\ \A p \in Places : reached'[p] = IF p = st.to THEN reached[p] \cup Value(st) ELSE reached[p]
  BY <1>1, <1>2, <1>3, <1>4
<1>6. Entered' = Entered /\ ExcludedAt(submission.at)' = ExcludedAt(submission.at)
  BY <1>2 DEF Entered
<1>7. CASE ObservedFunctions(Entered) # {}
  <2>1. \A p \in Places : reached[p] \cap ExcludedAt(submission.at) = {}
    BY <1>2, <1>7 DEF Kept
  <2>2. \A n \in st.nodes : \A q \in Quantities : Holds(q, n) => q \notin ExcludedAt(submission.at)
    BY <1>2, <1>3, <1>7, CleanStatements DEF Entered
  <2>3. Value(st) \cap ExcludedAt(submission.at) = {}
    BY <1>3, <2>1, <2>2 DEF Value
  <2>4. \A p \in Places : reached'[p] \cap ExcludedAt(submission.at) = {}
    BY <1>5, <2>1, <2>3
  <2>5. ObservedFunctions(Entered)' # {}
    BY <1>6, <1>7
  <2> QED
    BY <1>2, <1>5, <2>4, <2>5 DEF Kept
<1>8. CASE ObservedFunctions(Entered) = {}
  <2>1. st.to \notin Observed
    <3>1. CASE f.kind = "initializer"
      BY <1>3, <3>1 DEF Observed
    <3>2. CASE f.kind # "initializer"
      <4>1. f \in Functions(Entered)
        BY <3>2 DEF Functions
      <4> QED
        BY <1>8, <4>1 DEF ObservedFunctions, ObservedPosition, Observed
    <3> QED
      BY <3>1, <3>2
  <2>2. \A p \in Observed : p \in Places /\ reached[p] = {}
    BY <1>2, <1>8 DEF Kept, Observed, Places
  <2>3. \A p \in Observed : reached'[p] = {}
    BY <1>5, <2>1, <2>2
  <2>4. ~(ObservedFunctions(Entered)' # {})
    BY <1>6, <1>8
  <2> QED
    BY <1>5, <2>3, <2>4 DEF Kept
<1> QED
  BY <1>7, <1>8

LEMMA GateInvariant == GateSpec => []GateInv
<1>1. GateInit => GateInv
  <2> SUFFICES ASSUME GateInit PROVE GateInv
    OBVIOUS
  <2>1. Shaped
    BY DEF GateInit, Shaped, NoScan, NoPins
  <2>2. Mirrored
    <3>1. \A f \in Fields : Bound(f) \in Nat
      BY ScopeGateAssumption DEF Bound
    <3> QED
      BY <3>1 DEF GateInit, Mirrored, SameEnvironment, NoScan, NoPins
  <2> QED
    BY <2>1, <2>2 DEF GateInit, GateInv
<1>2. GateInv /\ [GateNext]_gateVars => GateInv'
  <2> SUFFICES ASSUME GateInv, [GateNext]_gateVars PROVE GateInv'
    OBVIOUS
  <2>1. CASE Submit
    <3>1. /\ outcome = "none" /\ WellFormed(submission') /\ outcome' = "scanning" /\ scanned' = scanned
          /\ scan' = scan /\ foundry' = foundry /\ reached' = reached /\ scanned = 0
      BY <2>1 DEF Submit, GateInv
    <3>2. Shaped'
      BY <3>1 DEF GateInv, Shaped
    <3>3. Mirrored'
      <4>1. 1 .. scanned' = {}
        BY <3>1
      <4> QED
        BY <3>1, <4>1 DEF GateInv, Mirrored, SameEnvironment, NothingStopped, OnlyLiterals
    <3> QED
      BY <3>1, <3>2, <3>3 DEF GateInv
  <2>2. CASE ScanCheatcodes
    <3>1. Mirrored' /\ Shaped'
      BY <2>2, CallsAreMirrored
    <3> QED
      BY <2>2, <3>1 DEF GateInv, ScanCheatcodes
  <2>3. CASE RunGate
    <3>1. /\ submission' = submission /\ scanned' = scanned /\ scan' = scan /\ foundry' = foundry
          /\ reached' = reached /\ outcome = "scanning"
          /\ outcome' = IF scan.rejected THEN "OUT_OF_SCOPE"
                        ELSE RunGateOnAsts(submission.sources, submission.at)
          /\ \A p \in Places : reached[p] = {}
      BY <2>3 DEF RunGate, GateInv
    <3>2. Shaped' /\ Mirrored'
      BY <3>1 DEF GateInv, Shaped, Mirrored, SameEnvironment, NothingStopped, OnlyLiterals
    <3>3. Kept'
      BY <3>1 DEF Kept, Observed, Places
    <3>4. RunGateOnAsts(submission.sources, submission.at) \in {"OUT_OF_SCOPE", "PASS"}
      BY DEF RunGateOnAsts
    <3> QED
      BY <3>1, <3>2, <3>3, <3>4 DEF GateInv
  <2>4. CASE Execute
    <3>1. /\ submission' = submission /\ scanned' = scanned /\ scan' = scan /\ foundry' = foundry
          /\ outcome = "PASS" /\ outcome' = outcome
      BY <2>4 DEF Execute
    <3>2. Shaped' /\ Mirrored'
      BY <3>1 DEF GateInv, Shaped, Mirrored, SameEnvironment, NothingStopped, OnlyLiterals
    <3>3. Kept' /\ reached' \in [Places -> SUBSET Quantities]
      BY <2>4, ExecutionKeeps
    <3> QED
      BY <3>1, <3>2, <3>3 DEF GateInv
  <2>5. CASE UNCHANGED gateVars
    <3>1. /\ submission' = submission /\ scanned' = scanned /\ scan' = scan /\ foundry' = foundry
          /\ outcome' = outcome /\ reached' = reached
      BY <2>5 DEF gateVars
    <3>2. Shaped' /\ Mirrored' /\ (Kept <=> Kept')
      BY <3>1 DEF GateInv, Shaped, Mirrored, SameEnvironment, NothingStopped, OnlyLiterals, Kept, Entered
    <3> QED
      BY <3>1, <3>2 DEF GateInv
  <2> QED
    BY <2>1, <2>2, <2>3, <2>4, <2>5 DEF GateNext
<1> QED
  BY <1>1, <1>2, PTL DEF GateSpec

(* No value of a quantity that a row excludes is returned, emitted or asserted by
   a source that passes, whatever it keeps it in and for every version of the
   register (run_gate_on_asts). *)
THEOREM ExcludedNotObserved == GateSpec => []NoExcludedValueIsReturned
<1>1. GateInv => NoExcludedValueIsReturned
  BY DEF GateInv, NoExcludedValueIsReturned, Kept, Observed, Places
<1> QED
  BY <1>1, GateInvariant, PTL

(* A version is before 1.k unless it is since 1.k (_semver_lt). *)
LEMMA BeforeOrSince ==
  ASSUME NEW v \in Seq(Nat), NEW k \in Nat
  PROVE  SemverLt(v, V(k)) <=> ~Since(v, k)
<1>1. Len(V(k)) = 3 /\ Len(v) \in Nat /\ \A i \in Nat \ {0} : Part(v, i) \in Nat
  BY DEF V, Part
<1>2. Part(V(k), 1) = 1 /\ Part(V(k), 2) = k /\ \A i \in Nat \ {0, 1, 2} : Part(V(k), i) = 0
  BY DEF V, Part
<1> HIDE DEF V
<1>3. ASSUME SemverLt(v, V(k)) PROVE ~Since(v, k)
  <2>1. PICK i \in 1 .. Len(v) + Len(V(k)) :
          Part(v, i) < Part(V(k), i) /\ \A j \in 1 .. i - 1 : Part(v, j) = Part(V(k), j)
    BY <1>3 DEF SemverLt
  <2>2. i \in Nat \ {0} /\ Part(v, i) \in Nat
    BY <1>1, <2>1
  <2>3. i = 1 \/ i = 2
    BY <1>2, <2>1, <2>2
  <2>4. CASE i = 1
    BY <1>2, <2>1, <2>2, <2>4 DEF Since
  <2>5. CASE i = 2
    BY <1>2, <2>1, <2>2, <2>5 DEF Since
  <2> QED
    BY <2>3, <2>4, <2>5
<1>4. ASSUME ~Since(v, k) PROVE SemverLt(v, V(k))
  <2>1. Part(v, 1) \in Nat /\ Part(v, 2) \in Nat
    BY <1>1
  <2>2. Part(v, 1) < 1 \/ (Part(v, 1) = 1 /\ Part(v, 2) < k)
    BY <1>4, <2>1 DEF Since
  <2>3. 1 \in 1 .. Len(v) + Len(V(k)) /\ 2 \in 1 .. Len(v) + Len(V(k))
    BY <1>1
  <2>4. 1 .. 1 - 1 = {} /\ 1 .. 2 - 1 = {1}
    OBVIOUS
  <2>5. CASE Part(v, 1) < 1
    BY <1>2, <2>3, <2>4, <2>5 DEF SemverLt
  <2>6. CASE Part(v, 1) = 1 /\ Part(v, 2) < k
    BY <1>2, <2>3, <2>4, <2>6 DEF SemverLt
  <2> QED
    BY <2>2, <2>5, <2>6
<1> QED
  BY <1>3, <1>4

(* What the register in force leaves in scope matches none of its rows (the
   detectors). *)
LEMMA InScopeUnmatched ==
  ASSUME NEW v \in Seq(Nat), NEW n, InScope(n, v),
         NEW row \in Syntactic \cup Semantic, IsActive(row, v)
  PROVE  ~Matches(row.detector, n, v)
<1>1. ~Since(v, 6) \/ ~SemverLt(v, V(6))
  BY BeforeOrSince
<1>2. row.detector = "fixed_point" => ~Since(v, 5)
  <2>1. row.detector = "fixed_point" => row.removed = V(5) /\ V(5) # Never
    BY DEF Syntactic, Semantic, Entry, V, Never
  <2>2. row.detector = "fixed_point" => SemverLt(v, V(5))
    BY <2>1 DEF IsActive
  <2> QED
    BY <2>2, BeforeOrSince
<1>3. row.detector = "external_call" => Since(v, 2)
  <2>1. row.detector = "external_call" => row.since = V(2)
    BY DEF Syntactic, Semantic, Entry
  <2>2. row.detector = "external_call" => ~SemverLt(v, V(2))
    BY <2>1 DEF IsActive
  <2> QED
    BY <2>2, BeforeOrSince
<1>4. row.detector = "hash" => Since(v, 1)
  <2>1. row.detector = "hash" => row.since = V(1)
    BY DEF Syntactic, Semantic, Entry
  <2>2. row.detector = "hash" => ~SemverLt(v, V(1))
    BY <2>1 DEF IsActive
  <2> QED
    BY <2>2, BeforeOrSince
<1>5. row.detector \in {"inline_assembly", "import_directive", "gasleft", "msize", "storage_layout",
                        "fixed_point", "external_call", "gas", "code", "create2", "hash", "stipend"}
  BY DEF Syntactic, Semantic, Entry
<1>6. Since(v, 2) => ~ExternalCall(n, v)
  <2> SUFFICES ASSUME Since(v, 2) PROVE ~ExternalCall(n, v)
    OBVIOUS
  <2>1. n.type \notin {"FunctionCall", "TryStatement"} /\ ~(n.type = "NewExpression" /\ n.name = "contract")
    BY DEF InScope
  <2>2. n.type = "MemberAccess" /\ n.name \in LowLevelMembers => AnsweredPrecompile(n, v)
    BY <1>1 DEF InScope, AnsweredPrecompile, LowLevelMembers
  <2> QED
    BY <2>1, <2>2, Zenon DEF ExternalCall
<1>7. /\ ~Named(n, {"gasleft"})
      /\ Since(v, 1) => ~Named(n, {"blockhash", "blobhash"})
  BY DEF Named, RefsBuiltin, InScope
<1>8. \A name : ~HasOption(n, name)
  BY DEF HasOption, InScope
<1>9. \A names : names \cap {"call", "staticcall", "delegatecall"} = {} => ~Member(n, names)
  BY DEF Member, InScope
<1>10. n.type \notin {"InlineAssembly", "Yul", "ImportDirective", "StorageLayoutSpecifier"}
  BY DEF InScope
<1>11. n.type \in {"BinaryOperation", "Assignment"} /\ n.base = "fixed" => Since(v, 5)
  BY DEF InScope
<1> QED
  BY <1>2, <1>3, <1>4, <1>5, <1>6, <1>7, <1>8, <1>9, <1>10, <1>11 DEF Matches

(* So a source that has nothing else has no hit (run_gate_on_asts). *)
LEMMA PlainSources ==
  ASSUME NEW v \in Seq(Nat), NEW sources,
         \A s \in ToSet(sources) : \A n \in AllNodes(s) : InScope(n, v),
         RunGateOnAsts(sources, v) # "PASS"
  PROVE  DetectV1Multi(sources)
<1> SUFFICES ASSUME NEW row \in Syntactic \cup Semantic, IsActive(row, v),
                    NEW s \in ToSet(sources), Hits(row, s, v) # {}
             PROVE  FALSE
  BY DEF RunGateOnAsts
<1>1. {n \in AllNodes(s) : Matches(row.detector, n, v)} = {}
  BY InScopeUnmatched
<1> QED
  BY <1>1 DEF Hits, WholeSourceTaintScan

(* With every file's ids its own, a base is a base in its own file
   (detect_v1_multi). *)
LEMMA DeployablesApart ==
  ASSUME NEW sources, IdsApart(sources)
  PROVE  Deployable(sources) = TrulyDeployable(sources)
<1>1. \A i \in DOMAIN sources : \A d \in sources[i].contracts :
        d.id \notin BaseIds(sources)
          <=> \A e \in sources[i].contracts : d.id = e.id \/ d.id \notin ToSet(e.bases)
  <2> SUFFICES ASSUME NEW i \in DOMAIN sources, NEW d \in sources[i].contracts
               PROVE  d.id \in BaseIds(sources)
                        <=> \E e \in sources[i].contracts : d.id # e.id /\ d.id \in ToSet(e.bases)
    OBVIOUS
  <2>1. ASSUME NEW e \in sources[i].contracts, d.id # e.id, d.id \in ToSet(e.bases)
        PROVE  d.id \in BaseIds(sources)
    <3>1. sources[i] \in ToSet(sources)
      BY DEF ToSet
    <3>2. e \in UNION {s.contracts : s \in ToSet(sources)}
      BY <3>1
    <3> QED
      BY <2>1, <3>2 DEF BaseIds
  <2>2. ASSUME d.id \in BaseIds(sources)
        PROVE  \E e \in sources[i].contracts : d.id # e.id /\ d.id \in ToSet(e.bases)
    <3>1. PICK s \in ToSet(sources) : \E e \in s.contracts : d.id # e.id /\ d.id \in ToSet(e.bases)
      BY <2>2 DEF BaseIds
    <3>2. PICK j \in DOMAIN sources : s = sources[j]
      BY DEF ToSet
    <3>3. PICK e \in sources[j].contracts : d.id # e.id /\ d.id \in ToSet(e.bases)
      BY <3>1, <3>2
    <3>4. d.id \in IdsOfFile(sources[j]) /\ d.id \in IdsOfFile(sources[i])
      BY <3>3 DEF IdsApart, IdsOfFile
    <3>5. i = j
      BY <3>4 DEF IdsApart
    <3> QED
      BY <3>3, <3>5
  <2> QED
    BY <2>1, <2>2
<1>2. \A i \in DOMAIN sources :
        {d \in sources[i].contracts : d.kind = "contract" /\ ~d.abstract /\ d.id \notin BaseIds(sources)}
          = {d \in sources[i].contracts :
               /\ d.kind = "contract" /\ ~d.abstract
               /\ \A e \in sources[i].contracts : d.id = e.id \/ d.id \notin ToSet(e.bases)}
  BY <1>1
<1> QED
  BY <1>2 DEF Deployable, TrulyDeployable

(* What the register in force leaves in scope passes, at every version; over files
   that share no id two deployable contracts are many and one is not; and of a test
   that passes the pins are within Foundry's bounds, and if its arguments are
   literals without a unit and it stops no prank, its pins and deals are those of
   its run in Foundry: for every submission, every folding of the other
   expressions and every value they may have (contest/reject_gate.py). *)
THEOREM TheRegisterIsFollowed == GateSpec => []GateFollowsTheRegister
<1>1. GateInv => PlainSourcesPass
  <2> SUFFICES ASSUME GateInv, outcome = "OUT_OF_SCOPE", ~scan.rejected,
                      \A s \in ToSet(submission.sources) : \A n \in AllNodes(s) : InScope(n, submission.at)
               PROVE  DetectV1Multi(submission.sources)
    BY DEF PlainSourcesPass
  <2>1. submission.at \in Seq(Nat) /\ RunGateOnAsts(submission.sources, submission.at) # "PASS"
    BY DEF GateInv, WellFormed
  <2> QED
    BY <2>1, PlainSources
<1>2. OnlyTwoDeployablesAreMany
  BY DeployablesApart DEF OnlyTwoDeployablesAreMany, DetectV1Multi
<1>3. GateInv => LiteralPinsAreFoundrys
  <2> SUFFICES ASSUME GateInv, ~scan.rejected
               PROVE  /\ \A f \in {"number", "timestamp", "chainid"} : scan.pins[f] < Word64
                      /\ scan.pins["_sender"] < Word160
                      /\ NothingStopped /\ OnlyLiterals => SameEnvironment
    BY DEF LiteralPinsAreFoundrys
  <2>1. /\ NothingStopped /\ OnlyLiterals => SameEnvironment
        /\ \A f \in Fields : scan.pins[f] \in -1 .. Bound(f) - 1
    BY DEF GateInv, Mirrored
  <2>2. /\ Bound("number") = Word64 /\ Bound("timestamp") = Word64 /\ Bound("chainid") = Word64
        /\ Bound("_sender") = Word160 /\ Word64 \in Nat /\ Word160 \in Nat
    BY ScopeGateAssumption DEF Bound
  <2>3. {"number", "timestamp", "chainid", "_sender"} \subseteq Fields
    BY DEF Fields
  <2> QED
    BY <2>1, <2>2, <2>3
<1> QED
  BY <1>1, <1>2, <1>3, GateInvariant, PTL DEF GateFollowsTheRegister

-----------------------------------------------------------------------------
(* The measurement.  Balances: the rows of an address carry the amount that it
   was dealt last (Balanced), so Lean looks up what the EVM has, and both engines
   run a program in the same context (SameContext).  Runs: by induction on the
   operations, a run that begins with the deployment's logs only has them in
   front (PrefixedRun), and a slot that is not zero was loaded (RunFollows).
   Lines: a line is taken apart into what it was put together from
   (SectionsOfLine), so what is compared is the program's run (NormalFormsAre). *)

(* The first and the last of a set of numbers. *)
LEMMA FirstIs ==
  ASSUME NEW S \in SUBSET Int, NEW i \in S, \A j \in S : i <= j
  PROVE  Min(S) = i
<1>1. \A x \in S : (\A y \in S : x <= y) => x = i
  OBVIOUS
<1> QED
  BY <1>1 DEF Min

LEMMA LastIs ==
  ASSUME NEW S \in SUBSET Int, NEW i \in S, \A j \in S : i >= j
  PROVE  Max(S) = i
<1>1. \A x \in S : (\A y \in S : x >= y) => x = i
  OBVIOUS
<1> QED
  BY <1>1 DEF Max

(* What a list of balances is looked up to. *)
Amounts == Seq(Addresses \X Int)
LEMMA LookupIs ==
  ASSUME NEW rows \in Amounts, NEW a
  PROVE  /\ (\A i \in 1 .. Len(rows) : rows[i][1] # a) => Lookup(rows, a) = 0
         /\ \A i \in 1 .. Len(rows) :
              rows[i][1] = a /\ (\A j \in 1 .. i - 1 : rows[j][1] # a) => Lookup(rows, a) = rows[i][2]
<1> DEFINE places == {i \in DOMAIN rows : rows[i][1] = a}
<1>1. DOMAIN rows = 1 .. Len(rows) /\ Len(rows) \in Nat
  BY DEF Amounts
<1>2. ASSUME \A i \in 1 .. Len(rows) : rows[i][1] # a  PROVE Lookup(rows, a) = 0
  BY <1>1, <1>2 DEF Lookup
<1>3. ASSUME NEW i \in 1 .. Len(rows), rows[i][1] = a, \A j \in 1 .. i - 1 : rows[j][1] # a
      PROVE  Lookup(rows, a) = rows[i][2]
  <2>1. places \in SUBSET Int /\ i \in places
    BY <1>1, <1>3
  <2>2. \A j \in places : i <= j
    BY <1>1, <1>3
  <2> HIDE DEF places
  <2>3. Min(places) = i /\ places # {}
    BY <2>1, <2>2, FirstIs
  <2> QED
    BY <2>3 DEF Lookup, places
<1> QED
  BY <1>2, <1>3

-----------------------------------------------------------------------------
(* What the provers need to be told of sequences. *)
LEMMA AppendIsSeq == ASSUME NEW T, NEW s \in Seq(T), NEW x \in T PROVE Append(s, x) \in Seq(T)
  OBVIOUS
LEMMA FunctionIsSeq == ASSUME NEW T, NEW n \in Nat, NEW f \in [1 .. n -> T] PROVE f \in Seq(T)
  OBVIOUS
LEMMA EmptyIsSeq == ASSUME NEW T PROVE <<>> \in Seq(T)
  OBVIOUS

(* The rows after the first n deals. *)
Deals == Seq(Addresses \X Nat)
Rows == Seq(Addresses \X Nat)
Replacing(deals) == [n \in Nat |-> [rows \in Rows |-> IF n \in 1 .. Len(deals) THEN Replaced(rows, deals[n]) ELSE rows]]

(* A deal makes rows of rows. *)
LEMMA ReplacedIsRows ==
  ASSUME NEW rows \in Rows, NEW deal \in Addresses \X Nat
  PROVE  Replaced(rows, deal) \in Rows
<1>0. DOMAIN rows = 1 .. Len(rows)
  BY DEF Rows
<1>1. CASE \E i \in DOMAIN rows : rows[i][1] = deal[1]
  <2>1. Replaced(rows, deal) = [i \in 1 .. Len(rows) |-> IF rows[i][1] = deal[1] THEN deal ELSE rows[i]]
    BY <1>0, <1>1 DEF Replaced
  <2>2. Len(rows) \in Nat /\ \A i \in 1 .. Len(rows) : rows[i] \in Addresses \X Nat
    BY DEF Rows
  <2>3. \A i \in 1 .. Len(rows) : (IF rows[i][1] = deal[1] THEN deal ELSE rows[i]) \in Addresses \X Nat
    BY <2>2
  <2>4. Replaced(rows, deal) \in [1 .. Len(rows) -> Addresses \X Nat]
    BY <2>1, <2>3
  <2> QED
    BY <2>2, <2>4, FunctionIsSeq DEF Rows
<1>2. CASE ~\E i \in DOMAIN rows : rows[i][1] = deal[1]
  BY <1>2, AppendIsSeq DEF Replaced, Rows
<1> QED
  BY <1>1, <1>2

DealtRows(after, deals) ==
  /\ after \in [0 .. Len(deals) -> Rows] /\ after[0] = <<>>
  /\ \A n \in 0 .. Len(deals) - 1 : after[n + 1] = Replaced(after[n], deals[n + 1])

(* The recursion of EffectiveDeals has a solution, and it is followed. *)
LEMMA DealtRowsAre ==
  ASSUME NEW deals \in Deals
  PROVE  \E after : DealtRows(after, deals) /\ EffectiveDeals(deals) = after[Len(deals)]
<1> DEFINE n == Len(deals)
           Solves(s) == s = [i \in 0 .. Len(deals) |-> IF i = 0 THEN <<>> ELSE Replaced(s[i - 1], deals[i])]
           g == CHOOSE s : Solves(s)
<1>1. n \in Nat /\ \A i \in 1 .. n : deals[i] \in Addresses \X Nat
  BY DEF Deals
<1>2. Replacing(deals) \in [Nat -> [Rows -> Rows]] /\ <<>> \in Rows
  <2>1. \A i \in Nat, rows \in Rows :
          (IF i \in 1 .. Len(deals) THEN Replaced(rows, deals[i]) ELSE rows) \in Rows
    BY <1>1, ReplacedIsRows
  <2> QED
    BY <2>1, EmptyIsSeq DEF Replacing, Rows
<1>3. PICK f \in [0 .. n -> Rows] : Obeys(f, n, <<>>, Replacing(deals))
  BY <1>1, <1>2, Recursion
<1>4. f[0] = <<>> /\ \A i \in 0 .. n - 1 : f[i + 1] = Replaced(f[i], deals[i + 1])
  <2> SUFFICES ASSUME NEW i \in 0 .. n - 1 PROVE f[i + 1] = Replaced(f[i], deals[i + 1])
    BY <1>3 DEF Obeys
  <2>1. f[i] \in Rows /\ i + 1 \in Nat /\ i + 1 \in 1 .. Len(deals)
    BY <1>1, <1>3
  <2> QED
    BY <1>3, <2>1 DEF Obeys, Replacing
<1>5. \A i \in 0 .. n : i # 0 => i - 1 \in 0 .. n - 1 /\ (i - 1) + 1 = i
  BY <1>1
<1>6. Solves(f)
  <2>1. \A i \in 0 .. n : f[i] = IF i = 0 THEN <<>> ELSE Replaced(f[i - 1], deals[i])
    BY <1>4, <1>5
  <2> QED
    BY <2>1
<1>7. Solves(g)
  <2> HIDE DEF Solves
  <2> QED
    BY <1>6
<1>8. EffectiveDeals(deals) = g[n]
  BY DEF EffectiveDeals
<1> HIDE DEF g
<1>9. g[0] = <<>> /\ \A i \in 0 .. n : i # 0 => g[i] = Replaced(g[i - 1], deals[i])
  <2>1. \A i \in 0 .. n : g[i] = IF i = 0 THEN <<>> ELSE Replaced(g[i - 1], deals[i])
    BY <1>7
  <2>2. 0 \in 0 .. n
    BY <1>1
  <2> QED
    BY <2>1, <2>2
<1>10. \A i \in 0 .. n - 1 : i + 1 \in 0 .. n /\ i + 1 # 0 /\ (i + 1) - 1 = i
  BY <1>1
<1>11. \A i \in 0 .. n - 1 : g[i + 1] = Replaced(g[i], deals[i + 1])
  BY <1>9, <1>10
<1> DEFINE S == {i \in Nat : i <= n => g[i] = f[i]}
<1>12. \A i \in Nat : i \in S
  <2>1. 0 \in S
    BY <1>4, <1>9
  <2>2. ASSUME NEW i \in Nat, i \in S  PROVE i + 1 \in S
    <3> SUFFICES ASSUME i + 1 <= n PROVE g[i + 1] = f[i + 1]
      OBVIOUS
    <3>1. i \in 0 .. n - 1 /\ g[i] = f[i]
      BY <1>1, <2>2
    <3> QED
      BY <1>4, <1>11, <3>1
  <2> HIDE DEF S
  <2> QED
    BY <2>1, <2>2, Induction
<1>13. n \in S /\ g[n] = f[n]
  BY <1>1, <1>12
<1> QED
  BY <1>3, <1>4, <1>8, <1>13 DEF DealtRows

(* The rows of an address have the amount that it was dealt last. *)
Balanced(rows, deals, n, a) ==
  \/ (\A j \in 1 .. n : deals[j][1] # a) /\ (\A i \in 1 .. Len(rows) : rows[i][1] # a)
  \/ \E j \in 1 .. n :
       /\ deals[j][1] = a /\ \A k \in j + 1 .. n : deals[k][1] # a
       /\ \E i \in 1 .. Len(rows) : rows[i][1] = a
       /\ \A i \in 1 .. Len(rows) : rows[i][1] = a => rows[i][2] = deals[j][2]

(* One more deal keeps the rows balanced. *)
LEMMA ReplacedKeeps ==
  ASSUME NEW deals \in Deals, NEW n \in 0 .. Len(deals) - 1, NEW rows \in Rows, NEW a,
         Balanced(rows, deals, n, a)
  PROVE  Balanced(Replaced(rows, deals[n + 1]), deals, n + 1, a)
<1> DEFINE deal == deals[n + 1]
           new == Replaced(rows, deal)
<1>1. /\ Len(deals) \in Nat /\ n \in Nat /\ n + 1 \in 1 .. Len(deals) /\ deal \in Addresses \X Nat
      /\ Len(rows) \in Nat /\ DOMAIN rows = 1 .. Len(rows)
  BY DEF Deals, Rows
<1>2. CASE \E i \in DOMAIN rows : rows[i][1] = deal[1]
  <2>1. new = [i \in 1 .. Len(rows) |-> IF rows[i][1] = deal[1] THEN deal ELSE rows[i]]
    BY <1>1, <1>2 DEF Replaced
  <2>2. new \in Rows
    BY <1>1, ReplacedIsRows
  <2>3. Len(new) = Len(rows) /\ \A i \in 1 .. Len(rows) : new[i] = IF rows[i][1] = deal[1] THEN deal ELSE rows[i]
    BY <1>1, <2>1, <2>2 DEF Rows
  <2> HIDE DEF new
  <2>4. CASE deal[1] = a
    <3>1. n + 1 \in 1 .. n + 1 /\ \A k \in (n + 1) + 1 .. n + 1 : FALSE
      BY <1>1
    <3>2. \E i \in 1 .. Len(new) : new[i][1] = a
      BY <1>1, <1>2, <2>3, <2>4
    <3>3. \A i \in 1 .. Len(new) : new[i][1] = a => new[i][2] = deals[n + 1][2]
      BY <2>3, <2>4
    <3>4. Balanced(new, deals, n + 1, a)
      BY <2>4, <3>1, <3>2, <3>3 DEF Balanced
    <3> QED
      BY <3>4 DEF new
  <2>5. CASE deal[1] # a
    <3>1. \A i \in 1 .. Len(rows) : (new[i][1] = a <=> rows[i][1] = a) /\ (rows[i][1] = a => new[i] = rows[i])
      BY <2>3, <2>5
    <3>2. \A j \in 1 .. n + 1 : j \in 1 .. n \/ (j = n + 1 /\ deals[j][1] # a)
      BY <1>1, <2>5
    <3>3. CASE (\A j \in 1 .. n : deals[j][1] # a) /\ (\A i \in 1 .. Len(rows) : rows[i][1] # a)
      <4>1. Balanced(new, deals, n + 1, a)
        BY <2>3, <3>1, <3>2, <3>3 DEF Balanced
      <4> QED
        BY <4>1 DEF new
    <3>4. ASSUME NEW j \in 1 .. n, deals[j][1] = a, \A k \in j + 1 .. n : deals[k][1] # a,
                 \E i \in 1 .. Len(rows) : rows[i][1] = a,
                 \A i \in 1 .. Len(rows) : rows[i][1] = a => rows[i][2] = deals[j][2]
          PROVE  Balanced(new, deals, n + 1, a)
      <4>1. j \in 1 .. n + 1 /\ \A k \in j + 1 .. n + 1 : deals[k][1] # a
        BY <1>1, <3>2, <3>4
      <4> QED
        BY <2>3, <3>1, <3>4, <4>1 DEF Balanced
    <3> QED
      BY <3>3, <3>4 DEF Balanced, new
  <2> QED
    BY <2>4, <2>5
<1>3. CASE ~\E i \in DOMAIN rows : rows[i][1] = deal[1]
  <2>1. new = Append(rows, deal)
    BY <1>3 DEF Replaced
  <2>2. /\ Len(new) = Len(rows) + 1 /\ new[Len(rows) + 1] = deal
        /\ \A i \in 1 .. Len(rows) : new[i] = rows[i] /\ rows[i][1] # deal[1]
    <3>1. rows \in Seq(Addresses \X Nat)
      BY DEF Rows
    <3> HIDE DEF deal, new
    <3>2. /\ Len(Append(rows, deal)) = Len(rows) + 1 /\ Append(rows, deal)[Len(rows) + 1] = deal
          /\ \A i \in 1 .. Len(rows) : Append(rows, deal)[i] = rows[i]
      BY <1>1, <3>1, AppendProperties
    <3>3. \A i \in 1 .. Len(rows) : rows[i][1] # deal[1]
      BY <1>1, <1>3
    <3> QED
      BY <2>1, <3>2, <3>3
  <2> HIDE DEF new
  <2>3. \A i \in 1 .. Len(new) : i \in 1 .. Len(rows) \/ i = Len(rows) + 1
    BY <1>1, <2>2
  <2>4. CASE deal[1] = a
    <3>1. n + 1 \in 1 .. n + 1 /\ \A k \in (n + 1) + 1 .. n + 1 : FALSE
      BY <1>1
    <3>2. Len(rows) + 1 \in 1 .. Len(new)
      BY <1>1, <2>2
    <3>3. \A i \in 1 .. Len(new) : new[i][1] = a => new[i][2] = deals[n + 1][2]
      BY <2>2, <2>3, <2>4
    <3>4. Balanced(new, deals, n + 1, a)
      BY <2>2, <2>4, <3>1, <3>2, <3>3 DEF Balanced
    <3> QED
      BY <3>4 DEF new
  <2>5. CASE deal[1] # a
    <3>1. \A i \in 1 .. Len(rows) : i \in 1 .. Len(new)
      BY <1>1, <2>2
    <3>2. \A j \in 1 .. n + 1 : j \in 1 .. n \/ (j = n + 1 /\ deals[j][1] # a)
      BY <1>1, <2>5
    <3>3. CASE (\A j \in 1 .. n : deals[j][1] # a) /\ (\A i \in 1 .. Len(rows) : rows[i][1] # a)
      <4>1. \A i \in 1 .. Len(new) : new[i][1] # a
        BY <2>2, <2>3, <2>5, <3>3
      <4>2. Balanced(new, deals, n + 1, a)
        BY <3>2, <3>3, <4>1 DEF Balanced
      <4> QED
        BY <4>2 DEF new
    <3>4. ASSUME NEW j \in 1 .. n, deals[j][1] = a, \A k \in j + 1 .. n : deals[k][1] # a,
                 \E i \in 1 .. Len(rows) : rows[i][1] = a,
                 \A i \in 1 .. Len(rows) : rows[i][1] = a => rows[i][2] = deals[j][2]
          PROVE  Balanced(new, deals, n + 1, a)
      <4>1. j \in 1 .. n + 1 /\ \A k \in j + 1 .. n + 1 : deals[k][1] # a
        BY <1>1, <3>2, <3>4
      <4>2. \E i \in 1 .. Len(new) : new[i][1] = a
        BY <2>2, <3>1, <3>4
      <4>3. \A i \in 1 .. Len(new) : new[i][1] = a => new[i][2] = deals[j][2]
        BY <2>2, <2>3, <2>5, <3>4
      <4> QED
        BY <3>4, <4>1, <4>2, <4>3 DEF Balanced
    <3> QED
      BY <3>3, <3>4 DEF Balanced, new
  <2> QED
    BY <2>4, <2>5
<1> QED
  BY <1>2, <1>3

(* So they are after all deals (contest/env.py, effective deals). *)
LEMMA DealsAreBalanced ==
  ASSUME NEW deals \in Deals, NEW a
  PROVE  EffectiveDeals(deals) \in Rows /\ Balanced(EffectiveDeals(deals), deals, Len(deals), a)
<1> DEFINE n == Len(deals)
<1>1. n \in Nat
  BY DEF Deals
<1>2. PICK after : DealtRows(after, deals) /\ EffectiveDeals(deals) = after[n]
  BY DealtRowsAre
<1>3. \A i \in 0 .. n : after[i] \in Rows
  BY <1>2 DEF DealtRows
<1> DEFINE S == {i \in Nat : i <= n => Balanced(after[i], deals, i, a)}
<1>4. \A i \in Nat : i \in S
  <2>1. 0 \in S
    <3>1. Balanced(<<>>, deals, 0, a)
      BY DEF Balanced
    <3> QED
      BY <1>2, <3>1 DEF DealtRows
  <2>2. ASSUME NEW i \in Nat, i \in S  PROVE i + 1 \in S
    <3> SUFFICES ASSUME i + 1 <= n PROVE Balanced(after[i + 1], deals, i + 1, a)
      OBVIOUS
    <3>1. i \in 0 .. n - 1 /\ i \in 0 .. n /\ Balanced(after[i], deals, i, a)
      BY <1>1, <2>2
    <3>2. after[i + 1] = Replaced(after[i], deals[i + 1])
      BY <1>2, <3>1 DEF DealtRows
    <3> QED
      BY <1>3, <3>1, <3>2, ReplacedKeeps
  <2> HIDE DEF S
  <2> QED
    BY <2>1, <2>2, Induction
<1>5. n \in S /\ n \in 0 .. n
  BY <1>1, <1>4
<1> QED
  BY <1>1, <1>2, <1>3, <1>5

(* What the EVM has after the deals. *)
LEMMA EvmBalanceIs ==
  ASSUME NEW env \in Environment, NEW a \in Addresses
  PROVE  /\ (\A j \in 1 .. Len(env.deals) : env.deals[j][1] # a) =>
              EvmBalance(env)[a] = IF a = Canonical THEN Genesis ELSE 0
         /\ \A j \in 1 .. Len(env.deals) :
              env.deals[j][1] = a /\ (\A k \in j + 1 .. Len(env.deals) : env.deals[k][1] # a) =>
                EvmBalance(env)[a] = env.deals[j][2]
<1> DEFINE dealt == {i \in DOMAIN env.deals : env.deals[i][1] = a}
<1>1. env.deals \in Deals
  BY DEF Environment, Deals
<1>2. DOMAIN env.deals = 1 .. Len(env.deals) /\ Len(env.deals) \in Nat
  BY <1>1 DEF Deals
<1>3. EvmBalance(env)[a] = IF dealt # {} THEN env.deals[Max(dealt)][2] ELSE IF a = Canonical THEN Genesis ELSE 0
  BY DEF EvmBalance
<1>4. ASSUME \A j \in 1 .. Len(env.deals) : env.deals[j][1] # a
      PROVE  EvmBalance(env)[a] = IF a = Canonical THEN Genesis ELSE 0
  <2>1. dealt = {}
    BY <1>2, <1>4
  <2> HIDE DEF dealt
  <2> QED
    BY <1>3, <2>1
<1>5. ASSUME NEW j \in 1 .. Len(env.deals), env.deals[j][1] = a,
             \A k \in j + 1 .. Len(env.deals) : env.deals[k][1] # a
      PROVE  EvmBalance(env)[a] = env.deals[j][2]
  <2>1. dealt \in SUBSET Int /\ j \in dealt
    BY <1>2, <1>5
  <2>2. \A i \in dealt : j >= i
    BY <1>2, <1>5
  <2> HIDE DEF dealt
  <2>3. Max(dealt) = j /\ dealt # {}
    BY <2>1, <2>2, LastIs
  <2> QED
    BY <1>3, <2>3
<1> QED
  BY <1>4, <1>5

(* The first row of an address with any, under the genesis row. *)
LeanRows(env) == Append(EffectiveDeals(env.deals), <<Canonical, Genesis>>)
LEMMA LeanRowsAre ==
  ASSUME NEW env \in Environment, NEW a \in Addresses
  PROVE  /\ LeanRows(env) \in Rows
         /\ \/ /\ \A i \in 1 .. Len(LeanRows(env)) : LeanRows(env)[i][1] # a
               /\ EvmBalance(env)[a] = 0
            \/ \E i \in 1 .. Len(LeanRows(env)) :
                 /\ LeanRows(env)[i][1] = a /\ \A j \in 1 .. i - 1 : LeanRows(env)[j][1] # a
                 /\ EvmBalance(env)[a] = LeanRows(env)[i][2]
<1> DEFINE deals == env.deals
           dealt == EffectiveDeals(deals)
           rows == LeanRows(env)
           n == Len(dealt)
<1>1. deals \in Deals
  BY DEF Environment, Deals
<1>2. dealt \in Rows /\ Balanced(dealt, deals, Len(deals), a)
  BY <1>1, DealsAreBalanced
<1>3. n \in Nat
  BY <1>2 DEF Rows
<1>4. <<Canonical, Genesis>> \in Addresses \X Nat
  BY MeasurementAssumption
<1>5. rows \in Rows
  BY <1>2, <1>4, AppendIsSeq DEF LeanRows, Rows
<1>6. Len(rows) = n + 1 /\ rows[n + 1] = <<Canonical, Genesis>> /\ \A i \in 1 .. n : rows[i] = dealt[i]
  BY <1>2, <1>3 DEF LeanRows, Rows
<1> HIDE DEF rows, dealt, deals
<1>7. CASE (\A j \in 1 .. Len(deals) : deals[j][1] # a) /\ (\A i \in 1 .. n : dealt[i][1] # a)
  <2>1. EvmBalance(env)[a] = IF a = Canonical THEN Genesis ELSE 0
    BY <1>7, EvmBalanceIs DEF deals
  <2>2. \A i \in 1 .. Len(rows) : i \in 1 .. n \/ i = n + 1
    BY <1>3, <1>6
  <2>3. CASE a = Canonical
    <3>1. n + 1 \in 1 .. Len(rows) /\ \A j \in 1 .. (n + 1) - 1 : j \in 1 .. n
      BY <1>3, <1>6
    <3>2. rows[n + 1][1] = a /\ rows[n + 1][2] = Genesis /\ \A j \in 1 .. (n + 1) - 1 : rows[j][1] # a
      BY <1>6, <1>7, <2>3, <3>1
    <3>3. EvmBalance(env)[a] = rows[n + 1][2]
      BY <2>1, <2>3, <3>2
    <3> QED
      BY <1>5, <3>1, <3>2, <3>3 DEF rows
  <2>4. CASE a # Canonical
    <3>1. \A i \in 1 .. Len(rows) : rows[i][1] # a
      BY <1>6, <1>7, <2>2, <2>4
    <3> QED
      BY <1>5, <2>1, <2>4, <3>1 DEF rows
  <2> QED
    BY <2>3, <2>4
<1>8. ASSUME NEW j \in 1 .. Len(deals), deals[j][1] = a, \A k \in j + 1 .. Len(deals) : deals[k][1] # a,
             NEW m \in 1 .. n, dealt[m][1] = a,
             \A i \in 1 .. n : dealt[i][1] = a => dealt[i][2] = deals[j][2]
      PROVE  \E i \in 1 .. Len(rows) :
               /\ rows[i][1] = a /\ \A k \in 1 .. i - 1 : rows[k][1] # a
               /\ EvmBalance(env)[a] = rows[i][2]
  <2>1. EvmBalance(env)[a] = deals[j][2]
    BY <1>8, EvmBalanceIs DEF deals
  <2> DEFINE S == {i \in 1 .. n : dealt[i][1] = a}
  <2>2. PICK i \in S : \A k \in S : i <= k
    <3>1. S \in SUBSET Nat /\ m \in S
      BY <1>3, <1>8
    <3> HIDE DEF S
    <3> QED
      BY <3>1, LeastNumber
  <2>3. i \in 1 .. n /\ dealt[i][1] = a /\ i \in 1 .. Len(rows)
    BY <1>3, <1>6, <2>2
  <2>4. \A k \in 1 .. i - 1 : k \in 1 .. n /\ rows[k][1] # a
    BY <1>3, <1>6, <2>2
  <2>5. EvmBalance(env)[a] = rows[i][2]
    BY <1>6, <1>8, <2>1, <2>3
  <2> QED
    BY <1>6, <2>3, <2>4, <2>5
<1>9. \/ (\A j \in 1 .. Len(deals) : deals[j][1] # a) /\ (\A i \in 1 .. n : dealt[i][1] # a)
      \/ \E j \in 1 .. Len(deals) :
           /\ deals[j][1] = a /\ \A k \in j + 1 .. Len(deals) : deals[k][1] # a
           /\ \E i \in 1 .. n : dealt[i][1] = a
           /\ \A i \in 1 .. n : dealt[i][1] = a => dealt[i][2] = deals[j][2]
  BY <1>2 DEF Balanced
<1> QED
  BY <1>5, <1>7, <1>8, <1>9 DEF rows

(* Lean reads what the EVM has, before the entry call and in it. *)
LEMMA LeanBalanceIs ==
  ASSUME NEW env \in Environment, NEW a \in Addresses
  PROVE  /\ Lookup(LeanBalances(env, FALSE), a) = EvmBalance(env)[a]
         /\ CallerPays(env) =>
              Lookup(LeanBalances(env, TRUE), a) =
                IF a = env.sender THEN EvmBalance(env)[a] - env.value ELSE EvmBalance(env)[a]
<1> DEFINE rows == LeanRows(env)
           first(i) == rows[i][1] = env.sender /\ \A j \in 1 .. i - 1 : rows[j][1] # env.sender
           debited(d) == [i \in 1 .. Len(rows) |->
                            IF d /\ first(i) /\ rows[i][2] >= env.value
                            THEN <<rows[i][1], rows[i][2] - env.value>> ELSE rows[i]]
<1>1. rows \in Rows /\ env.sender \in Addresses /\ env.value \in Nat
  BY LeanRowsAre DEF Environment
<1>2. Len(rows) \in Nat /\ DOMAIN rows = 1 .. Len(rows) /\ \A i \in 1 .. Len(rows) : rows[i] \in Addresses \X Nat
  BY <1>1 DEF Rows
<1>3. \A d \in BOOLEAN : LeanBalances(env, d) = debited(d)
  BY <1>2 DEF LeanBalances, LeanRows
<1>4. ASSUME NEW d \in BOOLEAN
      PROVE  /\ debited(d) \in Amounts /\ Len(debited(d)) = Len(rows)
             /\ \A i \in 1 .. Len(rows) : debited(d)[i][1] = rows[i][1]
             /\ \A i \in 1 .. Len(rows) : debited(d)[i][2] =
                  IF d /\ first(i) /\ rows[i][2] >= env.value THEN rows[i][2] - env.value ELSE rows[i][2]
  <2>1. \A i \in 1 .. Len(rows) : rows[i][1] \in Addresses /\ rows[i][2] \in Nat /\ rows[i] = <<rows[i][1], rows[i][2]>>
    BY <1>2
  <2>2. debited(d) \in [1 .. Len(rows) -> Addresses \X Int]
    <3>1. \A i \in 1 .. Len(rows) :
            (IF d /\ first(i) /\ rows[i][2] >= env.value
             THEN <<rows[i][1], rows[i][2] - env.value>> ELSE rows[i]) \in Addresses \X Int
      <4> HIDE DEF first, rows
      <4> QED
        BY <1>1, <2>1
    <3> HIDE DEF first, rows
    <3> QED
      BY <3>1
  <2>3. debited(d) \in Amounts
    <3> HIDE DEF debited
    <3> QED
      BY <1>2, <2>2, FunctionIsSeq DEF Amounts
  <2>4. Len(debited(d)) = Len(rows)
    BY <1>2, <2>2
  <2>5. \A i \in 1 .. Len(rows) :
          debited(d)[i] = IF d /\ first(i) /\ rows[i][2] >= env.value
                          THEN <<rows[i][1], rows[i][2] - env.value>> ELSE rows[i]
    OBVIOUS
  <2> HIDE DEF debited, first, rows
  <2>6. ASSUME NEW i \in 1 .. Len(rows)
        PROVE  /\ debited(d)[i][1] = rows[i][1]
               /\ debited(d)[i][2] =
                    IF d /\ first(i) /\ rows[i][2] >= env.value THEN rows[i][2] - env.value ELSE rows[i][2]
    <3> DEFINE pays == d /\ first(i) /\ rows[i][2] >= env.value
               less == rows[i][2] - env.value
    <3>0. debited(d)[i] = IF pays THEN <<rows[i][1], less>> ELSE rows[i]
      BY <2>5
    <3> HIDE DEF pays, less
    <3>3. debited(d)[i][1] = rows[i][1] /\ debited(d)[i][2] = IF pays THEN less ELSE rows[i][2]
      BY <3>0
    <3>1. CASE pays
      BY <3>1, <3>3 DEF pays, less
    <3>2. CASE ~pays
      BY <3>2, <3>3 DEF pays, less
    <3> QED
      BY <3>1, <3>2
  <2> QED
    BY <2>3, <2>4, <2>6
<1> HIDE DEF debited, rows
<1>5. CASE (\A i \in 1 .. Len(rows) : rows[i][1] # a) /\ EvmBalance(env)[a] = 0
  <2>1. \A d \in BOOLEAN : Lookup(debited(d), a) = 0
    <3> TAKE d \in BOOLEAN
    <3>1. \A i \in 1 .. Len(debited(d)) : debited(d)[i][1] # a
      BY <1>4, <1>5
    <3> QED
      BY <1>4, <3>1, LookupIs
  <2>2. CallerPays(env) /\ a = env.sender => EvmBalance(env)[a] - env.value = 0
    BY <1>1, <1>5 DEF CallerPays
  <2> QED
    BY <1>3, <1>5, <2>1, <2>2
<1>6. ASSUME NEW i \in 1 .. Len(rows), rows[i][1] = a, \A j \in 1 .. i - 1 : rows[j][1] # a,
             EvmBalance(env)[a] = rows[i][2]
      PROVE  /\ Lookup(LeanBalances(env, FALSE), a) = EvmBalance(env)[a]
             /\ CallerPays(env) =>
                  Lookup(LeanBalances(env, TRUE), a) =
                    IF a = env.sender THEN EvmBalance(env)[a] - env.value ELSE EvmBalance(env)[a]
  <2>1. \A d \in BOOLEAN : Lookup(debited(d), a) = debited(d)[i][2]
    <3> TAKE d \in BOOLEAN
    <3>1. \A j \in 1 .. i - 1 : j \in 1 .. Len(rows)
      BY <1>2
    <3>2. /\ i \in 1 .. Len(debited(d)) /\ debited(d)[i][1] = a
          /\ \A j \in 1 .. i - 1 : debited(d)[j][1] # a
      BY <1>4, <1>6, <3>1
    <3> QED
      BY <1>4, <3>2, LookupIs
  <2>2. debited(FALSE)[i][2] = rows[i][2]
    BY <1>4
  <2>3. debited(TRUE)[i][2] = IF first(i) /\ rows[i][2] >= env.value THEN rows[i][2] - env.value ELSE rows[i][2]
    BY <1>4
  <2>4. first(i) <=> a = env.sender
    BY <1>6
  <2>5. CallerPays(env) /\ a = env.sender => rows[i][2] >= env.value
    BY <1>6 DEF CallerPays
  <2> HIDE DEF first
  <2> QED
    BY <1>3, <1>6, <2>1, <2>2, <2>3, <2>4, <2>5
<1>7. \/ (\A i \in 1 .. Len(rows) : rows[i][1] # a) /\ EvmBalance(env)[a] = 0
      \/ \E i \in 1 .. Len(rows) :
           rows[i][1] = a /\ (\A j \in 1 .. i - 1 : rows[j][1] # a) /\ EvmBalance(env)[a] = rows[i][2]
  BY LeanRowsAre DEF rows
<1> QED
  BY <1>5, <1>6, <1>7

(* Every address has an amount. *)
LEMMA BalanceIsNat ==
  ASSUME NEW env \in Environment
  PROVE  EvmBalance(env) \in [Addresses -> Int]
<1>1. EvmBalance(env) = [a \in Addresses |-> EvmBalance(env)[a]]
  BY DEF EvmBalance
<1>2. \A a \in Addresses : EvmBalance(env)[a] \in Int
  <2> TAKE a \in Addresses
  <2>1. \A i \in 1 .. Len(LeanRows(env)) : LeanRows(env)[i][2] \in Int
    <3>1. \A i \in 1 .. Len(LeanRows(env)) : LeanRows(env)[i] \in Addresses \X Nat
      BY LeanRowsAre DEF Rows
    <3> QED
      BY <3>1
  <2> QED
    BY <2>1, LeanRowsAre
<1> QED
  BY <1>1, <1>2

(* Both engines execute in the same context. *)
Context == [balance: [Addresses -> Int], value: Int, calldata: Int]
LEMMA SameContext ==
  ASSUME NEW env \in Environment
  PROVE  /\ LeanContext(env, FALSE) = EvmContext(env, FALSE)
         /\ CallerPays(env) => LeanContext(env, TRUE) = EvmContext(env, TRUE)
         /\ \A d \in BOOLEAN : EvmContext(env, d) \in Context
<1> DEFINE evm == EvmBalance(env)
           lean(d) == [a \in Addresses |-> Lookup(LeanBalances(env, d), a)]
           paid == [evm EXCEPT ![env.sender] = @ - env.value]
<1>1. evm \in [Addresses -> Int] /\ env.sender \in Addresses /\ env.value \in Nat
  BY BalanceIsNat DEF Environment
<1> HIDE DEF evm
<1>2. lean(FALSE) = evm
  <2>1. \A a \in Addresses : lean(FALSE)[a] = evm[a]
    BY LeanBalanceIs DEF evm
  <2> QED
    BY <1>1, <2>1
<1>3. ASSUME CallerPays(env)  PROVE lean(TRUE) = paid
  <2>1. \A a \in Addresses : lean(TRUE)[a] = paid[a]
    BY <1>1, <1>3, LeanBalanceIs DEF evm
  <2> QED
    BY <1>1, <2>1
<1>4. paid \in [Addresses -> Int]
  BY <1>1
<1>5. LeanContext(env, FALSE) = [balance |-> lean(FALSE), value |-> 0, calldata |-> 0]
  BY DEF LeanContext
<1>6. LeanContext(env, TRUE) = [balance |-> lean(TRUE), value |-> env.value, calldata |-> 1]
  BY DEF LeanContext
<1>7. EvmContext(env, FALSE) = [balance |-> evm, value |-> 0, calldata |-> 0]
  BY DEF EvmContext, evm
<1>8. EvmContext(env, TRUE) = [balance |-> paid, value |-> env.value, calldata |-> 1]
  BY DEF EvmContext, evm
<1> HIDE DEF lean, paid
<1>9. EvmContext(env, FALSE) \in Context /\ EvmContext(env, TRUE) \in Context
  <2>1. \A b \in [Addresses -> Int], v \in Int, c \in Int :
          [balance |-> b, value |-> v, calldata |-> c] \in Context
    BY DEF Context
  <2>2. env.value \in Int /\ 0 \in Int /\ 1 \in Int
    BY <1>1
  <2> QED
    BY <1>1, <1>4, <1>7, <1>8, <2>1, <2>2
<1> QED
  BY <1>2, <1>3, <1>5, <1>6, <1>7, <1>8, <1>9

(* What a program leaves, at any of its operations. *)
Outcomes == {<<>>} \cup ({"success"} \X Int) \cup ({"revert"} \X RevertData)
Run == [storage: [Slots -> Int], written: SUBSET Slots, logs: Seq(Int), outcome: Outcomes]
Storages == [Slots -> Int]

(* Whatever a statement reads is a word. *)
LEMMA WordIs ==
  ASSUME NEW source \in WordSource, NEW context \in Context, NEW storage \in Storages
  PROVE  Word(source, context, storage) \in Int
<1>1. CASE source \in {"const"} \X Int
  <2>1. source[1] = "const" /\ source[2] \in Int
    BY <1>1
  <2> QED
    BY <2>1 DEF Word
<1>2. CASE source \in {"slot"} \X Slots
  <2>1. source[1] = "slot" /\ source[2] \in Slots
    BY <1>2
  <2> QED
    BY <2>1 DEF Word, Storages
<1>3. CASE source \in {"balance"} \X Addresses
  <2>1. source[1] = "balance" /\ source[2] \in Addresses
    BY <1>3
  <2> QED
    BY <2>1 DEF Word, Context
<1>4. CASE source = <<"value">>
  <2>1. source[1] = "value"
    BY <1>4
  <2> QED
    BY <2>1 DEF Word, Context
<1>5. CASE source = <<"calldata">>
  <2>1. source[1] = "calldata"
    BY <1>5
  <2> QED
    BY <2>1 DEF Word, Context
<1> QED
  BY <1>1, <1>2, <1>3, <1>4, <1>5 DEF WordSource

Does(run, o, w) ==
  [storage |-> IF o.op = "write" THEN [run.storage EXCEPT ![o.slot] = w] ELSE run.storage,
   written |-> IF o.op = "write" THEN run.written \cup {o.slot} ELSE run.written,
   logs |-> IF o.op = "log" THEN Append(run.logs, w) ELSE run.logs,
   outcome |-> IF o.op = "return" THEN <<"success", w>>
               ELSE IF o.op = "revert" THEN <<"revert", o.data>> ELSE <<>>]

(* The fields of an operation. *)
LEMMA OperationIs ==
  ASSUME NEW o \in Operation
  PROVE  /\ o.op \in {"write", "log", "return", "revert"}
         /\ o.op # "revert" => o.slot \in Slots /\ o.from \in WordSource
         /\ o.op = "revert" => o.data \in RevertData
  BY DEF Operation

(* An operation, field by field. *)
LEMMA AfterOperationIs ==
  ASSUME NEW run \in Run, NEW o \in Operation, NEW context
  PROVE  AfterOperation(run, o, context) =
           IF run.outcome # <<>> THEN run ELSE Does(run, o, Word(o.from, context, run.storage))
<1> DEFINE w == Word(o.from, context, run.storage)
<1>1. /\ run = [storage |-> run.storage, written |-> run.written, logs |-> run.logs, outcome |-> run.outcome]
      /\ run.storage \in [Slots -> Int]
  BY DEF Run
<1>2. CASE run.outcome # <<>>
  BY <1>2 DEF AfterOperation
<1>3. ASSUME run.outcome = <<>>, o.op = "write"  PROVE AfterOperation(run, o, context) = Does(run, o, w)
  <2>1. AfterOperation(run, o, context) =
          [run EXCEPT !.storage[o.slot] = w, !.written = @ \cup {o.slot}]
    BY <1>3 DEF AfterOperation
  <2> HIDE DEF w
  <2>2. Does(run, o, w) = [storage |-> [run.storage EXCEPT ![o.slot] = w], written |-> run.written \cup {o.slot},
                           logs |-> run.logs, outcome |-> <<>>]
    BY <1>3 DEF Does
  <2> QED
    BY <1>1, <1>3, <2>1, <2>2
<1>4. ASSUME run.outcome = <<>>, o.op = "log"  PROVE AfterOperation(run, o, context) = Does(run, o, w)
  <2>1. AfterOperation(run, o, context) = [run EXCEPT !.logs = Append(@, w)]
    BY <1>4 DEF AfterOperation
  <2> HIDE DEF w
  <2>2. Does(run, o, w) = [storage |-> run.storage, written |-> run.written,
                           logs |-> Append(run.logs, w), outcome |-> <<>>]
    BY <1>4 DEF Does
  <2> QED
    BY <1>1, <1>4, <2>1, <2>2
<1>5. ASSUME run.outcome = <<>>, o.op = "return"  PROVE AfterOperation(run, o, context) = Does(run, o, w)
  <2>1. AfterOperation(run, o, context) = [run EXCEPT !.outcome = <<"success", w>>]
    BY <1>5 DEF AfterOperation
  <2> HIDE DEF w
  <2>2. Does(run, o, w) = [storage |-> run.storage, written |-> run.written,
                           logs |-> run.logs, outcome |-> <<"success", w>>]
    BY <1>5 DEF Does
  <2> QED
    BY <1>1, <1>5, <2>1, <2>2
<1>6. ASSUME run.outcome = <<>>, o.op = "revert"  PROVE AfterOperation(run, o, context) = Does(run, o, w)
  <2>1. AfterOperation(run, o, context) = [run EXCEPT !.outcome = <<"revert", o.data>>]
    BY <1>6 DEF AfterOperation
  <2> HIDE DEF w
  <2>2. Does(run, o, w) = [storage |-> run.storage, written |-> run.written,
                           logs |-> run.logs, outcome |-> <<"revert", o.data>>]
    BY <1>6 DEF Does
  <2> QED
    BY <1>1, <1>6, <2>1, <2>2
<1> HIDE DEF w
<1>7. CASE run.outcome = <<>>
  BY <1>3, <1>4, <1>5, <1>6, <1>7, OperationIs DEF w
<1> QED
  BY <1>2, <1>7

(* A run stays a run. *)
LEMMA AfterOperationIsRun ==
  ASSUME NEW run \in Run, NEW o \in Operation, NEW context \in Context
  PROVE  AfterOperation(run, o, context) \in Run
<1> DEFINE w == Word(o.from, context, run.storage)
<1>1. CASE run.outcome # <<>>
  BY <1>1, AfterOperationIs
<1>2. CASE run.outcome = <<>>
  <2>1. AfterOperation(run, o, context) = Does(run, o, w)
    BY <1>2, AfterOperationIs
  <2>2. o.op # "revert" => w \in Int
    BY OperationIs, WordIs DEF Run, Storages
  <2> HIDE DEF w
  <2>3. /\ run.storage \in [Slots -> Int] /\ run.written \in SUBSET Slots /\ run.logs \in Seq(Int)
    BY DEF Run
  <2> DEFINE storage == IF o.op = "write" THEN [run.storage EXCEPT ![o.slot] = w] ELSE run.storage
             written == IF o.op = "write" THEN run.written \cup {o.slot} ELSE run.written
             logs == IF o.op = "log" THEN Append(run.logs, w) ELSE run.logs
             ended == IF o.op = "return" THEN <<"success", w>>
                      ELSE IF o.op = "revert" THEN <<"revert", o.data>> ELSE <<>>
  <2>4. storage \in [Slots -> Int]
    BY <2>2, <2>3
  <2>5. written \in SUBSET Slots
    BY <2>3, OperationIs
  <2>6. logs \in Seq(Int)
    BY <2>2, <2>3, AppendIsSeq
  <2>7. ended \in Outcomes
    BY <2>2, OperationIs DEF Outcomes
  <2>8. AfterOperation(run, o, context) = [storage |-> storage, written |-> written, logs |-> logs, outcome |-> ended]
    BY <2>1 DEF Does
  <2> HIDE DEF storage, written, logs, ended
  <2> QED
    BY <2>4, <2>5, <2>6, <2>7, <2>8 DEF Run
<1> QED
  BY <1>1, <1>2

-----------------------------------------------------------------------------
(* The runs at each operation of a program. *)
Started(storage, logs) == [storage |-> storage, written |-> {}, logs |-> logs, outcome |-> <<>>]
RunsOf(after, operations, context, start) ==
  /\ after \in [0 .. Len(operations) -> Run] /\ after[0] = start
  /\ \A n \in 0 .. Len(operations) - 1 : after[n + 1] = AfterOperation(after[n], operations[n + 1], context)
Operations == Seq(Operation)
Executing(operations, context) ==
  [n \in Nat |-> [run \in Run |-> IF n \in 1 .. Len(operations) THEN AfterOperation(run, operations[n], context) ELSE run]]

LEMMA StartedIsRun ==
  ASSUME NEW storage \in Storages, NEW logs \in Seq(Int)
  PROVE  Started(storage, logs) \in Run
  BY DEF Started, Storages, Run, Outcomes

(* The recursion of Perform has a solution, and it is followed. *)
LEMMA PerformIs ==
  ASSUME NEW operations \in Operations, NEW context \in Context, NEW storage \in Storages, NEW logs \in Seq(Int)
  PROVE  \E after : /\ RunsOf(after, operations, context, Started(storage, logs))
                    /\ Perform(operations, context, storage, logs) = after[Len(operations)]
<1> DEFINE n == Len(operations)
           start == Started(storage, logs)
           Solves(s) == s = [i \in 0 .. Len(operations) |->
                               IF i = 0 THEN start ELSE AfterOperation(s[i - 1], operations[i], context)]
           g == CHOOSE s : Solves(s)
<1>1. n \in Nat /\ \A i \in 1 .. n : operations[i] \in Operation
  BY DEF Operations
<1>2. Executing(operations, context) \in [Nat -> [Run -> Run]] /\ start \in Run
  <2>1. \A i \in Nat, run \in Run :
          (IF i \in 1 .. Len(operations) THEN AfterOperation(run, operations[i], context) ELSE run) \in Run
    BY <1>1, AfterOperationIsRun
  <2>2. Executing(operations, context) \in [Nat -> [Run -> Run]]
    BY <2>1 DEF Executing
  <2> QED
    BY <2>2, StartedIsRun
<1>8. Perform(operations, context, storage, logs) = g[n]
  BY DEF Perform, Started
<1> HIDE DEF start
<1>3. PICK f \in [0 .. n -> Run] : Obeys(f, n, start, Executing(operations, context))
  BY <1>1, <1>2, Recursion
<1>4. f[0] = start /\ \A i \in 0 .. n - 1 : f[i + 1] = AfterOperation(f[i], operations[i + 1], context)
  <2> SUFFICES ASSUME NEW i \in 0 .. n - 1 PROVE f[i + 1] = AfterOperation(f[i], operations[i + 1], context)
    BY <1>3 DEF Obeys
  <2>1. i \in 0 .. n /\ i + 1 \in Nat /\ i + 1 \in 1 .. Len(operations)
    BY <1>1
  <2>2. f[i] \in Run
    BY <1>3, <2>1
  <2> QED
    BY <1>3, <2>1, <2>2 DEF Obeys, Executing
<1>5. \A i \in 0 .. n : i # 0 => i - 1 \in 0 .. n - 1 /\ (i - 1) + 1 = i
  BY <1>1
<1>6. Solves(f)
  <2>1. \A i \in 0 .. n : f[i] = IF i = 0 THEN start ELSE AfterOperation(f[i - 1], operations[i], context)
    BY <1>4, <1>5
  <2> QED
    BY <2>1
<1>7. Solves(g)
  <2> HIDE DEF Solves
  <2> QED
    BY <1>6
<1> HIDE DEF g
<1>9. g[0] = start /\ \A i \in 0 .. n : i # 0 => g[i] = AfterOperation(g[i - 1], operations[i], context)
  <2>1. \A i \in 0 .. n : g[i] = IF i = 0 THEN start ELSE AfterOperation(g[i - 1], operations[i], context)
    BY <1>7
  <2>2. 0 \in 0 .. n
    BY <1>1
  <2> QED
    BY <2>1, <2>2
<1>10. \A i \in 0 .. n - 1 : i + 1 \in 0 .. n /\ i + 1 # 0 /\ (i + 1) - 1 = i
  BY <1>1
<1>11. \A i \in 0 .. n - 1 : g[i + 1] = AfterOperation(g[i], operations[i + 1], context)
  BY <1>9, <1>10
<1> DEFINE S == {i \in Nat : i <= n => g[i] = f[i]}
<1>12. \A i \in Nat : i \in S
  <2>1. 0 \in S
    BY <1>4, <1>9
  <2>2. ASSUME NEW i \in Nat, i \in S  PROVE i + 1 \in S
    <3> SUFFICES ASSUME i + 1 <= n PROVE g[i + 1] = f[i + 1]
      OBVIOUS
    <3>1. i \in 0 .. n - 1 /\ g[i] = f[i]
      BY <1>1, <2>2
    <3> QED
      BY <1>4, <1>11, <3>1
  <2> HIDE DEF S
  <2> QED
    BY <2>1, <2>2, Induction
<1>13. n \in S /\ g[n] = f[n]
  BY <1>1, <1>12
<1> QED
  BY <1>3, <1>4, <1>8, <1>13 DEF RunsOf, start

RevertsWith(operations, data) ==
  \E k \in 1 .. Len(operations) : operations[k].op = "revert" /\ operations[k].data = data
Follows(run, operations, storage) ==
  /\ \A s \in Slots : run.storage[s] # storage[s] => s \in run.written
  /\ Reverts(run) => RevertsWith(operations, run.outcome[2])

(* What is in storage was there or was written, and what a program reverts with is
   in the program. *)
LEMMA RunFollows ==
  ASSUME NEW operations \in Operations, NEW context \in Context, NEW storage \in Storages, NEW logs \in Seq(Int)
  PROVE  LET run == Perform(operations, context, storage, logs)
         IN run \in Run /\ Follows(run, operations, storage)
<1> DEFINE n == Len(operations)
<1>1. n \in Nat /\ \A i \in 1 .. n : operations[i] \in Operation
  BY DEF Operations
<1>2. PICK after : /\ RunsOf(after, operations, context, Started(storage, logs))
                   /\ Perform(operations, context, storage, logs) = after[n]
  BY PerformIs
<1>3. \A i \in 0 .. n : after[i] \in Run
  BY <1>2 DEF RunsOf
<1> DEFINE S == {i \in Nat : i <= n => Follows(after[i], operations, storage)}
<1>4. \A i \in Nat : i \in S
  <2>1. 0 \in S
    <3>1. Follows(Started(storage, logs), operations, storage)
      BY DEF Follows, Started, Reverts
    <3> QED
      BY <1>2, <3>1 DEF RunsOf
  <2>2. ASSUME NEW i \in Nat, i \in S  PROVE i + 1 \in S
    <3> SUFFICES ASSUME i + 1 <= n PROVE Follows(after[i + 1], operations, storage)
      OBVIOUS
    <3> DEFINE o == operations[i + 1]
               run == after[i]
               w == Word(o.from, context, run.storage)
    <3>1. i \in 0 .. n - 1 /\ i \in 0 .. n /\ i + 1 \in 1 .. n /\ Follows(run, operations, storage)
      BY <1>1, <2>2
    <3>2. after[i + 1] = AfterOperation(run, o, context)
      BY <1>2, <3>1 DEF RunsOf
    <3>3. after[i + 1] = IF run.outcome # <<>> THEN run ELSE Does(run, o, w)
      BY <1>1, <1>3, <3>1, <3>2, AfterOperationIs
    <3>4. run.storage \in [Slots -> Int]
      BY <1>3, <3>1 DEF Run
    <3> HIDE DEF run, w
    <3>5. \A s \in Slots : Does(run, o, w).storage[s] # storage[s] => s \in Does(run, o, w).written
      BY <3>1, <3>4 DEF Does, Follows
    <3>6. Reverts(Does(run, o, w)) => RevertsWith(operations, Does(run, o, w).outcome[2])
      <4>1. Reverts(Does(run, o, w)) => o.op = "revert" /\ Does(run, o, w).outcome[2] = o.data
        BY DEF Does, Reverts
      <4> QED
        BY <3>1, <4>1 DEF RevertsWith
    <3> QED
      BY <3>1, <3>3, <3>5, <3>6 DEF Follows
  <2> HIDE DEF S
  <2> QED
    BY <2>1, <2>2, Induction
<1>5. n \in S /\ n \in 0 .. n
  BY <1>1, <1>4
<1> QED
  BY <1>1, <1>2, <1>3, <1>5

-----------------------------------------------------------------------------
(* A run that begins with logs adds to them what it logs without. *)
Prefixed(run, logs) ==
  [storage |-> run.storage, written |-> run.written, logs |-> logs \o run.logs, outcome |-> run.outcome]

LEMMA ConcatAppend ==
  ASSUME NEW T, NEW a \in Seq(T), NEW b \in Seq(T), NEW x \in T
  PROVE  a \o Append(b, x) = Append(a \o b, x)
<1> DEFINE c == <<x>>
<1>1. a \o b \in Seq(T) /\ c \in Seq(T)
  BY ConcatProperties
<1>2. Append(b, x) = b \o c /\ Append(a \o b, x) = (a \o b) \o c
  BY <1>1, AppendIsConcat
<1> HIDE DEF c
<1>3. (a \o b) \o c = a \o (b \o c)
  BY <1>1, ConcatAssociative
<1> QED
  BY <1>2, <1>3

(* One operation of a run that began with logs. *)
LEMMA PrefixedStep ==
  ASSUME NEW run \in Run, NEW o \in Operation, NEW context \in Context, NEW logs \in Seq(Int)
  PROVE  AfterOperation(Prefixed(run, logs), o, context) = Prefixed(AfterOperation(run, o, context), logs)
<1> DEFINE w == Word(o.from, context, run.storage)
           p == Prefixed(run, logs)
<1>1. run.storage \in Storages /\ run.written \in SUBSET Slots /\ run.logs \in Seq(Int) /\ run.outcome \in Outcomes
  BY DEF Run, Storages
<1>2. p \in Run
  <2>1. logs \o run.logs \in Seq(Int)
    BY <1>1, ConcatProperties
  <2> QED
    BY <1>1, <2>1 DEF Prefixed, Run, Storages
<1>3. /\ p.storage = run.storage /\ p.written = run.written /\ p.logs = logs \o run.logs
      /\ p.outcome = run.outcome
  BY DEF Prefixed
<1>4. Word(o.from, context, p.storage) = w
  BY <1>3
<1>5. o.op # "revert" => w \in Int
  BY <1>1, OperationIs, WordIs
<1> HIDE DEF p, w
<1>6. AfterOperation(p, o, context) = IF run.outcome # <<>> THEN p ELSE Does(p, o, w)
  BY <1>2, <1>3, <1>4, AfterOperationIs
<1>7. AfterOperation(run, o, context) = IF run.outcome # <<>> THEN run ELSE Does(run, o, w)
  BY AfterOperationIs DEF w
<1>8. Does(p, o, w) = Prefixed(Does(run, o, w), logs)
  <2>1. o.op = "log" => Append(logs \o run.logs, w) = logs \o Append(run.logs, w)
    <3> SUFFICES ASSUME w \in Int PROVE Append(logs \o run.logs, w) = logs \o Append(run.logs, w)
      BY <1>5
    <3>1. \A a, b \in Seq(Int), x \in Int : a \o Append(b, x) = Append(a \o b, x)
      BY ConcatAppend
    <3>2. run.logs \in Seq(Int)
      BY <1>1
    <3> QED
      BY <3>1, <3>2, Zenon
  <2>2. (IF o.op = "log" THEN Append(p.logs, w) ELSE p.logs) = logs \o (IF o.op = "log" THEN Append(run.logs, w) ELSE run.logs)
    BY <1>3, <2>1
  <2> QED
    BY <1>3, <2>2 DEF Does, Prefixed
<1> QED
  BY <1>6, <1>7, <1>8 DEF p

LEMMA PrefixedRun ==
  ASSUME NEW operations \in Operations, NEW context \in Context, NEW storage \in Storages, NEW logs \in Seq(Int)
  PROVE  Perform(operations, context, storage, logs) = Prefixed(Perform(operations, context, storage, <<>>), logs)
<1> DEFINE n == Len(operations)
<1>1. n \in Nat /\ \A i \in 1 .. n : operations[i] \in Operation
  BY DEF Operations
<1>2. PICK after : /\ RunsOf(after, operations, context, Started(storage, logs))
                   /\ Perform(operations, context, storage, logs) = after[n]
  BY PerformIs
<1>3. PICK bare : /\ RunsOf(bare, operations, context, Started(storage, <<>>))
                  /\ Perform(operations, context, storage, <<>>) = bare[n]
  BY PerformIs, EmptyIsSeq
<1>4. \A i \in 0 .. n : bare[i] \in Run
  BY <1>3 DEF RunsOf
<1> DEFINE S == {i \in Nat : i <= n => after[i] = Prefixed(bare[i], logs)}
<1>5. \A i \in Nat : i \in S
  <2>1. 0 \in S
    <3>1. logs \o <<>> = logs
      BY ConcatEmptySeq
    <3>2. Started(storage, logs) = Prefixed(Started(storage, <<>>), logs)
      BY <3>1 DEF Started, Prefixed
    <3> QED
      BY <1>2, <1>3, <3>2 DEF RunsOf
  <2>2. ASSUME NEW i \in Nat, i \in S  PROVE i + 1 \in S
    <3> SUFFICES ASSUME i + 1 <= n PROVE after[i + 1] = Prefixed(bare[i + 1], logs)
      OBVIOUS
    <3>1. i \in 0 .. n - 1 /\ i \in 0 .. n /\ i + 1 \in 1 .. n /\ after[i] = Prefixed(bare[i], logs)
      BY <1>1, <2>2
    <3>2. /\ after[i + 1] = AfterOperation(after[i], operations[i + 1], context)
          /\ bare[i + 1] = AfterOperation(bare[i], operations[i + 1], context)
      BY <1>2, <1>3, <3>1 DEF RunsOf
    <3> QED
      BY <1>1, <1>4, <3>1, <3>2, PrefixedStep
  <2> HIDE DEF S
  <2> QED
    BY <2>1, <2>2, Induction
<1>6. n \in S
  BY <1>5, <1>1
<1> QED
  BY <1>1, <1>2, <1>3, <1>6

(* A marker is found where it stands last. *)
LEMMA SplitAtIs ==
  ASSUME NEW T, NEW line \in Seq(T), NEW sep, NEW i \in 1 .. Len(line), line[i] = sep,
         \A j \in i + 1 .. Len(line) : line[j] # sep
  PROVE  SplitAt(line, sep) = i
<1> DEFINE S == {j \in DOMAIN line : line[j] = sep}
<1>1. DOMAIN line = 1 .. Len(line) /\ Len(line) \in Nat
  OBVIOUS
<1>2. S \in SUBSET Int /\ i \in S
  BY <1>1
<1>3. \A j \in S : i >= j
  BY <1>1
<1>4. SplitAt(line, sep) = IF S = {} THEN 0 ELSE Max(S)
  BY DEF SplitAt
<1> HIDE DEF S
<1>5. Max(S) = i
  BY <1>2, <1>3, LastIs
<1> QED
  BY <1>2, <1>4, <1>5

(* The sections are found again: events hold no marker, and storage none of its own. *)
LEMMA SectionsOfLine ==
  ASSUME NEW T, EvtSep \in T, StoSep \in T, NEW o \in Seq(T), NEW events \in Seq(T), NEW storage \in Seq(T),
         \A i \in 1 .. Len(events) : events[i] # EvtSep,
         \A i \in 1 .. Len(storage) : storage[i] # StoSep
  PROVE  Sections(Line(o, events, storage)) = [outcome |-> o, events |-> events, storage |-> storage]
<1> DEFINE a == o \o <<EvtSep>>
           b == a \o events
           c == b \o <<StoSep>>
           line == c \o storage
<1>0. <<EvtSep>> \in Seq(T) /\ <<StoSep>> \in Seq(T) /\ Len(<<EvtSep>>) = 1 /\ Len(<<StoSep>>) = 1
      /\ <<EvtSep>>[1] = EvtSep /\ <<StoSep>>[1] = StoSep
  OBVIOUS
<1> DEFINE e == <<EvtSep>>
           s == <<StoSep>>
<1> HIDE DEF e, s
<1>1. /\ a \in Seq(T) /\ Len(a) = Len(o) + 1 /\ a[Len(o) + 1] = EvtSep
      /\ \A i \in 1 .. Len(o) : a[i] = o[i]
  <2>1. /\ o \o e \in Seq(T) /\ Len(o \o e) = Len(o) + Len(e)
        /\ \A i \in 1 .. Len(o) + Len(e) : (o \o e)[i] = IF i <= Len(o) THEN o[i] ELSE e[i - Len(o)]
    BY <1>0, ConcatProperties DEF e
  <2> QED
    BY <1>0, <2>1 DEF e
<1>2. /\ b \in Seq(T) /\ Len(b) = Len(a) + Len(events)
      /\ \A i \in 1 .. Len(a) : b[i] = a[i]
      /\ \A i \in 1 .. Len(events) : b[Len(a) + i] = events[i]
  <2> HIDE DEF a
  <2>1. /\ b \in Seq(T) /\ Len(b) = Len(a) + Len(events)
        /\ \A i \in 1 .. Len(a) + Len(events) : b[i] = IF i <= Len(a) THEN a[i] ELSE events[i - Len(a)]
    BY <1>1, ConcatProperties
  <2> QED
    BY <1>1, <2>1
<1>3. /\ c \in Seq(T) /\ Len(c) = Len(b) + 1 /\ c[Len(b) + 1] = StoSep
      /\ \A i \in 1 .. Len(b) : c[i] = b[i]
  <2> HIDE DEF b
  <2>0. s \in Seq(T) /\ b \in Seq(T)
    BY <1>0, <1>2 DEF s
  <2>1. /\ b \o s \in Seq(T) /\ Len(b \o s) = Len(b) + Len(s)
        /\ \A i \in 1 .. Len(b) + Len(s) : (b \o s)[i] = IF i <= Len(b) THEN b[i] ELSE s[i - Len(b)]
    BY <2>0, ConcatProperties
  <2>2. c = b \o s
    BY DEF s
  <2>3. Len(b) \in Nat /\ Len(s) = 1 /\ s[1] = StoSep
    BY <1>0, <1>2 DEF s
  <2>4. Len(b) + 1 \in 1 .. Len(b) + Len(s) /\ ~(Len(b) + 1 <= Len(b)) /\ (Len(b) + 1) - Len(b) = 1
    BY <2>3
  <2> HIDE DEF c
  <2>5. (b \o s)[Len(b) + 1] = StoSep
    BY <2>1, <2>3, <2>4
  <2> QED
    BY <2>1, <2>2, <2>3, <2>5
<1>4. /\ line \in Seq(T) /\ Len(line) = Len(c) + Len(storage)
      /\ \A i \in 1 .. Len(c) : line[i] = c[i]
      /\ \A i \in 1 .. Len(storage) : line[Len(c) + i] = storage[i]
  <2> HIDE DEF c
  <2>1. /\ line \in Seq(T) /\ Len(line) = Len(c) + Len(storage)
        /\ \A i \in 1 .. Len(c) + Len(storage) : line[i] = IF i <= Len(c) THEN c[i] ELSE storage[i - Len(c)]
    BY <1>3, ConcatProperties
  <2> QED
    BY <1>3, <2>1
<1>5. Line(o, events, storage) = line
  BY DEF Line
<1> HIDE DEF a, b, c, line
<1>6. Len(o) \in Nat /\ Len(events) \in Nat /\ Len(storage) \in Nat
  OBVIOUS
<1>7. SplitAt(line, StoSep) = Len(c)
  <2>0. Len(c) \in 1 .. Len(c) /\ Len(c) \in 1 .. Len(line)
    BY <1>1, <1>2, <1>3, <1>4, <1>6
  <2>1. Len(c) \in 1 .. Len(line) /\ line[Len(c)] = StoSep
    BY <1>3, <1>4, <2>0
  <2>2. \A j \in Len(c) + 1 .. Len(line) : line[j] # StoSep
    <3> TAKE j \in Len(c) + 1 .. Len(line)
    <3>1. j - Len(c) \in 1 .. Len(storage) /\ Len(c) + (j - Len(c)) = j
      BY <1>1, <1>2, <1>3, <1>4, <1>6
    <3> QED
      BY <1>4, <3>1
  <2> QED
    BY <1>4, <2>1, <2>2, SplitAtIs
<1>8. SubSeq(line, 1, Len(c) - 1) = b
  <2>1. \A i \in 1 .. Len(c) - 1 : line[i] = b[i] /\ line[i] \in T
    BY <1>1, <1>2, <1>3, <1>4, <1>6
  <2>2. Len(c) - 1 = Len(b) /\ Len(b) \in Nat
    BY <1>1, <1>2, <1>3, <1>6
  <2>3. /\ SubSeq(line, 1, Len(b)) \in Seq(T) /\ Len(SubSeq(line, 1, Len(b))) = Len(b)
        /\ \A i \in 1 .. Len(b) : SubSeq(line, 1, Len(b))[i] = line[i]
    BY <2>1, <2>2, SubSeqProperties
  <2> QED
    BY <1>2, <2>1, <2>2, <2>3, SeqEqual
<1>9. SplitAt(b, EvtSep) = Len(a)
  <2>1. Len(a) \in 1 .. Len(b) /\ b[Len(a)] = EvtSep
    BY <1>1, <1>2, <1>6
  <2>2. \A j \in Len(a) + 1 .. Len(b) : b[j] # EvtSep
    <3> TAKE j \in Len(a) + 1 .. Len(b)
    <3>1. j - Len(a) \in 1 .. Len(events) /\ Len(a) + (j - Len(a)) = j
      BY <1>1, <1>2, <1>6
    <3> QED
      BY <1>2, <3>1
  <2> QED
    BY <1>2, <2>1, <2>2, SplitAtIs
<1>10. SubSeq(line, 1, Len(a) - 1) = o
  <2>1. Len(a) - 1 = Len(o)
    BY <1>1, <1>6
  <2>2. \A i \in 1 .. Len(o) : line[i] = o[i] /\ line[i] \in T
    BY <1>1, <1>2, <1>3, <1>4, <1>6
  <2>3. /\ SubSeq(line, 1, Len(o)) \in Seq(T) /\ Len(SubSeq(line, 1, Len(o))) = Len(o)
        /\ \A i \in 1 .. Len(o) : SubSeq(line, 1, Len(o))[i] = line[i]
    BY <1>6, <2>2, SubSeqProperties
  <2> QED
    BY <2>1, <2>2, <2>3, SeqEqual
<1>11. SubSeq(line, Len(a) + 1, Len(c) - 1) = events
  <2> DEFINE p == Len(a) + 1
             q == Len(c) - 1
  <2>1. p \in Int /\ q \in Int /\ q - p + 1 = Len(events) /\ (p <= q \/ Len(events) = 0)
    BY <1>1, <1>2, <1>3, <1>6
  <2>2. \A i \in p .. q : line[i] \in T
    BY <1>1, <1>2, <1>3, <1>4, <1>6
  <2>3. \A i \in 1 .. Len(events) : line[p + i - 1] = events[i]
    <3> TAKE i \in 1 .. Len(events)
    <3>1. p + i - 1 = Len(a) + i
      BY <1>1, <1>6
    <3>2. Len(a) + i \in 1 .. Len(b) /\ Len(a) + i \in 1 .. Len(c)
      BY <1>1, <1>2, <1>3, <1>6
    <3>3. line[Len(a) + i] = c[Len(a) + i]
      BY <1>4, <3>2
    <3>4. c[Len(a) + i] = b[Len(a) + i]
      BY <1>3, <3>2
    <3>5. b[Len(a) + i] = events[i]
      BY <1>2
    <3> HIDE DEF p
    <3> QED
      BY <3>1, <3>3, <3>4, <3>5
  <2> HIDE DEF p, q
  <2>4. /\ SubSeq(line, p, q) \in Seq(T) /\ Len(SubSeq(line, p, q)) = IF p <= q THEN q - p + 1 ELSE 0
        /\ \A i \in 1 .. q - p + 1 : SubSeq(line, p, q)[i] = line[p + i - 1]
    BY <2>1, <2>2, SubSeqProperties
  <2>5. Len(SubSeq(line, p, q)) = Len(events) /\ \A i \in 1 .. Len(events) : SubSeq(line, p, q)[i] = events[i]
    BY <2>1, <2>3, <2>4
  <2>6. SubSeq(line, p, q) = events
    BY <2>4, <2>5, SeqEqual
  <2> QED
    BY <2>6 DEF p, q
<1>12. SubSeq(line, Len(c) + 1, Len(line)) = storage
  <2> DEFINE p == Len(c) + 1
             q == Len(line)
  <2>1. p \in Int /\ q \in Int /\ q - p + 1 = Len(storage) /\ (p <= q \/ Len(storage) = 0)
    BY <1>1, <1>2, <1>3, <1>4, <1>6
  <2>2. \A i \in p .. q : line[i] \in T
    BY <1>1, <1>2, <1>3, <1>4, <1>6
  <2>3. \A i \in 1 .. Len(storage) : line[p + i - 1] = storage[i]
    <3> TAKE i \in 1 .. Len(storage)
    <3>1. p + i - 1 = Len(c) + i
      BY <1>1, <1>2, <1>3, <1>6
    <3> QED
      BY <1>4, <3>1
  <2> HIDE DEF p, q
  <2>4. /\ SubSeq(line, p, q) \in Seq(T) /\ Len(SubSeq(line, p, q)) = IF p <= q THEN q - p + 1 ELSE 0
        /\ \A i \in 1 .. q - p + 1 : SubSeq(line, p, q)[i] = line[p + i - 1]
    BY <2>1, <2>2, SubSeqProperties
  <2>5. Len(SubSeq(line, p, q)) = Len(storage) /\ \A i \in 1 .. Len(storage) : SubSeq(line, p, q)[i] = storage[i]
    BY <2>1, <2>3, <2>4
  <2>6. SubSeq(line, p, q) = storage
    BY <2>4, <2>5, SeqEqual
  <2> QED
    BY <2>6 DEF p, q
<1>13. Len(a) # 0
  BY <1>1, <1>6
<1> QED
  BY <1>5, <1>7, <1>8, <1>9, <1>10, <1>11, <1>12, <1>13 DEF Sections

(* What a line is made of. *)
Markers == {"success", "revert", "deployrevert", "empty", "error", "panic", "custom"}
LineTokens ==
  {<<k>> : k \in Markers} \cup Tokens \cup {Raw(d) : d \in RevertData} \cup ({"w", "log"} \X Int)
  \cup ({"slot"} \X Slots \X Int) \cup {EvtSep, StoSep}
Headed(head, form) == <<<<head>>>> \o form

(* A token in front of a line. *)
LEMMA MarkedIsSeq ==
  ASSUME NEW T, NEW x \in T, NEW s \in Seq(T)
  PROVE  /\ <<x>> \o s \in Seq(T) /\ Len(<<x>> \o s) = Len(s) + 1 /\ (<<x>> \o s)[1] = x
         /\ \A i \in 1 .. Len(s) : (<<x>> \o s)[i + 1] = s[i]
<1> DEFINE a == <<x>>
<1>1. a \in Seq(T) /\ Len(a) = 1 /\ a[1] = x
  OBVIOUS
<1>2. Len(s) \in Nat
  OBVIOUS
<1> HIDE DEF a
<1>3. /\ a \o s \in Seq(T) /\ Len(a \o s) = Len(a) + Len(s)
      /\ \A i \in 1 .. Len(a) + Len(s) : (a \o s)[i] = IF i <= Len(a) THEN a[i] ELSE s[i - Len(a)]
  BY <1>1, ConcatProperties
<1>4. (a \o s)[1] = x
  BY <1>1, <1>2, <1>3
<1>5. ASSUME NEW i \in 1 .. Len(s)  PROVE (a \o s)[i + 1] = s[i]
  <2>1. i + 1 \in 1 .. Len(a) + Len(s) /\ ~(i + 1 <= Len(a)) /\ (i + 1) - Len(a) = i
    BY <1>1, <1>2
  <2> QED
    BY <1>3, <2>1
<1> QED
  BY <1>1, <1>2, <1>3, <1>4, <1>5 DEF a

Decoded == {"error", "panic", "custom"}
(* The form of revert data begins with what tells its kind. *)
LEMMA RevertFormIs ==
  ASSUME NEW d \in RevertData
  PROVE  /\ d.sel \in Decoded => EvmRevertForm(d) = <<<<d.sel>>>> \o d.carries
         /\ d.sel = "none" => EvmRevertForm(d) = <<<<"empty">>>>
         /\ d.sel = "unknown" => EvmRevertForm(d) = <<Raw(d)>>
         /\ d.sel \in Decoded \cup {"none", "unknown"}
         /\ EvmRevertForm(d) \in Seq(LineTokens) /\ Len(EvmRevertForm(d)) # 0
         /\ EvmRevertForm(d)[1][1] =
              IF d.sel = "none" THEN "empty" ELSE IF d.sel = "unknown" THEN "raw" ELSE d.sel
<1> DEFINE form == EvmRevertForm(d)
           x == <<d.sel>>
<1>1. d.sel \in Decoded \cup {"none", "unknown"} /\ d.carries \in Seq(Tokens)
  BY DEF RevertData, Decoded
<1>2. CASE d.sel \in Decoded
  <2>1. form = <<x>> \o d.carries
    BY <1>2 DEF EvmRevertForm, Decoded
  <2>2. x \in LineTokens /\ x[1] = d.sel
    BY <1>2 DEF Decoded, LineTokens, Markers
  <2>3. d.carries \in Seq(LineTokens)
    <3>1. Tokens \subseteq LineTokens
      BY DEF LineTokens
    <3> QED
      BY <1>1, <3>1, SeqMonotonic
  <2>4. Len(d.carries) \in Nat
    BY <2>3
  <2> HIDE DEF form, x
  <2>5. form \in Seq(LineTokens) /\ Len(form) = Len(d.carries) + 1 /\ form[1] = x
    BY <2>1, <2>2, <2>3, MarkedIsSeq
  <2>6. d.sel # "none" /\ d.sel # "unknown"
    BY <1>2 DEF Decoded
  <2>7. Len(form) # 0
    BY <2>4, <2>5
  <2> QED
    BY <1>1, <2>1, <2>2, <2>5, <2>6, <2>7 DEF form, x
<1>3. CASE d.sel = "none"
  <2>1. form = <<<<"empty">>>>
    BY <1>3 DEF EvmRevertForm
  <2>2. <<"empty">> \in LineTokens /\ <<"empty">>[1] = "empty"
    BY DEF LineTokens, Markers
  <2>3. \A y \in LineTokens : <<y>> \in Seq(LineTokens) /\ Len(<<y>>) # 0 /\ <<y>>[1] = y
    OBVIOUS
  <2> HIDE DEF form
  <2>4. form \in Seq(LineTokens) /\ Len(form) # 0 /\ form[1] = <<"empty">>
    BY <2>1, <2>2, <2>3
  <2> QED
    BY <1>3, <2>1, <2>2, <2>4 DEF form, Decoded
<1>4. CASE d.sel = "unknown"
  <2>1. form = <<Raw(d)>>
    BY <1>4 DEF EvmRevertForm
  <2>2. Raw(d) \in LineTokens /\ Raw(d)[1] = "raw"
    BY DEF LineTokens, Raw
  <2>3. \A y \in LineTokens : <<y>> \in Seq(LineTokens) /\ Len(<<y>>) # 0 /\ <<y>>[1] = y
    OBVIOUS
  <2> HIDE DEF form
  <2>4. form \in Seq(LineTokens) /\ Len(form) # 0 /\ form[1] = Raw(d)
    BY <2>1, <2>2, <2>3
  <2> QED
    BY <1>4, <2>1, <2>2, <2>4 DEF form, Decoded
<1> QED
  BY <1>1, <1>2, <1>3, <1>4

(* An outcome begins with its head. *)
LEMMA HeadedIs ==
  ASSUME NEW head \in Markers, NEW form \in Seq(LineTokens), Len(form) # 0
  PROVE  /\ Headed(head, form) \in Seq(LineTokens) /\ Len(Headed(head, form)) = Len(form) + 1
         /\ Headed(head, form)[1] = <<head>> /\ Headed(head, form)[2] = form[1]
<1> DEFINE x == <<head>>
<1>1. x \in LineTokens
  BY DEF LineTokens
<1>2. 1 \in 1 .. Len(form) /\ 1 + 1 = 2
  OBVIOUS
<1> HIDE DEF x
<1>3. /\ <<x>> \o form \in Seq(LineTokens) /\ Len(<<x>> \o form) = Len(form) + 1
      /\ (<<x>> \o form)[1] = x /\ \A i \in 1 .. Len(form) : (<<x>> \o form)[i + 1] = form[i]
  BY <1>1, MarkedIsSeq
<1> QED
  BY <1>2, <1>3 DEF Headed, x

(* Raw bytes or decoded, what is compared is the decoded form. *)
LEMMA CanonicalizedIs ==
  ASSUME NEW d \in RevertData, NEW head \in {"revert", "deployrevert"}, NEW events, NEW storage,
         NEW form, form \in {RenderRevert(d), EvmRevertForm(d)}
  PROVE  /\ Headed(head, form) \in Seq(LineTokens)
         /\ CanonicalizeRawRevert([outcome |-> Headed(head, form), events |-> events, storage |-> storage])
              = [outcome |-> Headed(head, EvmRevertForm(d)), events |-> events, storage |-> storage]
<1> DEFINE raw == <<Raw(d)>>
           o == Headed(head, form)
           decoded == EvmRevertForm(d)
           observable == [outcome |-> o, events |-> events, storage |-> storage]
<1>0. head \in Markers /\ <<head>>[1] = head
  BY DEF Markers
<1>1. form = raw \/ (form = decoded /\ d.sel # "unknown")
  BY RevertFormIs DEF RenderRevert
<1>2. CASE form = raw
  <2>1. /\ Raw(d) \in LineTokens /\ Raw(d)[1] = "raw"
        /\ Raw(d)[2] = d.sel /\ Raw(d)[3] = d.carries /\ Raw(d)[4] = d.more
    BY DEF LineTokens, Raw
  <2>2. raw \in Seq(LineTokens) /\ Len(raw) # 0 /\ raw[1] = Raw(d)
    BY <2>1
  <2> HIDE DEF raw
  <2>3. o \in Seq(LineTokens) /\ o[1] = <<head>> /\ o[2] = Raw(d)
    BY <1>0, <1>2, <2>2, HeadedIs
  <2> HIDE DEF o
  <2>4. CanonicalizeRawRevert(observable) =
          [observable EXCEPT !.outcome = <<o[1]>> \o EvmRevertForm(
             [sel |-> o[2][2], carries |-> o[2][3], more |-> o[2][4], built |-> TRUE])]
    BY <1>0, <2>1, <2>3 DEF CanonicalizeRawRevert
  <2>5. [sel |-> o[2][2], carries |-> o[2][3], more |-> o[2][4], built |-> TRUE]
          = [sel |-> d.sel, carries |-> d.carries, more |-> d.more, built |-> TRUE]
    BY <2>1, <2>3
  <2>6. EvmRevertForm([sel |-> d.sel, carries |-> d.carries, more |-> d.more, built |-> TRUE]) = decoded
    BY DEF EvmRevertForm, Raw
  <2>7. <<o[1]>> \o decoded = Headed(head, decoded)
    BY <2>3 DEF Headed
  <2> HIDE DEF decoded
  <2>8. CanonicalizeRawRevert(observable) = [observable EXCEPT !.outcome = Headed(head, decoded)]
    BY <2>4, <2>5, <2>6, <2>7
  <2>9. [observable EXCEPT !.outcome = Headed(head, decoded)]
          = [outcome |-> Headed(head, decoded), events |-> events, storage |-> storage]
    OBVIOUS
  <2> QED
    BY <2>3, <2>8, <2>9 DEF o, decoded
<1>3. CASE form = decoded /\ d.sel # "unknown"
  <2>1. decoded \in Seq(LineTokens) /\ Len(decoded) # 0 /\ decoded[1][1] # "raw"
    <3>1. /\ decoded \in Seq(LineTokens) /\ Len(decoded) # 0
          /\ decoded[1][1] = IF d.sel = "none" THEN "empty" ELSE IF d.sel = "unknown" THEN "raw" ELSE d.sel
          /\ d.sel \in Decoded \cup {"none", "unknown"}
      BY RevertFormIs
    <3> QED
      BY <1>3, <3>1 DEF Decoded
  <2> HIDE DEF decoded
  <2>2. o \in Seq(LineTokens) /\ o[1] = <<head>> /\ o[2] = decoded[1] /\ o = Headed(head, decoded)
    BY <1>0, <1>3, <2>1, HeadedIs
  <2> HIDE DEF o
  <2>3. CanonicalizeRawRevert(observable) = observable
    BY <2>1, <2>2 DEF CanonicalizeRawRevert
  <2> QED
    BY <2>2, <2>3 DEF o, decoded
<1> QED
  BY <1>1, <1>2, <1>3

Ended(run) == run.outcome # <<>> /\ ~Reverts(run)
(* The three ways for a program to be done. *)
LEMMA RunEnds ==
  ASSUME NEW run \in Run
  PROVE  /\ run.outcome = <<>> \/ Ended(run) \/ Reverts(run)
         /\ Ended(run) => run.outcome[2] \in Int /\ run.outcome = <<"success", run.outcome[2]>>
         /\ Reverts(run) => run.outcome[2] \in RevertData /\ run.outcome = <<"revert", run.outcome[2]>>
<1>1. run.outcome = <<>> \/ run.outcome \in {"success"} \X Int \/ run.outcome \in {"revert"} \X RevertData
  BY DEF Run, Outcomes
<1>2. ASSUME NEW a \in {"success"} \X Int  PROVE a[1] = "success" /\ a[2] \in Int /\ a = <<"success", a[2]>>
  OBVIOUS
<1>3. ASSUME NEW a \in {"revert"} \X RevertData  PROVE a[1] = "revert" /\ a[2] \in RevertData /\ a = <<"revert", a[2]>>
  OBVIOUS
<1> QED
  BY <1>1, <1>2, <1>3 DEF Ended, Reverts

(* The outcome in a line, for each. *)
LEMMA RenderCallIs ==
  ASSUME NEW run \in Run, NEW head, NEW side \in {"lean", "evm"}
  PROVE  /\ run.outcome = <<>> => RenderCall(run, head, side) = <<<<"success">>>>
         /\ Ended(run) => RenderCall(run, head, side) = Success(run.outcome[2])
         /\ Reverts(run) => RenderCall(run, head, side) =
              Headed(head, IF side = "lean" THEN RenderRevert(run.outcome[2]) ELSE EvmRevertForm(run.outcome[2]))
<1>1. Reverts(run) => run.outcome # <<>>
  BY DEF Reverts
<1> QED
  BY <1>1 DEF RenderCall, Ended, Headed

(* What a success looks like. *)
LEMMA SuccessIs ==
  ASSUME NEW w \in Int
  PROVE  /\ <<<<"success">>>> \in Seq(LineTokens) /\ Success(w) \in Seq(LineTokens)
         /\ <<<<"success">>>>[1] = <<"success">> /\ Len(<<<<"success">>>>) = 1
         /\ Success(w)[1] = <<"success">> /\ Success(w)[2] = <<"w", w>> /\ Len(Success(w)) = 2
<1>1. <<"success">> \in LineTokens /\ <<"w", w>> \in LineTokens
  BY DEF LineTokens, Markers
<1>2. \A x, y \in LineTokens : <<x>> \in Seq(LineTokens) /\ <<x, y>> \in Seq(LineTokens)
  OBVIOUS
<1> QED
  BY <1>1, <1>2 DEF Success

LogLines == Seq({"log"} \X Int)
SlotLines == Seq({"slot"} \X Slots \X Int)

(* Whichever engine rendered a run, its normal form is the EVM's. *)
LEMMA NormalFormOfLine ==
  ASSUME NEW run \in Run, NEW head \in {"revert", "deployrevert"}, NEW side \in {"lean", "evm"},
         NEW events \in LogLines, NEW storage \in SlotLines
  PROVE  NormalForm(Line(RenderCall(run, head, side), events, storage)) =
           [outcome |-> RenderCall(run, head, "evm"), events |-> events, storage |-> storage]
<1> DEFINE o == RenderCall(run, head, side)
           line == Line(o, events, storage)
<1>1. events \in Seq(LineTokens) /\ storage \in Seq(LineTokens)
  <2>1. {"log"} \X Int \subseteq LineTokens /\ {"slot"} \X Slots \X Int \subseteq LineTokens
    BY DEF LineTokens
  <2> QED
    BY <2>1, SeqMonotonic DEF LogLines, SlotLines
<1>2. EvtSep \in LineTokens /\ StoSep \in LineTokens
  BY DEF LineTokens
<1>3. \A i \in 1 .. Len(events) : events[i] # EvtSep
  <2>1. \A i \in 1 .. Len(events) : events[i][1] = "log"
    <3>1. \A i \in 1 .. Len(events) : events[i] \in {"log"} \X Int
      BY DEF LogLines
    <3> QED
      BY <3>1
  <2> QED
    BY <2>1 DEF EvtSep
<1>4. \A i \in 1 .. Len(storage) : storage[i] # StoSep
  <2>1. \A i \in 1 .. Len(storage) : storage[i][1] = "slot"
    <3>1. \A i \in 1 .. Len(storage) : storage[i] \in {"slot"} \X Slots \X Int
      BY DEF SlotLines
    <3> QED
      BY <3>1
  <2> QED
    BY <2>1 DEF StoSep
<1> DEFINE canonical == [outcome |-> RenderCall(run, head, "evm"), events |-> events, storage |-> storage]
<1>5. CASE Reverts(run)
  <2> DEFINE d == run.outcome[2]
             form == IF side = "lean" THEN RenderRevert(d) ELSE EvmRevertForm(d)
  <2>1. d \in RevertData /\ o = Headed(head, form) /\ RenderCall(run, head, "evm") = Headed(head, EvmRevertForm(d))
    BY <1>5, RunEnds, RenderCallIs
  <2>2. form \in {RenderRevert(d), EvmRevertForm(d)}
    OBVIOUS
  <2> HIDE DEF d, form, o
  <2>3. o \in Seq(LineTokens)
    BY <2>1, <2>2, CanonicalizedIs
  <2>4. Sections(line) = [outcome |-> o, events |-> events, storage |-> storage]
    BY <1>1, <1>2, <1>3, <1>4, <2>3, SectionsOfLine
  <2>5. CanonicalizeRawRevert([outcome |-> o, events |-> events, storage |-> storage])
          = [outcome |-> Headed(head, EvmRevertForm(d)), events |-> events, storage |-> storage]
    BY <2>1, <2>2, CanonicalizedIs
  <2> HIDE DEF line
  <2>6. NormalForm(line) = canonical
    BY <2>1, <2>4, <2>5 DEF NormalForm
  <2> QED
    BY <2>6 DEF line, o
<1>6. CASE ~Reverts(run)
  <2>1. o = RenderCall(run, head, "evm") /\ o \in Seq(LineTokens) /\ o[1] = <<"success">>
    <3>1. CASE run.outcome = <<>>
      <4>1. 0 \in Int
        OBVIOUS
      <4> QED
        BY <3>1, <4>1, RenderCallIs, SuccessIs
    <3>2. CASE Ended(run)
      BY <3>2, RenderCallIs, RunEnds, SuccessIs
    <3> QED
      BY <1>6, <3>1, <3>2, RunEnds
  <2>5. o \in Seq(LineTokens)
    BY <2>1
  <2> HIDE DEF o
  <2>2. Sections(line) = [outcome |-> o, events |-> events, storage |-> storage]
    BY <1>1, <1>2, <1>3, <1>4, <2>5, SectionsOfLine
  <2>3. CanonicalizeRawRevert([outcome |-> o, events |-> events, storage |-> storage])
          = [outcome |-> o, events |-> events, storage |-> storage]
    BY <2>1 DEF CanonicalizeRawRevert
  <2> HIDE DEF line
  <2>4. NormalForm(line) = canonical
    BY <2>1, <2>2, <2>3 DEF NormalForm
  <2> QED
    BY <2>4 DEF line, o
<1> QED
  BY <1>5, <1>6

(* The last of some places of a sequence is one of them. *)
LEMMA LastIsOne ==
  ASSUME NEW n \in Nat, NEW S \in SUBSET (1 .. n), NEW k \in S
  PROVE  Max(S) \in S
<1> DEFINE R == {n - i : i \in S}
<1>1. R \in SUBSET Nat /\ n - k \in R
  OBVIOUS
<1> HIDE DEF R
<1>2. PICK m \in R : \A j \in R : m <= j
  BY <1>1, LeastNumber
<1>3. PICK i \in S : m = n - i
  BY <1>2 DEF R
<1>4. \A j \in S : n - i <= n - j
  BY <1>2, <1>3 DEF R
<1>5. \A j \in S : i >= j
  BY <1>4
<1>6. S \in SUBSET Int
  OBVIOUS
<1> QED
  BY <1>5, <1>6, LastIs

(* Injection changes only the slots that are injected. *)
LEMMA InjectedIs ==
  ASSUME NEW env \in Environment, NEW storage \in Storages
  PROVE  /\ Injected(storage, env) \in Storages /\ InjectedSlots(env) \in SUBSET Slots
         /\ \A s \in Slots : s \notin InjectedSlots(env) => Injected(storage, env)[s] = storage[s]
<1> DEFINE inject == env.inject
           n == Len(inject)
           places(s) == {i \in DOMAIN inject : inject[i][1] = s}
<1>1. inject \in Seq(Slots \X Int)
  BY DEF Environment
<1>2. n \in Nat /\ DOMAIN inject = 1 .. n /\ \A i \in 1 .. n : inject[i][1] \in Slots /\ inject[i][2] \in Int
  <2>1. n \in Nat /\ DOMAIN inject = 1 .. n /\ \A i \in 1 .. n : inject[i] \in Slots \X Int
    BY <1>1
  <2> QED
    BY <2>1
<1>3. InjectedSlots(env) = {inject[i][1] : i \in DOMAIN inject}
  BY DEF InjectedSlots
<1>4. Injected(storage, env) =
        [s \in Slots |-> IF s \in InjectedSlots(env) THEN inject[Max(places(s))][2] ELSE storage[s]]
  BY DEF Injected
<1> HIDE DEF inject
<1>5. InjectedSlots(env) \in SUBSET Slots
  BY <1>2, <1>3
<1>6. ASSUME NEW s \in Slots
      PROVE  (IF s \in InjectedSlots(env) THEN inject[Max(places(s))][2] ELSE storage[s]) \in Int
  <2>1. CASE s \in InjectedSlots(env)
    <3>1. PICK k \in 1 .. n : inject[k][1] = s
      BY <1>2, <1>3, <2>1
    <3>2. places(s) \in SUBSET (1 .. n) /\ k \in places(s)
      BY <1>2, <3>1
    <3> HIDE DEF places
    <3>3. Max(places(s)) \in 1 .. n
      BY <1>2, <3>2, LastIsOne
    <3> QED
      BY <1>2, <2>1, <3>3
  <2> QED
    BY <2>1 DEF Storages
<1> HIDE DEF places
<1> QED
  BY <1>4, <1>5, <1>6 DEF Storages

(* The logs of a run that began with logs, from there on. *)
LEMMA LogsFromIs ==
  ASSUME NEW run \in Run, NEW logs \in Seq(Int)
  PROVE  LogsFrom(Prefixed(run, logs), Len(logs)) = run.logs
<1> DEFINE a == run.logs
           c == logs \o a
           p == Len(logs) + 1
           q == Len(c)
<1>1. a \in Seq(Int)
  BY DEF Run
<1> HIDE DEF a
<1>2. Len(logs) \in Nat /\ Len(a) \in Nat
  BY <1>1
<1>3. /\ c \in Seq(Int) /\ Len(c) = Len(logs) + Len(a)
      /\ \A i \in 1 .. Len(logs) + Len(a) : c[i] = IF i <= Len(logs) THEN logs[i] ELSE a[i - Len(logs)]
  BY <1>1, ConcatProperties
<1>4. LogsFrom(Prefixed(run, logs), Len(logs)) = SubSeq(c, p, q)
  BY DEF LogsFrom, Prefixed, a
<1> HIDE DEF c
<1>5. p \in Int /\ q \in Int /\ q - p + 1 = Len(a) /\ (p <= q \/ Len(a) = 0)
  BY <1>2, <1>3
<1>6. \A i \in p .. q : c[i] \in Int
  BY <1>2, <1>3
<1>7. \A i \in 1 .. Len(a) : c[p + i - 1] = a[i]
  <2> TAKE i \in 1 .. Len(a)
  <2>1. p + i - 1 \in 1 .. Len(logs) + Len(a) /\ ~(p + i - 1 <= Len(logs)) /\ (p + i - 1) - Len(logs) = i
    BY <1>2
  <2> HIDE DEF p
  <2> QED
    BY <1>3, <2>1
<1> HIDE DEF p, q
<1>8. /\ SubSeq(c, p, q) \in Seq(Int) /\ Len(SubSeq(c, p, q)) = IF p <= q THEN q - p + 1 ELSE 0
      /\ \A i \in 1 .. q - p + 1 : SubSeq(c, p, q)[i] = c[p + i - 1]
  BY <1>5, <1>6, SubSeqProperties
<1>9. Len(SubSeq(c, p, q)) = Len(a) /\ \A i \in 1 .. Len(a) : SubSeq(c, p, q)[i] = a[i]
  BY <1>5, <1>7, <1>8
<1>10. SubSeq(c, p, q) = a
  BY <1>1, <1>8, <1>9, SeqEqual
<1> QED
  BY <1>4, <1>10 DEF a

-----------------------------------------------------------------------------
(* A program runs alike in both engines. *)
LEMMA NoSlotsIs == NoSlots \in Storages
  BY DEF NoSlots, Storages

(* The deployment and the call, in Lean and on the EVM (contest/env.py: "Applied
   IDENTICALLY on both engines"). *)
LEMMA SameRuns ==
  ASSUME NEW program \in Program, NEW env \in Environment, CallerPays(env)
  PROVE  LET deploy == EvmDeploy(program, env)
             call == EvmCall(program, env)
         IN /\ deploy \in Run /\ call \in Run
            /\ LeanDeploy(program, env) = deploy
            /\ LeanCall(program, env) = Prefixed(call, deploy.logs)
            /\ SlotsLoaded(deploy, call, env) \in SUBSET Slots
            /\ Nonzero(call.storage) \subseteq SlotsLoaded(deploy, call, env)
            /\ Reverts(deploy) => RevertsWith(program.constructor, deploy.outcome[2])
            /\ Reverts(call) => RevertsWith(program.entry, call.outcome[2])
<1> DEFINE deploy == EvmDeploy(program, env)
           call == EvmCall(program, env)
           first == EvmContext(env, FALSE)
           second == EvmContext(env, TRUE)
           injected == Injected(deploy.storage, env)
<1>1. program.constructor \in Operations /\ program.entry \in Operations
  BY DEF Program, Operations
<1>2. /\ first \in Context /\ second \in Context
      /\ LeanContext(env, FALSE) = first /\ LeanContext(env, TRUE) = second
  BY SameContext
<1>3. <<>> \in Seq(Int)
  BY EmptyIsSeq
<1>4. deploy = Perform(program.constructor, first, NoSlots, <<>>)
  BY DEF EvmDeploy
<1>5. call = Perform(program.entry, second, injected, <<>>)
  BY DEF EvmCall
<1>6. LeanDeploy(program, env) = deploy
  BY <1>2, <1>4 DEF LeanDeploy
<1>7. LeanCall(program, env) = Perform(program.entry, second, injected, deploy.logs)
  BY <1>2, <1>6 DEF LeanCall
<1> HIDE DEF first, second, deploy, call
<1>8. deploy \in Run /\ Follows(deploy, program.constructor, NoSlots)
  BY <1>1, <1>2, <1>3, <1>4, NoSlotsIs, RunFollows
<1>9. deploy.storage \in Storages /\ deploy.logs \in Seq(Int) /\ deploy.written \in SUBSET Slots
  BY <1>8 DEF Run, Storages
<1>10. /\ injected \in Storages /\ InjectedSlots(env) \in SUBSET Slots
       /\ \A s \in Slots : s \notin InjectedSlots(env) => injected[s] = deploy.storage[s]
  BY <1>9, InjectedIs
<1> HIDE DEF injected
<1>11. call \in Run /\ Follows(call, program.entry, injected)
  BY <1>1, <1>2, <1>3, <1>5, <1>10, RunFollows
<1>12. LeanCall(program, env) = Prefixed(call, deploy.logs)
  BY <1>1, <1>2, <1>5, <1>7, <1>9, <1>10, PrefixedRun
<1>13. SlotsLoaded(deploy, call, env) \in SUBSET Slots
  <2>1. call.written \in SUBSET Slots
    BY <1>11 DEF Run
  <2> QED
    BY <1>9, <1>10, <2>1 DEF SlotsLoaded
<1>14. ASSUME NEW s \in Slots, call.storage[s] # 0  PROVE s \in SlotsLoaded(deploy, call, env)
  <2>1. CASE call.storage[s] # injected[s]
    BY <1>11, <2>1 DEF Follows, SlotsLoaded
  <2>2. CASE s \in InjectedSlots(env)
    BY <2>2 DEF SlotsLoaded
  <2>3. CASE call.storage[s] = injected[s] /\ s \notin InjectedSlots(env)
    <3>1. deploy.storage[s] # NoSlots[s]
      BY <1>10, <1>14, <2>3 DEF NoSlots
    <3> QED
      BY <1>8, <3>1 DEF Follows, SlotsLoaded
  <2> QED
    BY <2>1, <2>2, <2>3
<1> QED
  BY <1>6, <1>8, <1>11, <1>12, <1>13, <1>14 DEF Follows, Nonzero, deploy, call

(* A finite set is enumerated with every member. *)
LEMMA SetToSeqIs ==
  ASSUME NEW set, IsFiniteSet(set)
  PROVE  /\ SetToSeq(set) \in [1 .. Cardinality(set) -> set] /\ Cardinality(set) \in Nat
         /\ \A x \in set : \E i \in 1 .. Cardinality(set) : SetToSeq(set)[i] = x
<1> DEFINE n == Cardinality(set)
           order == SetToSeq(set)
<1>1. n \in Nat /\ ExistsBijection(1 .. n, set)
  BY FS_CardinalityType
<1>2. PICK f \in [1 .. n -> set] : IsInjective(f)
  BY <1>1 DEF ExistsBijection, Bijection, Injection
<1>3. order = CHOOSE g \in [1 .. n -> set] : IsInjective(g)
  BY DEF SetToSeq
<1> HIDE DEF n, order
<1>4. order \in [1 .. n -> set] /\ IsInjective(order)
  BY <1>2, <1>3
<1>5. order \in Injection(1 .. n, set)
  BY <1>4 DEF Injection
<1>6. IsFiniteSet(1 .. n) /\ Cardinality(1 .. n) = Cardinality(set)
  <2>1. 1 \in Int /\ n \in Int
    BY <1>1
  <2>2. IsFiniteSet(1 .. n) /\ Cardinality(1 .. n) = IF 1 > n THEN 0 ELSE n - 1 + 1
    BY <2>1, FS_Interval
  <2>3. (IF 1 > n THEN 0 ELSE n - 1 + 1) = n
    BY <1>1
  <2> QED
    BY <2>2, <2>3 DEF n
<1>7. order \in Surjection(1 .. n, set)
  BY <1>5, <1>6, FS_Injection
<1> QED
  BY <1>1, <1>4, <1>7 DEF Surjection, n, order

(* The storage of a line is read back as the slots that are not zero. *)
StorageMap(storage) == {<<s, storage[s]>> : s \in Nonzero(storage)}
LEMMA RenderStorageIs ==
  ASSUME NEW storage \in Storages, NEW slots \in SUBSET Slots, Nonzero(storage) \subseteq slots
  PROVE  /\ RenderStorage(storage, slots) \in Seq({"slot"} \X Slots \X Int)
         /\ ParseStorageMap(RenderStorage(storage, slots)) = StorageMap(storage)
<1> DEFINE order == SetToSeq(slots)
           n == Cardinality(slots)
           rows == RenderStorage(storage, slots)
<1>1. IsFiniteSet(slots)
  BY MeasurementAssumption, FS_Subset
<1>2. order \in [1 .. n -> slots] /\ n \in Nat /\ \A x \in slots : \E i \in 1 .. n : order[i] = x
  BY <1>1, SetToSeqIs
<1>3. rows = [i \in DOMAIN order |-> <<"slot", order[i], storage[order[i]]>>]
  BY DEF RenderStorage
<1> HIDE DEF order, n, rows
<1>4. rows = [i \in 1 .. n |-> <<"slot", order[i], storage[order[i]]>>]
  BY <1>2, <1>3
<1>5. \A i \in 1 .. n : order[i] \in Slots /\ storage[order[i]] \in Int
  BY <1>2 DEF Storages
<1>6. rows \in [1 .. n -> {"slot"} \X Slots \X Int]
  BY <1>4, <1>5
<1>7. rows \in Seq({"slot"} \X Slots \X Int)
  BY <1>2, <1>6, FunctionIsSeq
<1>8. \A i \in 1 .. n : rows[i][2] = order[i] /\ rows[i][3] = storage[order[i]]
  BY <1>4
<1>9. DOMAIN rows = 1 .. n
  BY <1>4
<1>10. ParseStorageMap(rows) = {<<rows[i][2], rows[i][3]>> : i \in {j \in 1 .. n : rows[j][3] # 0}}
  BY <1>9 DEF ParseStorageMap
<1>11. ASSUME NEW x \in ParseStorageMap(rows)  PROVE x \in StorageMap(storage)
  <2>1. PICK i \in 1 .. n : rows[i][3] # 0 /\ x = <<rows[i][2], rows[i][3]>>
    BY <1>10
  <2>2. order[i] \in Nonzero(storage) /\ x = <<order[i], storage[order[i]]>>
    BY <1>5, <1>8, <2>1 DEF Nonzero
  <2> QED
    BY <2>2 DEF StorageMap
<1>12. ASSUME NEW x \in StorageMap(storage)  PROVE x \in ParseStorageMap(rows)
  <2>1. PICK s \in Nonzero(storage) : x = <<s, storage[s]>>
    BY DEF StorageMap
  <2>2. PICK i \in 1 .. n : order[i] = s
    BY <1>2
  <2>3. storage[s] # 0
    BY DEF Nonzero
  <2>4. rows[i][3] # 0 /\ x = <<rows[i][2], rows[i][3]>>
    BY <1>8, <2>1, <2>2, <2>3
  <2> QED
    BY <1>10, <2>4
<1> QED
  BY <1>7, <1>11, <1>12 DEF rows

(* The events of a line are the logs. *)
LEMMA RenderEventsIs ==
  ASSUME NEW logs \in Seq(Int)
  PROVE  /\ RenderEvents(logs) \in Seq({"log"} \X Int)
         /\ Len(RenderEvents(logs)) = Len(logs) /\ \A i \in 1 .. Len(logs) : RenderEvents(logs)[i][2] = logs[i]
<1>1. Len(logs) \in Nat /\ DOMAIN logs = 1 .. Len(logs) /\ \A i \in 1 .. Len(logs) : logs[i] \in Int
  OBVIOUS
<1>2. RenderEvents(logs) = [i \in 1 .. Len(logs) |-> <<"log", logs[i]>>]
  BY <1>1 DEF RenderEvents
<1>3. RenderEvents(logs) \in [1 .. Len(logs) -> {"log"} \X Int]
  BY <1>1, <1>2
<1>4. RenderEvents(logs) \in Seq({"log"} \X Int)
  BY <1>1, <1>3, FunctionIsSeq
<1>5. Len(RenderEvents(logs)) = Len(logs)
  BY <1>1, <1>3, <1>4
<1> QED
  BY <1>2, <1>4, <1>5

(* So they tell logs apart. *)
LEMMA EventsTellLogs ==
  ASSUME NEW a \in Seq(Int), NEW b \in Seq(Int)
  PROVE  RenderEvents(a) = RenderEvents(b) => a = b
<1> SUFFICES ASSUME RenderEvents(a) = RenderEvents(b)  PROVE a = b
  OBVIOUS
<1>1. Len(a) = Len(b) /\ \A i \in 1 .. Len(a) : a[i] = b[i]
  BY RenderEventsIs
<1> QED
  BY <1>1, SeqEqual

-----------------------------------------------------------------------------
(* What is compared of the two lines. *)
Seen(deploy, call, slots) ==
  IF Reverts(deploy) THEN [outcome |-> RenderCall(deploy, "deployrevert", "evm"), events |-> <<>>, storage |-> <<>>]
  ELSE IF Reverts(call) THEN [outcome |-> RenderCall(call, "revert", "evm"), events |-> <<>>, storage |-> <<>>]
  ELSE [outcome |-> RenderCall(call, "revert", "evm"), events |-> RenderEvents(call.logs),
        storage |-> RenderStorage(call.storage, slots)]

(* Both lines of a program have the outcome, the events and the storage of its runs. *)
LEMMA NormalFormsAre ==
  ASSUME NEW program \in Program, NEW env \in Environment, CallerPays(env)
  PROVE  LET deploy == EvmDeploy(program, env)
             call == EvmCall(program, env)
         IN /\ NormalForm(EvmObservable(program, env)) = Seen(deploy, call, SlotsLoaded(deploy, call, env))
            /\ NormalForm(LeanObservable(program, env)) = Seen(deploy, call, Nonzero(call.storage))
<1> DEFINE deploy == EvmDeploy(program, env)
           call == EvmCall(program, env)
           loaded == SlotsLoaded(deploy, call, env)
           set == Nonzero(call.storage)
           onEvm == EvmObservable(program, env)
           inLean == LeanObservable(program, env)
<1>1. /\ deploy \in Run /\ call \in Run
      /\ LeanDeploy(program, env) = deploy
      /\ LeanCall(program, env) = Prefixed(call, deploy.logs)
      /\ loaded \in SUBSET Slots /\ set \subseteq loaded
  BY SameRuns
<1>2. onEvm =
        IF Reverts(deploy) THEN Line(RenderCall(deploy, "deployrevert", "evm"), <<>>, <<>>)
        ELSE IF Reverts(call) THEN Line(RenderCall(call, "revert", "evm"), <<>>, <<>>)
        ELSE Line(RenderCall(call, "revert", "evm"), RenderEvents(call.logs), RenderStorage(call.storage, loaded))
  BY DEF EvmObservable
<1>3. LET again == LeanCall(program, env)
      IN inLean =
           IF Reverts(deploy) THEN Line(RenderCall(deploy, "deployrevert", "lean"), <<>>, <<>>)
           ELSE IF Reverts(again) THEN Line(RenderCall(again, "revert", "lean"), <<>>, <<>>)
           ELSE Line(RenderCall(again, "revert", "lean"), RenderEvents(LogsFrom(again, Len(deploy.logs))),
                     RenderStorage(again.storage, Nonzero(again.storage)))
  BY <1>1 DEF LeanObservable
<1> HIDE DEF deploy, call, loaded, onEvm, inLean
<1>4. deploy.logs \in Seq(Int) /\ call.logs \in Seq(Int) /\ call.storage \in Storages
  BY <1>1 DEF Run, Storages
<1> DEFINE again == Prefixed(call, deploy.logs)
<1>5. again.storage = call.storage /\ again.outcome = call.outcome
  BY DEF Prefixed
<1>6. LogsFrom(again, Len(deploy.logs)) = call.logs
  BY <1>1, <1>4, LogsFromIs
<1>7. (Reverts(again) <=> Reverts(call)) /\ RenderCall(again, "revert", "lean") = RenderCall(call, "revert", "lean")
  BY <1>5 DEF Reverts, RenderCall
<1> HIDE DEF again
<1>8. inLean =
        IF Reverts(deploy) THEN Line(RenderCall(deploy, "deployrevert", "lean"), <<>>, <<>>)
        ELSE IF Reverts(call) THEN Line(RenderCall(call, "revert", "lean"), <<>>, <<>>)
        ELSE Line(RenderCall(call, "revert", "lean"), RenderEvents(call.logs), RenderStorage(call.storage, set))
  BY <1>1, <1>3, <1>5, <1>6, <1>7 DEF again
<1>9. RenderEvents(call.logs) \in LogLines
  BY <1>4, RenderEventsIs DEF LogLines
<1>10. /\ RenderStorage(call.storage, loaded) \in SlotLines
       /\ RenderStorage(call.storage, set) \in SlotLines
  <2>1. set \in SUBSET Slots /\ Nonzero(call.storage) \subseteq set
    BY DEF Nonzero
  <2> QED
    BY <1>1, <1>4, <2>1, RenderStorageIs DEF SlotLines
<1>11. <<>> \in LogLines /\ <<>> \in SlotLines
  BY EmptyIsSeq DEF LogLines, SlotLines
<1>16. deploy \in Run /\ call \in Run
  BY <1>1
<1> HIDE DEF set
<1> DEFINE Goal == NormalForm(onEvm) = Seen(deploy, call, loaded) /\ NormalForm(inLean) = Seen(deploy, call, set)
<1>12. ASSUME Reverts(deploy)  PROVE Goal
  <2>1. onEvm = Line(RenderCall(deploy, "deployrevert", "evm"), <<>>, <<>>)
    BY <1>2, <1>12
  <2>2. inLean = Line(RenderCall(deploy, "deployrevert", "lean"), <<>>, <<>>)
    BY <1>8, <1>12
  <2> DEFINE seen == [outcome |-> RenderCall(deploy, "deployrevert", "evm"), events |-> <<>>, storage |-> <<>>]
  <2>3. NormalForm(Line(RenderCall(deploy, "deployrevert", "evm"), <<>>, <<>>)) = seen
    BY <1>16, <1>11, NormalFormOfLine
  <2>4. NormalForm(Line(RenderCall(deploy, "deployrevert", "lean"), <<>>, <<>>)) = seen
    BY <1>16, <1>11, NormalFormOfLine
  <2>5. Seen(deploy, call, loaded) = seen /\ Seen(deploy, call, set) = seen
    BY <1>12 DEF Seen
  <2> HIDE DEF seen
  <2> QED
    BY <2>1, <2>2, <2>3, <2>4, <2>5
<1>13. ASSUME ~Reverts(deploy), Reverts(call)  PROVE Goal
  <2>1. onEvm = Line(RenderCall(call, "revert", "evm"), <<>>, <<>>)
    BY <1>2, <1>13
  <2>2. inLean = Line(RenderCall(call, "revert", "lean"), <<>>, <<>>)
    BY <1>8, <1>13
  <2> DEFINE seen == [outcome |-> RenderCall(call, "revert", "evm"), events |-> <<>>, storage |-> <<>>]
  <2>3. NormalForm(Line(RenderCall(call, "revert", "evm"), <<>>, <<>>)) = seen
    BY <1>16, <1>11, NormalFormOfLine
  <2>4. NormalForm(Line(RenderCall(call, "revert", "lean"), <<>>, <<>>)) = seen
    BY <1>16, <1>11, NormalFormOfLine
  <2>5. Seen(deploy, call, loaded) = seen /\ Seen(deploy, call, set) = seen
    BY <1>13 DEF Seen
  <2> HIDE DEF seen
  <2> QED
    BY <2>1, <2>2, <2>3, <2>4, <2>5
<1>14. ASSUME ~Reverts(deploy), ~Reverts(call)  PROVE Goal
  <2>1. onEvm = Line(RenderCall(call, "revert", "evm"), RenderEvents(call.logs), RenderStorage(call.storage, loaded))
    BY <1>2, <1>14
  <2>2. inLean = Line(RenderCall(call, "revert", "lean"), RenderEvents(call.logs), RenderStorage(call.storage, set))
    BY <1>8, <1>14
  <2> DEFINE events == RenderEvents(call.logs)
             all == RenderStorage(call.storage, loaded)
             nonzero == RenderStorage(call.storage, set)
             seen(storage) == [outcome |-> RenderCall(call, "revert", "evm"), events |-> events, storage |-> storage]
  <2>5. Seen(deploy, call, loaded) = seen(all) /\ Seen(deploy, call, set) = seen(nonzero)
    BY <1>14 DEF Seen
  <2> HIDE DEF events, all, nonzero
  <2>3. NormalForm(Line(RenderCall(call, "revert", "evm"), events, all)) = seen(all)
    BY <1>16, <1>9, <1>10, NormalFormOfLine DEF events, all
  <2>4. NormalForm(Line(RenderCall(call, "revert", "lean"), events, nonzero)) = seen(nonzero)
    BY <1>16, <1>9, <1>10, NormalFormOfLine DEF events, nonzero
  <2> QED
    BY <2>1, <2>2, <2>3, <2>4, <2>5 DEF events, all, nonzero
<1>15. Goal
  BY <1>12, <1>13, <1>14
<1> QED
  BY <1>15 DEF deploy, call, loaded, onEvm, inLean, set

SeenInLean(program, env) == Seen(EvmDeploy(program, env), EvmCall(program, env), Nonzero(EvmCall(program, env).storage))
SeenOnEvm(program, env) ==
  Seen(EvmDeploy(program, env), EvmCall(program, env),
       SlotsLoaded(EvmDeploy(program, env), EvmCall(program, env), env))

(* The storage that is compared, of a program that does not revert. *)
LEMMA StorageIsSeen ==
  ASSUME NEW program \in Program, NEW env \in Environment, CallerPays(env),
         ~Reverts(EvmDeploy(program, env)), ~Reverts(EvmCall(program, env))
  PROVE  /\ ParseStorageMap(SeenInLean(program, env).storage) = StorageMap(EvmCall(program, env).storage)
         /\ ParseStorageMap(SeenOnEvm(program, env).storage) = StorageMap(EvmCall(program, env).storage)
<1> DEFINE deploy == EvmDeploy(program, env)
           call == EvmCall(program, env)
           loaded == SlotsLoaded(deploy, call, env)
           set == Nonzero(call.storage)
<1>1. call \in Run /\ loaded \in SUBSET Slots /\ set \subseteq loaded
  BY SameRuns
<1>2. call.storage \in Storages
  BY <1>1 DEF Run, Storages
<1>3. set \in SUBSET Slots
  BY DEF Nonzero
<1>4. /\ SeenInLean(program, env).storage = RenderStorage(call.storage, set)
      /\ SeenOnEvm(program, env).storage = RenderStorage(call.storage, loaded)
  BY DEF SeenInLean, SeenOnEvm, Seen
<1> HIDE DEF call, loaded
<1> QED
  BY <1>1, <1>2, <1>3, <1>4, RenderStorageIs DEF call

(* A program that both engines run alike compares equal. *)
LEMMA AlikeIsEqual ==
  ASSUME NEW program \in Program, NEW env \in Environment, CallerPays(env)
  PROVE  CompareObservables(NormalForm(LeanObservable(program, env)), NormalForm(EvmObservable(program, env))) = "equal"
<1> DEFINE deploy == EvmDeploy(program, env)
           call == EvmCall(program, env)
           l == SeenInLean(program, env)
           e == SeenOnEvm(program, env)
<1>1. l.outcome = e.outcome /\ l.events = e.events
  BY DEF SeenInLean, SeenOnEvm, Seen
<1>2. ParseStorageMap(l.storage) = ParseStorageMap(e.storage)
  <2>1. CASE Reverts(deploy) \/ Reverts(call)
    <3>1. l.storage = <<>> /\ e.storage = <<>>
      BY <2>1 DEF SeenInLean, SeenOnEvm, Seen
    <3> QED
      BY <3>1
  <2>2. CASE ~Reverts(deploy) /\ ~Reverts(call)
    BY <2>2, StorageIsSeen
  <2> QED
    BY <2>1, <2>2
<1>3. /\ NormalForm(LeanObservable(program, env)) = l
      /\ NormalForm(EvmObservable(program, env)) = e
  BY NormalFormsAre DEF SeenInLean, SeenOnEvm
<1> HIDE DEF l, e
<1>4. CompareObservables(l, e) = "equal"
  BY <1>1, <1>2 DEF CompareObservables
<1> QED
  BY <1>3, <1>4

-----------------------------------------------------------------------------
(* Exact revert data is told apart by its form. *)
ExactData(d) ==
  /\ ~d.more \/ d.sel = "unknown"
  /\ d.carries = <<>> \/ Last(d.carries) # <<"space">>

(* A token and a line are told from the line that they make. *)
LEMMA SameMarked ==
  ASSUME NEW T, NEW x \in T, NEW y \in T, NEW a \in Seq(T), NEW b \in Seq(T), <<x>> \o a = <<y>> \o b
  PROVE  x = y /\ a = b
<1> DEFINE s == <<x>> \o a
           t == <<y>> \o b
<1>1. /\ Len(s) = Len(a) + 1 /\ s[1] = x /\ \A i \in 1 .. Len(a) : s[i + 1] = a[i]
      /\ Len(t) = Len(b) + 1 /\ t[1] = y /\ \A i \in 1 .. Len(b) : t[i + 1] = b[i]
  BY MarkedIsSeq
<1>2. s = t
  OBVIOUS
<1> HIDE DEF s, t
<1>3. Len(a) \in Nat /\ Len(b) \in Nat
  OBVIOUS
<1>4. x = y /\ Len(a) = Len(b) /\ \A i \in 1 .. Len(a) : a[i] = b[i]
  BY <1>1, <1>2, <1>3
<1> QED
  BY <1>4, SeqEqual

(* The forms of exact data are equal when the data are. *)
LEMMA FormsTellData ==
  ASSUME NEW a \in RevertData, NEW b \in RevertData, ExactData(a), ExactData(b)
  PROVE  EvmRevertForm(a) = EvmRevertForm(b) <=> Raw(a) = Raw(b)
<1>1. Raw(a) = Raw(b) <=> a.sel = b.sel /\ a.carries = b.carries /\ a.more = b.more
  <2>1. /\ Raw(a)[2] = a.sel /\ Raw(a)[3] = a.carries /\ Raw(a)[4] = a.more
        /\ Raw(b)[2] = b.sel /\ Raw(b)[3] = b.carries /\ Raw(b)[4] = b.more
    BY DEF Raw
  <2>2. a.sel = b.sel /\ a.carries = b.carries /\ a.more = b.more => Raw(a) = Raw(b)
    BY DEF Raw
  <2> QED
    BY <2>1, <2>2
<1>2. Raw(a) = Raw(b) => EvmRevertForm(a) = EvmRevertForm(b)
  BY <1>1 DEF EvmRevertForm
<1>3. ASSUME EvmRevertForm(a) = EvmRevertForm(b)  PROVE Raw(a) = Raw(b)
  <2>1. /\ a.sel \in Decoded \cup {"none", "unknown"} /\ b.sel \in Decoded \cup {"none", "unknown"}
        /\ EvmRevertForm(a)[1][1] = IF a.sel = "none" THEN "empty" ELSE IF a.sel = "unknown" THEN "raw" ELSE a.sel
        /\ EvmRevertForm(b)[1][1] = IF b.sel = "none" THEN "empty" ELSE IF b.sel = "unknown" THEN "raw" ELSE b.sel
    BY RevertFormIs
  <2>2. a.sel = b.sel
    BY <1>3, <2>1 DEF Decoded
  <2>3. CASE a.sel \in Decoded
    <3> DEFINE x == <<a.sel>>
    <3>1. EvmRevertForm(a) = <<x>> \o a.carries /\ EvmRevertForm(b) = <<x>> \o b.carries
      BY <2>2, <2>3, RevertFormIs
    <3>2. a.carries \in Seq(Tokens \cup {x}) /\ b.carries \in Seq(Tokens \cup {x})
      <4>1. a.carries \in Seq(Tokens) /\ b.carries \in Seq(Tokens)
        BY DEF RevertData
      <4> QED
        BY <4>1, SeqMonotonic
    <3>3. x \in Tokens \cup {x}
      OBVIOUS
    <3> HIDE DEF x
    <3>4. a.carries = b.carries
      BY <1>3, <3>1, <3>2, <3>3, SameMarked
    <3>5. a.sel # "unknown"
      BY <2>3 DEF Decoded
    <3>6. ~a.more /\ ~b.more /\ a.more \in BOOLEAN /\ b.more \in BOOLEAN
      BY <2>2, <3>5 DEF ExactData, RevertData
    <3>7. a.more = b.more
      BY <3>6
    <3> QED
      BY <1>1, <2>2, <3>4, <3>7
  <2>4. CASE a.sel = "none"
    <3>1. a.carries = <<>> /\ b.carries = <<>> /\ ~a.more /\ ~b.more /\ a.more \in BOOLEAN /\ b.more \in BOOLEAN
      BY <2>2, <2>4 DEF RevertData
    <3>2. a.more = b.more
      BY <3>1
    <3> QED
      BY <1>1, <2>2, <3>1, <3>2
  <2>5. CASE a.sel = "unknown"
    <3>1. EvmRevertForm(a) = <<Raw(a)>> /\ EvmRevertForm(b) = <<Raw(b)>>
      BY <2>2, <2>5, RevertFormIs
    <3>2. <<Raw(a)>>[1] = Raw(a) /\ <<Raw(b)>>[1] = Raw(b)
      OBVIOUS
    <3> QED
      BY <1>3, <3>1, <3>2
  <2> QED
    BY <2>1, <2>3, <2>4, <2>5
<1> QED
  BY <1>2, <1>3

(* Stripping leaves them alone. *)
LEMMA FormHasNoSpace ==
  ASSUME NEW d \in RevertData, ExactData(d), NEW head \in Markers
  PROVE  Stripped(Headed(head, EvmRevertForm(d))) = Headed(head, EvmRevertForm(d))
<1> DEFINE form == EvmRevertForm(d)
           line == Headed(head, form)
<1>1. form \in Seq(LineTokens) /\ Len(form) # 0
  BY RevertFormIs
<1>2. form[Len(form)] # <<"space">>
  <2>1. CASE d.sel \in Decoded
    <3> DEFINE x == <<d.sel>>
    <3>1. form = <<x>> \o d.carries
      BY <2>1, RevertFormIs
    <3>2. d.carries \in Seq(Tokens \cup {x}) /\ x \in Tokens \cup {x}
      <4>1. d.carries \in Seq(Tokens)
        BY DEF RevertData
      <4> QED
        BY <4>1, SeqMonotonic
    <3>3. x # <<"space">>
      <4>1. x[1] = d.sel /\ <<"space">>[1] = "space" /\ d.sel # "space"
        BY <2>1 DEF Decoded
      <4> QED
        BY <4>1
    <3> HIDE DEF form, x
    <3>4. /\ Len(form) = Len(d.carries) + 1 /\ form[1] = x
          /\ \A i \in 1 .. Len(d.carries) : form[i + 1] = d.carries[i]
      BY <3>1, <3>2, MarkedIsSeq
    <3>5. Len(d.carries) \in Nat
      BY <3>2
    <3>6. CASE d.carries = <<>>
      <4>1. Len(form) = 1
        BY <3>4, <3>6
      <4> QED
        BY <3>3, <3>4, <4>1
    <3>7. CASE d.carries # <<>>
      <4>1. Len(d.carries) # 0
        BY <3>2, <3>7
      <4>2. Len(d.carries) \in 1 .. Len(d.carries) /\ Len(form) = Len(d.carries) + 1
        BY <3>4, <3>5, <4>1
      <4>3. form[Len(form)] = d.carries[Len(d.carries)]
        BY <3>4, <4>2
      <4>4. d.carries[Len(d.carries)] # <<"space">>
        BY <3>7 DEF ExactData, Last
      <4> QED
        BY <4>3, <4>4
    <3> QED
      BY <3>6, <3>7
  <2>2. CASE d.sel = "none"
    <3>1. form = <<<<"empty">>>>
      BY <2>2, RevertFormIs
    <3>2. <<"empty">>[1] # <<"space">>[1]
      OBVIOUS
    <3> HIDE DEF form
    <3> QED
      BY <3>1, <3>2
  <2>3. CASE d.sel = "unknown"
    <3>1. form = <<Raw(d)>>
      BY <2>3, RevertFormIs
    <3>2. Raw(d)[1] # <<"space">>[1]
      BY DEF Raw
    <3> HIDE DEF form
    <3>3. Len(form) = 1 /\ form[1] = Raw(d)
      BY <3>1
    <3> QED
      BY <3>2, <3>3
  <2> QED
    BY <2>1, <2>2, <2>3, RevertFormIs
<1> DEFINE x == <<head>>
<1>3. x \in LineTokens
  BY DEF LineTokens
<1> HIDE DEF form, x
<1>4. line = <<x>> \o form
  BY DEF Headed, x
<1>5. /\ Len(line) = Len(form) + 1 /\ \A i \in 1 .. Len(form) : line[i + 1] = form[i]
  BY <1>1, <1>3, <1>4, MarkedIsSeq
<1>6. Len(form) \in 1 .. Len(form)
  BY <1>1
<1>7. Last(line) # <<"space">>
  BY <1>2, <1>5, <1>6 DEF Last
<1> QED
  BY <1>7 DEF Stripped, form

ExactRun(run) == run \in Run /\ (Reverts(run) => ExactData(run.outcome[2]))

(* An exact outcome begins with its head, and stripping leaves it alone. *)
LEMMA OutcomeIs ==
  ASSUME NEW run, ExactRun(run), NEW head \in {"revert", "deployrevert"}
  PROVE  /\ Stripped(RenderCall(run, head, "evm")) = RenderCall(run, head, "evm")
         /\ RenderCall(run, head, "evm")[1] = IF Reverts(run) THEN <<head>> ELSE <<"success">>
<1> DEFINE o == RenderCall(run, head, "evm")
<1>0. run \in Run /\ head \in Markers
  BY DEF ExactRun, Markers
<1>1. CASE run.outcome = <<>>
  <2>1. o = <<<<"success">>>> /\ ~Reverts(run)
    BY <1>0, <1>1, RenderCallIs DEF Reverts
  <2>2. o[1] = <<"success">> /\ Last(o) = <<"success">>
    BY <2>1 DEF Last
  <2>3. <<"success">>[1] # <<"space">>[1]
    OBVIOUS
  <2> HIDE DEF o
  <2>4. Last(o) # <<"space">>
    BY <2>2, <2>3
  <2> QED
    BY <2>1, <2>2, <2>4 DEF Stripped, o
<1>2. CASE Ended(run)
  <2> DEFINE w == run.outcome[2]
  <2>1. o = Success(w) /\ ~Reverts(run)
    BY <1>0, <1>2, RenderCallIs DEF Ended
  <2>2. o[1] = <<"success">> /\ Last(o) = <<"w", w>>
    BY <2>1 DEF Last, Success
  <2>3. <<"w", w>>[1] # <<"space">>[1]
    OBVIOUS
  <2> HIDE DEF o, w
  <2>4. Last(o) # <<"space">>
    BY <2>2, <2>3
  <2> QED
    BY <2>1, <2>2, <2>4 DEF Stripped, o
<1>3. CASE Reverts(run)
  <2> DEFINE d == run.outcome[2]
  <2>1. d \in RevertData /\ o = Headed(head, EvmRevertForm(d))
    BY <1>0, <1>3, RunEnds, RenderCallIs
  <2>2. ExactData(d)
    BY <1>3 DEF ExactRun
  <2>3. EvmRevertForm(d) \in Seq(LineTokens) /\ Len(EvmRevertForm(d)) # 0
    BY <2>1, RevertFormIs
  <2> HIDE DEF o, d
  <2> QED
    BY <1>0, <1>3, <2>1, <2>2, <2>3, FormHasNoSpace, HeadedIs DEF o
<1> QED
  BY <1>0, <1>1, <1>2, <1>3, RunEnds

SameOutcome(a, g, b, h) ==
  \/ Reverts(a) /\ Reverts(b) /\ g = h /\ Raw(a.outcome[2]) = Raw(b.outcome[2])
  \/ ~Reverts(a) /\ ~Reverts(b) /\ a.outcome = b.outcome

(* Exact outcomes are equal when the runs ended alike. *)
LEMMA OutcomesTellRuns ==
  ASSUME NEW a, ExactRun(a), NEW b, ExactRun(b),
         NEW g \in {"revert", "deployrevert"}, NEW h \in {"revert", "deployrevert"}
  PROVE  RenderCall(a, g, "evm") = RenderCall(b, h, "evm") <=> SameOutcome(a, g, b, h)
<1> DEFINE o == RenderCall(a, g, "evm")
           u == RenderCall(b, h, "evm")
<1>0. a \in Run /\ b \in Run
  BY DEF ExactRun
<1>1. /\ o[1] = IF Reverts(a) THEN <<g>> ELSE <<"success">>
      /\ u[1] = IF Reverts(b) THEN <<h>> ELSE <<"success">>
  BY OutcomeIs
<1>2. <<g>>[1] = g /\ <<h>>[1] = h /\ <<"success">>[1] = "success"
  OBVIOUS
<1>3. ASSUME Reverts(a), Reverts(b)  PROVE o = u <=> SameOutcome(a, g, b, h)
  <2> DEFINE d == a.outcome[2]
             f == b.outcome[2]
  <2>1. /\ d \in RevertData /\ o = Headed(g, EvmRevertForm(d))
        /\ f \in RevertData /\ u = Headed(h, EvmRevertForm(f))
    BY <1>0, <1>3, RunEnds, RenderCallIs
  <2>2. ExactData(d) /\ ExactData(f)
    BY <1>3 DEF ExactRun
  <2>3. EvmRevertForm(d) \in Seq(LineTokens) /\ EvmRevertForm(f) \in Seq(LineTokens)
    BY <2>1, RevertFormIs
  <2>4. SameOutcome(a, g, b, h) <=> g = h /\ Raw(d) = Raw(f)
    BY <1>3 DEF SameOutcome
  <2> HIDE DEF o, u, d, f
  <2>5. EvmRevertForm(d) = EvmRevertForm(f) <=> Raw(d) = Raw(f)
    BY <2>1, <2>2, FormsTellData
  <2>6. g = h /\ EvmRevertForm(d) = EvmRevertForm(f) => o = u
    BY <2>1
  <2>7. ASSUME o = u  PROVE g = h /\ EvmRevertForm(d) = EvmRevertForm(f)
    <3> DEFINE x == <<g>>
               y == <<h>>
    <3>1. x \in LineTokens /\ y \in LineTokens
      BY DEF LineTokens, Markers
    <3>2. x = y => g = h
      BY <1>2
    <3>3. Headed(g, EvmRevertForm(d)) = <<x>> \o EvmRevertForm(d) /\ Headed(h, EvmRevertForm(f)) = <<y>> \o EvmRevertForm(f)
      BY DEF Headed
    <3>4. <<x>> \o EvmRevertForm(d) = <<y>> \o EvmRevertForm(f)
      BY <2>1, <2>7, <3>3
    <3> HIDE DEF x, y
    <3>5. x = y /\ EvmRevertForm(d) = EvmRevertForm(f)
      BY <2>3, <3>1, <3>4, SameMarked
    <3> QED
      BY <3>2, <3>5
  <2> QED
    BY <2>4, <2>5, <2>6, <2>7
<1>4. ASSUME ~Reverts(a), ~Reverts(b)  PROVE o = u <=> SameOutcome(a, g, b, h)
  <2>1. SameOutcome(a, g, b, h) <=> a.outcome = b.outcome
    BY <1>4 DEF SameOutcome
  <2>2. a.outcome = b.outcome => o = u
    BY <1>4 DEF RenderCall, Reverts
  <2>3. ASSUME o = u  PROVE a.outcome = b.outcome
    <3>1. \/ a.outcome = <<>> /\ Len(o) = 1
          \/ Ended(a) /\ o = Success(a.outcome[2]) /\ a.outcome[2] \in Int /\ a.outcome = <<"success", a.outcome[2]>>
      <4>1. CASE a.outcome = <<>>
        <5>1. o = <<<<"success">>>>
          BY <1>0, <4>1, RenderCallIs
        <5>2. Len(o) = 1
          BY <5>1
        <5> QED
          BY <4>1, <5>2
      <4>2. CASE Ended(a)
        BY <1>0, <4>2, RunEnds, RenderCallIs
      <4> QED
        BY <1>0, <1>4, <4>1, <4>2, RunEnds
    <3>2. \/ b.outcome = <<>> /\ Len(u) = 1
          \/ Ended(b) /\ u = Success(b.outcome[2]) /\ b.outcome[2] \in Int /\ b.outcome = <<"success", b.outcome[2]>>
      <4>1. CASE b.outcome = <<>>
        <5>1. u = <<<<"success">>>>
          BY <1>0, <4>1, RenderCallIs
        <5>2. Len(u) = 1
          BY <5>1
        <5> QED
          BY <4>1, <5>2
      <4>2. CASE Ended(b)
        BY <1>0, <4>2, RunEnds, RenderCallIs
      <4> QED
        BY <1>0, <1>4, <4>1, <4>2, RunEnds
    <3>3. \A w \in Int : Len(Success(w)) = 2 /\ Success(w)[2] = <<"w", w>> /\ <<"w", w>>[2] = w
      BY SuccessIs
    <3> HIDE DEF o, u
    <3> QED
      BY <2>3, <3>1, <3>2, <3>3
  <2> QED
    BY <2>1, <2>2, <2>3
<1>5. ASSUME Reverts(a), ~Reverts(b)  PROVE o # u /\ ~SameOutcome(a, g, b, h)
  <2>1. o[1][1] # u[1][1]
    BY <1>1, <1>2, <1>5
  <2> QED
    BY <1>5, <2>1 DEF SameOutcome
<1>6. ASSUME ~Reverts(a), Reverts(b)  PROVE o # u /\ ~SameOutcome(a, g, b, h)
  <2>1. o[1][1] # u[1][1]
    BY <1>1, <1>2, <1>6
  <2> QED
    BY <1>6, <2>1 DEF SameOutcome
<1> HIDE DEF o, u
<1>7. o = u <=> SameOutcome(a, g, b, h)
  BY <1>3, <1>4, <1>5, <1>6
<1> QED
  BY <1>7 DEF o, u

-----------------------------------------------------------------------------
SeenRun(run) == IF Reverts(run) THEN <<"revert", Raw(run.outcome[2])>> ELSE run.outcome
BehaviorOf(deploy, call) ==
  [deploy |-> IF Reverts(deploy) THEN SeenRun(deploy) ELSE <<>>,
   call |-> IF Reverts(deploy) THEN <<>> ELSE SeenRun(call),
   logs |-> IF Reverts(deploy) \/ Reverts(call) THEN <<>> ELSE call.logs,
   storage |-> IF Reverts(deploy) \/ Reverts(call) THEN {} ELSE StorageMap(call.storage)]

(* A behavior is that of the two runs. *)
LEMMA BehaviorIs ==
  ASSUME NEW program, NEW env
  PROVE  Behavior(program, env) = BehaviorOf(EvmDeploy(program, env), EvmCall(program, env))
  BY DEF Behavior, BehaviorOf, SeenRun, StorageMap

(* The chain tells runs apart as their outcomes do. *)
LEMMA SeenRunIs ==
  ASSUME NEW a \in Run, NEW b \in Run
  PROVE  /\ Reverts(a) => SeenRun(a) # <<>> /\ SeenRun(a)[1] = "revert"
         /\ ~Reverts(a) => ~(SeenRun(a) # <<>> /\ SeenRun(a)[1] = "revert")
         /\ Reverts(a) /\ Reverts(b) => (SeenRun(a) = SeenRun(b) <=> Raw(a.outcome[2]) = Raw(b.outcome[2]))
         /\ ~Reverts(a) /\ ~Reverts(b) => (SeenRun(a) = SeenRun(b) <=> a.outcome = b.outcome)
<1>1. ASSUME Reverts(a)  PROVE SeenRun(a) # <<>> /\ SeenRun(a)[1] = "revert"
  <2>1. SeenRun(a) = <<"revert", Raw(a.outcome[2])>>
    BY <1>1 DEF SeenRun
  <2>2. \A x : <<"revert", x>> # <<>> /\ <<"revert", x>>[1] = "revert"
    OBVIOUS
  <2> QED
    BY <2>1, <2>2
<1>2. ASSUME ~Reverts(a)  PROVE ~(SeenRun(a) # <<>> /\ SeenRun(a)[1] = "revert")
  BY <1>2 DEF SeenRun, Reverts
<1>3. ASSUME Reverts(a), Reverts(b)  PROVE SeenRun(a) = SeenRun(b) <=> Raw(a.outcome[2]) = Raw(b.outcome[2])
  <2>1. \A x, y : <<"revert", x>> = <<"revert", y>> => x = y
    OBVIOUS
  <2> QED
    BY <1>3, <2>1 DEF SeenRun
<1>4. ASSUME ~Reverts(a), ~Reverts(b)  PROVE SeenRun(a) = SeenRun(b) <=> a.outcome = b.outcome
  BY <1>4 DEF SeenRun
<1> QED
  BY <1>1, <1>2, <1>3, <1>4

(* The outcome of what is seen, by what reverts. *)
LEMMA SeenIs ==
  ASSUME NEW deploy, ExactRun(deploy), NEW call, ExactRun(call), NEW slots
  PROVE  LET seen == Seen(deploy, call, slots)
         IN /\ Stripped(seen.outcome) = seen.outcome
            /\ Reverts(deploy) =>
                 seen.outcome = RenderCall(deploy, "deployrevert", "evm") /\ Outcome(seen) = "deployrevert"
            /\ ~Reverts(deploy) => seen.outcome = RenderCall(call, "revert", "evm")
            /\ ~Reverts(deploy) /\ Reverts(call) => Outcome(seen) \in {"revert", "panic"}
            /\ ~Reverts(deploy) /\ ~Reverts(call) =>
                 Outcome(seen) = "success" /\ seen.events = RenderEvents(call.logs)
<1> DEFINE seen == Seen(deploy, call, slots)
           o == seen.outcome
<1>1. ASSUME Reverts(deploy)
      PROVE  o = RenderCall(deploy, "deployrevert", "evm") /\ Stripped(o) = o /\ Outcome(seen) = "deployrevert"
  <2>1. o = RenderCall(deploy, "deployrevert", "evm")
    BY <1>1 DEF Seen
  <2>2. Stripped(o) = o /\ o[1] = <<"deployrevert">>
    BY <1>1, <2>1, OutcomeIs
  <2>3. <<"deployrevert">>[1] = "deployrevert"
    OBVIOUS
  <2> HIDE DEF seen
  <2>4. Outcome(seen) = "deployrevert"
    BY <2>2, <2>3 DEF Outcome
  <2> QED
    BY <2>1, <2>2, <2>4
<1>2. ASSUME ~Reverts(deploy), Reverts(call)
      PROVE  o = RenderCall(call, "revert", "evm") /\ Stripped(o) = o /\ Outcome(seen) \in {"revert", "panic"}
  <2>1. o = RenderCall(call, "revert", "evm")
    BY <1>2 DEF Seen
  <2>2. Stripped(o) = o /\ o[1] = <<"revert">>
    BY <1>2, <2>1, OutcomeIs
  <2>3. <<"revert">>[1] = "revert"
    OBVIOUS
  <2> HIDE DEF seen
  <2>4. Outcome(seen) \in {"revert", "panic"}
    BY <2>2, <2>3 DEF Outcome
  <2> QED
    BY <2>1, <2>2, <2>4
<1>3. ASSUME ~Reverts(deploy), ~Reverts(call)
      PROVE  /\ o = RenderCall(call, "revert", "evm") /\ Stripped(o) = o /\ Outcome(seen) = "success"
             /\ seen.events = RenderEvents(call.logs)
  <2>1. o = RenderCall(call, "revert", "evm") /\ seen.events = RenderEvents(call.logs)
    BY <1>3 DEF Seen
  <2>2. Stripped(o) = o /\ o[1] = <<"success">>
    BY <1>3, <2>1, OutcomeIs
  <2>3. <<"success">>[1] = "success"
    OBVIOUS
  <2> HIDE DEF seen
  <2>4. Outcome(seen) = "success"
    BY <2>2, <2>3 DEF Outcome
  <2> QED
    BY <2>1, <2>2, <2>4
<1> HIDE DEF seen
<1> QED
  BY <1>1, <1>2, <1>3 DEF seen

(* The cases of FirstDifference. *)
LEMMA FirstDifferenceIs ==
  ASSUME NEW p, NEW q
  PROVE  /\ p = q => FirstDifference(p, q) = {"equal"}
         /\ p.deploy # q.deploy /\ p.deploy # <<>> /\ q.deploy # <<>> => FirstDifference(p, q) = {"wrong-deploy-revert"}
         /\ p.deploy # q.deploy /\ (p.deploy = <<>> \/ q.deploy = <<>>) =>
              FirstDifference(p, q) = {"deploy-revert-vs-success", "deploy-vs-call-revert"}
         /\ p.deploy = q.deploy /\ p.call # q.call => FirstDifference(p, q) = CallDifference(p, q)
         /\ p # q /\ p.deploy = q.deploy /\ p.call = q.call =>
              FirstDifference(p, q) = IF p.logs # q.logs THEN {"wrong-events"} ELSE {"wrong-state"}
<1>1. ASSUME p = q  PROVE FirstDifference(p, q) = {"equal"}
  BY <1>1 DEF FirstDifference
<1>2. ASSUME p.deploy # q.deploy
      PROVE  FirstDifference(p, q) = IF p.deploy # <<>> /\ q.deploy # <<>> THEN {"wrong-deploy-revert"}
                                     ELSE {"deploy-revert-vs-success", "deploy-vs-call-revert"}
  <2>1. p # q
    BY <1>2
  <2> QED
    BY <1>2, <2>1 DEF FirstDifference
<1>3. ASSUME p # q, p.deploy = q.deploy, p.call = q.call
      PROVE  FirstDifference(p, q) = IF p.logs # q.logs THEN {"wrong-events"} ELSE {"wrong-state"}
  BY <1>3 DEF FirstDifference
<1>4. ASSUME p.deploy = q.deploy, p.call # q.call  PROVE FirstDifference(p, q) = CallDifference(p, q)
  <2>1. p # q
    BY <1>4
  <2> QED
    BY <1>4, <2>1 DEF FirstDifference
<1> QED
  BY <1>1, <1>2, <1>3, <1>4

(* The comparison, case by case: both deployments revert, one does, or none; then
   both calls revert, one does, or none (compare_observables). *)
LEMMA FirstDifferenceIsNamed ==
  ASSUME NEW deployLean, ExactRun(deployLean), NEW callLean, ExactRun(callLean),
         NEW deployEvm, ExactRun(deployEvm), NEW callEvm, ExactRun(callEvm),
         NEW slotsLean, NEW slotsEvm,
         ~Reverts(deployLean) /\ ~Reverts(callLean) =>
           ParseStorageMap(Seen(deployLean, callLean, slotsLean).storage) = StorageMap(callLean.storage),
         ~Reverts(deployEvm) /\ ~Reverts(callEvm) =>
           ParseStorageMap(Seen(deployEvm, callEvm, slotsEvm).storage) = StorageMap(callEvm.storage)
  PROVE  CompareObservables(Seen(deployLean, callLean, slotsLean), Seen(deployEvm, callEvm, slotsEvm))
           \in FirstDifference(BehaviorOf(deployLean, callLean), BehaviorOf(deployEvm, callEvm))
<1> DEFINE l == Seen(deployLean, callLean, slotsLean)
           e == Seen(deployEvm, callEvm, slotsEvm)
           p == BehaviorOf(deployLean, callLean)
           q == BehaviorOf(deployEvm, callEvm)
           Goal == CompareObservables(l, e) \in FirstDifference(p, q)
<1>0. deployLean \in Run /\ callLean \in Run /\ deployEvm \in Run /\ callEvm \in Run
  BY DEF ExactRun
<1>1. Stripped(l.outcome) = l.outcome /\ Stripped(e.outcome) = e.outcome
  BY SeenIs
<1>2. p = q <=> p.deploy = q.deploy /\ p.call = q.call /\ p.logs = q.logs /\ p.storage = q.storage
  BY DEF BehaviorOf
<1>3. l.outcome # e.outcome => CompareObservables(l, e) = DifferingOutcome(Outcome(l), Outcome(e))
  BY <1>1 DEF CompareObservables
<1>4. l.outcome = e.outcome /\ Outcome(l) # "success" => CompareObservables(l, e) = "equal"
  BY <1>1 DEF CompareObservables
<1>5. l.outcome = e.outcome /\ Outcome(l) = "success" =>
        CompareObservables(l, e) = IF l.events # e.events THEN "wrong-events"
                                   ELSE IF ParseStorageMap(l.storage) # ParseStorageMap(e.storage) THEN "wrong-state"
                                   ELSE "equal"
  BY <1>1 DEF CompareObservables
<1>6. ASSUME Reverts(deployLean), Reverts(deployEvm)  PROVE Goal
  <2>1. /\ l.outcome = RenderCall(deployLean, "deployrevert", "evm") /\ Outcome(l) = "deployrevert"
        /\ e.outcome = RenderCall(deployEvm, "deployrevert", "evm") /\ Outcome(e) = "deployrevert"
    BY <1>6, SeenIs
  <2>2. l.outcome = e.outcome <=> Raw(deployLean.outcome[2]) = Raw(deployEvm.outcome[2])
    BY <1>6, <2>1, OutcomesTellRuns DEF SameOutcome
  <2>3. /\ p.deploy = SeenRun(deployLean) /\ q.deploy = SeenRun(deployEvm)
        /\ p.call = q.call /\ p.logs = q.logs /\ p.storage = q.storage
    BY <1>6 DEF BehaviorOf
  <2>4. /\ p.deploy = q.deploy <=> Raw(deployLean.outcome[2]) = Raw(deployEvm.outcome[2])
        /\ p.deploy # <<>> /\ q.deploy # <<>>
    BY <1>0, <1>6, <2>3, SeenRunIs
  <2>5. DifferingOutcome("deployrevert", "deployrevert") = "wrong-deploy-revert"
    BY DEF DifferingOutcome
  <2> HIDE DEF l, e, p, q
  <2>6. CASE l.outcome = e.outcome
    <3>1. p = q
      BY <1>2, <2>2, <2>3, <2>4, <2>6
    <3> QED
      BY <1>4, <2>1, <2>6, <3>1, FirstDifferenceIs
  <2>7. CASE l.outcome # e.outcome
    <3>1. p.deploy # q.deploy
      BY <2>2, <2>4, <2>7
    <3> QED
      BY <1>3, <2>1, <2>4, <2>5, <2>7, <3>1, FirstDifferenceIs
  <2> QED
    BY <2>6, <2>7
<1>7. ASSUME Reverts(deployLean), ~Reverts(deployEvm)  PROVE Goal
  <2>1. /\ l.outcome = RenderCall(deployLean, "deployrevert", "evm") /\ Outcome(l) = "deployrevert"
        /\ e.outcome = RenderCall(callEvm, "revert", "evm") /\ Outcome(e) \in {"revert", "panic", "success"}
    BY <1>7, SeenIs
  <2>2. l.outcome # e.outcome
    BY <1>7, <2>1, OutcomesTellRuns DEF SameOutcome
  <2>3. p.deploy # <<>> /\ q.deploy = <<>>
    BY <1>0, <1>7, SeenRunIs DEF BehaviorOf
  <2> HIDE DEF l, e, p, q
  <2>4. CompareObservables(l, e) \in {"deploy-revert-vs-success", "deploy-vs-call-revert"}
    BY <1>3, <2>1, <2>2 DEF DifferingOutcome
  <2> QED
    BY <2>3, <2>4, FirstDifferenceIs
<1>8. ASSUME ~Reverts(deployLean), Reverts(deployEvm)  PROVE Goal
  <2>1. /\ e.outcome = RenderCall(deployEvm, "deployrevert", "evm") /\ Outcome(e) = "deployrevert"
        /\ l.outcome = RenderCall(callLean, "revert", "evm") /\ Outcome(l) \in {"revert", "panic", "success"}
    BY <1>8, SeenIs
  <2>2. l.outcome # e.outcome
    BY <1>8, <2>1, OutcomesTellRuns DEF SameOutcome
  <2>3. q.deploy # <<>> /\ p.deploy = <<>>
    BY <1>0, <1>8, SeenRunIs DEF BehaviorOf
  <2> HIDE DEF l, e, p, q
  <2>4. CompareObservables(l, e) \in {"deploy-revert-vs-success", "deploy-vs-call-revert"}
    BY <1>3, <2>1, <2>2 DEF DifferingOutcome
  <2> QED
    BY <2>3, <2>4, FirstDifferenceIs
<1>9. ASSUME ~Reverts(deployLean), ~Reverts(deployEvm)  PROVE Goal
  <2>1. /\ l.outcome = RenderCall(callLean, "revert", "evm")
        /\ e.outcome = RenderCall(callEvm, "revert", "evm")
        /\ Reverts(callLean) => Outcome(l) \in {"revert", "panic"}
        /\ Reverts(callEvm) => Outcome(e) \in {"revert", "panic"}
        /\ ~Reverts(callLean) => Outcome(l) = "success" /\ l.events = RenderEvents(callLean.logs)
        /\ ~Reverts(callEvm) => Outcome(e) = "success" /\ e.events = RenderEvents(callEvm.logs)
    BY <1>9, SeenIs
  <2>2. l.outcome = e.outcome <=> SameOutcome(callLean, "revert", callEvm, "revert")
    BY <2>1, OutcomesTellRuns
  <2>3. /\ p.deploy = <<>> /\ q.deploy = <<>> /\ p.call = SeenRun(callLean) /\ q.call = SeenRun(callEvm)
        /\ p.logs = IF Reverts(callLean) THEN <<>> ELSE callLean.logs
        /\ q.logs = IF Reverts(callEvm) THEN <<>> ELSE callEvm.logs
        /\ p.storage = IF Reverts(callLean) THEN {} ELSE StorageMap(callLean.storage)
        /\ q.storage = IF Reverts(callEvm) THEN {} ELSE StorageMap(callEvm.storage)
    BY <1>9 DEF BehaviorOf
  <2>4. l.outcome = e.outcome <=> p.call = q.call
    <3>1. Reverts(callLean) /\ Reverts(callEvm) =>
            (SeenRun(callLean) = SeenRun(callEvm) <=> Raw(callLean.outcome[2]) = Raw(callEvm.outcome[2]))
      BY <1>0, SeenRunIs
    <3>2. ~Reverts(callLean) /\ ~Reverts(callEvm) =>
            (SeenRun(callLean) = SeenRun(callEvm) <=> callLean.outcome = callEvm.outcome)
      BY <1>0, SeenRunIs
    <3>3. (Reverts(callLean) <=> ~Reverts(callEvm)) => SeenRun(callLean) # SeenRun(callEvm)
      BY <1>0, SeenRunIs
    <3> HIDE DEF l, e, p, q
    <3> QED
      BY <2>2, <2>3, <3>1, <3>2, <3>3 DEF SameOutcome
  <2>5. /\ (p.call # <<>> /\ p.call[1] = "revert") <=> Reverts(callLean)
        /\ (q.call # <<>> /\ q.call[1] = "revert") <=> Reverts(callEvm)
    BY <1>0, <2>3, SeenRunIs
  <2>6. ~Reverts(callLean) /\ ~Reverts(callEvm) =>
          (ParseStorageMap(l.storage) = StorageMap(callLean.storage) /\ ParseStorageMap(e.storage) = StorageMap(callEvm.storage))
    BY <1>9
  <2>7. ~Reverts(callLean) /\ ~Reverts(callEvm) => (l.events = e.events <=> callLean.logs = callEvm.logs)
    <3>1. callLean.logs \in Seq(Int) /\ callEvm.logs \in Seq(Int)
      BY <1>0 DEF Run
    <3> QED
      BY <2>1, <3>1, EventsTellLogs
  <2> HIDE DEF l, e, p, q
  <2>8. CASE l.outcome # e.outcome
    <3>1. p.deploy = q.deploy /\ p.call # q.call
      BY <2>3, <2>4, <2>8
    <3>3. p # q
      BY <3>1
    <3>0. FirstDifference(p, q) = CallDifference(p, q)
      BY <3>1, FirstDifferenceIs
    <3> DEFINE reverts == {x \in {p, q} : x.call # <<>> /\ x.call[1] = "revert"}
    <3>2. FirstDifference(p, q) =
            IF reverts = {} THEN {"wrong-value"}
            ELSE IF reverts = {p, q} THEN {"wrong-revert", "wrong-panic"} ELSE {"revert-vs-success"}
      BY <3>0 DEF CallDifference
    <3>4. CompareObservables(l, e) = DifferingOutcome(Outcome(l), Outcome(e))
      BY <1>3, <2>8
    <3>5. CASE Reverts(callLean) /\ Reverts(callEvm)
      <4>1. reverts = {p, q}
        BY <2>5, <3>5
      <4>2. CompareObservables(l, e) \in {"wrong-revert", "wrong-panic"}
        BY <2>1, <3>4, <3>5 DEF DifferingOutcome
      <4> HIDE DEF reverts
      <4> QED
        BY <3>2, <4>1, <4>2
    <3>6. CASE ~Reverts(callLean) /\ ~Reverts(callEvm)
      <4>1. reverts = {}
        BY <2>5, <3>6
      <4>2. CompareObservables(l, e) = "wrong-value"
        BY <2>1, <3>4, <3>6 DEF DifferingOutcome
      <4> HIDE DEF reverts
      <4> QED
        BY <3>2, <4>1, <4>2
    <3>7. CASE ~(Reverts(callLean) <=> Reverts(callEvm))
      <4>1. reverts # {} /\ reverts # {p, q}
        BY <2>5, <3>3, <3>7
      <4>2. CompareObservables(l, e) = "revert-vs-success"
        BY <2>1, <3>4, <3>7 DEF DifferingOutcome
      <4> HIDE DEF reverts
      <4> QED
        BY <3>2, <4>1, <4>2
    <3> QED
      BY <3>5, <3>6, <3>7
  <2>9. CASE l.outcome = e.outcome
    <3>1. p.deploy = q.deploy /\ p.call = q.call
      BY <2>3, <2>4, <2>9
    <3>2. FirstDifference(p, q) = IF p = q THEN {"equal"} ELSE IF p.logs # q.logs THEN {"wrong-events"} ELSE {"wrong-state"}
      BY <3>1, FirstDifferenceIs
    <3>3. CASE Reverts(callLean)
      <4>1. Reverts(callEvm)
        BY <2>2, <2>9, <3>3 DEF SameOutcome
      <4>2. p = q
        BY <1>2, <2>3, <3>1, <3>3, <4>1
      <4>3. CompareObservables(l, e) = "equal"
        BY <1>4, <2>1, <2>9, <3>3
      <4> QED
        BY <3>2, <4>2, <4>3
    <3>4. CASE ~Reverts(callLean)
      <4>1. ~Reverts(callEvm)
        BY <2>2, <2>9, <3>4 DEF SameOutcome
      <4>2. /\ p.logs = callLean.logs /\ q.logs = callEvm.logs
            /\ p.storage = StorageMap(callLean.storage) /\ q.storage = StorageMap(callEvm.storage)
        BY <2>3, <3>4, <4>1
      <4>3. CompareObservables(l, e) =
              IF p.logs # q.logs THEN "wrong-events" ELSE IF p.storage # q.storage THEN "wrong-state" ELSE "equal"
        BY <1>5, <2>1, <2>6, <2>7, <2>9, <3>4, <4>1, <4>2
      <4> QED
        BY <1>2, <3>1, <3>2, <4>3
    <3> QED
      BY <3>3, <3>4
  <2> QED
    BY <2>8, <2>9
<1> QED
  BY <1>6, <1>7, <1>8, <1>9

(* The runs of an exact program are exact. *)
LEMMA RunsAreExact ==
  ASSUME NEW program \in Program, Exact(program), NEW env \in Environment, CallerPays(env)
  PROVE  ExactRun(EvmDeploy(program, env)) /\ ExactRun(EvmCall(program, env))
<1> DEFINE both == program.constructor \o program.entry
           first == program.constructor
           second == program.entry
<1>1. first \in Seq(Operation) /\ second \in Seq(Operation)
  BY DEF Program
<1>2. \A o \in ToSet(both) : o.op = "revert" => ExactData(o.data)
  BY DEF Exact, ExactData
<1>3. /\ \A k \in 1 .. Len(first) : first[k] \in ToSet(both)
      /\ \A k \in 1 .. Len(second) : second[k] \in ToSet(both)
  <2> HIDE DEF first, second
  <2>1. /\ first \o second \in Seq(Operation) /\ Len(first \o second) = Len(first) + Len(second)
        /\ \A i \in 1 .. Len(first) + Len(second) :
             (first \o second)[i] = IF i <= Len(first) THEN first[i] ELSE second[i - Len(first)]
    BY <1>1, ConcatProperties
  <2>2. Len(first) \in Nat /\ Len(second) \in Nat
    BY <1>1
  <2> DEFINE c == first \o second
  <2>3. DOMAIN c = 1 .. Len(first) + Len(second)
    BY <2>1
  <2>4. ToSet(c) = {c[i] : i \in DOMAIN c}
    BY DEF ToSet
  <2> HIDE DEF c
  <2>5. \A k \in 1 .. Len(first) : k \in DOMAIN c /\ c[k] = first[k]
    BY <2>1, <2>2, <2>3 DEF c
  <2>6. ASSUME NEW k \in 1 .. Len(second)  PROVE second[k] \in ToSet(c)
    <3>1. /\ Len(first) + k \in 1 .. Len(first) + Len(second) /\ ~(Len(first) + k <= Len(first))
          /\ (Len(first) + k) - Len(first) = k
      BY <2>2
    <3>2. c[Len(first) + k] = second[k]
      BY <2>1, <3>1 DEF c
    <3> QED
      BY <2>3, <2>4, <3>1, <3>2
  <2>7. both = c
    BY DEF c, first, second
  <2> QED
    BY <2>4, <2>5, <2>6, <2>7
<1>4. /\ EvmDeploy(program, env) \in Run /\ EvmCall(program, env) \in Run
      /\ Reverts(EvmDeploy(program, env)) => RevertsWith(first, EvmDeploy(program, env).outcome[2])
      /\ Reverts(EvmCall(program, env)) => RevertsWith(second, EvmCall(program, env).outcome[2])
  BY SameRuns
<1> HIDE DEF both, first, second
<1>5. \A data : RevertsWith(first, data) \/ RevertsWith(second, data) => ExactData(data)
  BY <1>2, <1>3 DEF RevertsWith
<1> QED
  BY <1>4, <1>5 DEF ExactRun

(* What differs first is what a comparison of two exact programs names. *)
LEMMA DivergenceIsNamed ==
  ASSUME NEW lean \in Program, NEW evm \in Program, NEW env \in Environment, CallerPays(env),
         Exact(lean), Exact(evm)
  PROVE  CompareObservables(NormalForm(LeanObservable(lean, env)), NormalForm(EvmObservable(evm, env)))
           \in FirstDifference(Behavior(lean, env), Behavior(evm, env))
<1> DEFINE deployLean == EvmDeploy(lean, env)
           callLean == EvmCall(lean, env)
           deployEvm == EvmDeploy(evm, env)
           callEvm == EvmCall(evm, env)
           slotsLean == Nonzero(callLean.storage)
           slotsEvm == SlotsLoaded(deployEvm, callEvm, env)
<1>1. ExactRun(deployLean) /\ ExactRun(callLean) /\ ExactRun(deployEvm) /\ ExactRun(callEvm)
  BY RunsAreExact
<1>2. /\ NormalForm(LeanObservable(lean, env)) = Seen(deployLean, callLean, slotsLean)
      /\ NormalForm(EvmObservable(evm, env)) = Seen(deployEvm, callEvm, slotsEvm)
  BY NormalFormsAre
<1>3. ~Reverts(deployLean) /\ ~Reverts(callLean) =>
        ParseStorageMap(Seen(deployLean, callLean, slotsLean).storage) = StorageMap(callLean.storage)
  BY StorageIsSeen DEF SeenInLean
<1>4. ~Reverts(deployEvm) /\ ~Reverts(callEvm) =>
        ParseStorageMap(Seen(deployEvm, callEvm, slotsEvm).storage) = StorageMap(callEvm.storage)
  BY StorageIsSeen DEF SeenOnEvm
<1>5. /\ Behavior(lean, env) = BehaviorOf(deployLean, callLean)
      /\ Behavior(evm, env) = BehaviorOf(deployEvm, callEvm)
  BY BehaviorIs
<1> HIDE DEF deployLean, callLean, deployEvm, callEvm, slotsLean, slotsEvm
<1>6. CompareObservables(Seen(deployLean, callLean, slotsLean), Seen(deployEvm, callEvm, slotsEvm))
        \in FirstDifference(BehaviorOf(deployLean, callLean), BehaviorOf(deployEvm, callEvm))
  BY <1>1, <1>3, <1>4, FirstDifferenceIsNamed
<1> QED
  BY <1>2, <1>5, <1>6

-----------------------------------------------------------------------------
(* Each step leaves what the one before it made. *)
MeasureInv ==
  /\ task # <<>> => task \in [lean: Program, evm: Program, env: Environment]
  /\ evmLine # <<>> => task # <<>> /\ evmLine = EvmObservable(task.evm, task.env)
  /\ leanLine # <<>> => evmLine # <<>> /\ leanLine = LeanObservable(task.lean, task.env)
  /\ compared # "none" =>
       leanLine # <<>> /\ compared = CompareObservables(NormalForm(leanLine), NormalForm(evmLine))

(* It holds at the start, and every step keeps it. *)
LEMMA MeasureStart == MeasureInit => MeasureInv
  BY DEF MeasureInit, MeasureInv

LEMMA MeasureStep == MeasureInv /\ [MeasureNext]_measureVars => MeasureInv'
<1> SUFFICES ASSUME MeasureInv, [MeasureNext]_measureVars  PROVE MeasureInv'
  OBVIOUS
<1>1. CASE TakeTask
  BY <1>1 DEF TakeTask, MeasureInv
<1>2. CASE MeasureEvm
  BY <1>2 DEF MeasureEvm, MeasureInv
<1>3. CASE EvaluateLean
  BY <1>3 DEF EvaluateLean, MeasureInv
<1>4. CASE CompareLines
  BY <1>4 DEF CompareLines, MeasureInv
<1>5. CASE UNCHANGED measureVars
  BY <1>5 DEF measureVars, MeasureInv
<1> QED
  BY <1>1, <1>2, <1>3, <1>4, <1>5 DEF MeasureNext

(* So the verdict compares the two lines of the task. *)
LEMMA MeasuredIsCompared ==
  ASSUME MeasureInv, compared # "none"
  PROVE  /\ task.lean \in Program /\ task.evm \in Program /\ task.env \in Environment
         /\ compared = CompareObservables(NormalForm(LeanObservable(task.lean, task.env)),
                                          NormalForm(EvmObservable(task.evm, task.env)))
<1>1. task \in [lean: Program, evm: Program, env: Environment]
  BY DEF MeasureInv
<1>2. task.lean \in Program /\ task.evm \in Program /\ task.env \in Environment
  BY <1>1
<1> QED
  BY <1>2 DEF MeasureInv

(* Both properties follow from it. *)
LEMMA NoFalseGapHolds == MeasureInv => NoFalseGap
<1> SUFFICES ASSUME MeasureInv, compared # "none", task.lean = task.evm, CallerPays(task.env)
             PROVE  compared = "equal"
  BY DEF NoFalseGap
<1>1. /\ task.lean \in Program /\ task.evm \in Program /\ task.env \in Environment
      /\ compared = CompareObservables(NormalForm(LeanObservable(task.lean, task.env)),
                                       NormalForm(EvmObservable(task.evm, task.env)))
  BY MeasuredIsCompared
<1> QED
  BY <1>1, AlikeIsEqual

LEMMA NoMaskedGapHolds == MeasureInv => NoMaskedGap
<1> SUFFICES ASSUME MeasureInv, compared # "none", CallerPays(task.env), Exact(task.lean), Exact(task.evm)
             PROVE  compared \in FirstDifference(Behavior(task.lean, task.env), Behavior(task.evm, task.env))
  BY DEF NoMaskedGap
<1>1. /\ task.lean \in Program /\ task.evm \in Program /\ task.env \in Environment
      /\ compared = CompareObservables(NormalForm(LeanObservable(task.lean, task.env)),
                                       NormalForm(EvmObservable(task.evm, task.env)))
  BY MeasuredIsCompared
<1> QED
  BY <1>1, DivergenceIsNamed

(* A program that both engines run alike compares equal: for every program,
   caller, value, deals and injected slots, if the caller can pay the value
   (contest/measure.py, contest/env.py, lean_eval_line). *)
THEOREM AlikeComparesEqual == MeasureSpec => []NoFalseGap
<1>1. MeasureSpec => []MeasureInv
  BY MeasureStart, MeasureStep, PTL DEF MeasureSpec
<1> QED
  BY <1>1, NoFalseGapHolds, PTL

(* A Lean that behaves otherwise is told apart, by the first component in which it
   does: for every two programs without trailing bytes or spaces in what they
   revert with (compare_observables, canonicalize_raw_revert). *)
THEOREM FirstDifferenceIsFound == MeasureSpec => []NoMaskedGap
<1>1. MeasureSpec => []MeasureInv
  BY MeasureStart, MeasureStep, PTL DEF MeasureSpec
<1> QED
  BY <1>1, NoMaskedGapHolds, PTL
=============================================================================
