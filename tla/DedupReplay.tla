---------------------------- MODULE DedupReplay ----------------------------
(***************************************************************************)
(* The replay of a pool of submissions against a reference build           *)
(* (contest/dedup_replay.py): E0 is the engine as it is, E1 the engine     *)
(* with the known gaps fixed.  An engine is the set of its defects, and a  *)
(* submission is an id, its lane, the defects its program trips, the       *)
(* feature it claims, and what goes wrong while each engine adjudicates    *)
(* it: "none", "timeout" (of the run in Lean) or "killed" (the importer).  *)
(*                                                                         *)
(* One action is one turn of a loop: _discover_pool lists the pool,        *)
(* batch_replay adjudicates the next submission, collapse_classes files    *)
(* the next item, _main prints the report.  The order in which the report  *)
(* lists its classes is left out.                                          *)
(***************************************************************************)
EXTENDS Integers, Sequences

CONSTANTS
  CurrentDefects, ReferenceDefects,
  Component,    \* the differing component of a defect
  Features, Ids,
  Pools         \* the directories that may be replayed

Submission ==
  [id: Ids, lane: {"S", "C", "over_accept"}, defects: SUBSET (CurrentDefects \cup ReferenceDefects),
   feature: Features, e0: {"none", "timeout", "killed"}, e1: {"none", "timeout", "killed"}]
(* an id is the name of a directory *)
IsPool(p) == p \in Seq(Submission) /\ \A i, j \in DOMAIN p : p[i].id = p[j].id => i = j

VARIABLES
  pool,
  items,      \* the replayed submissions, in their order
  classes,    \* per key, the ids of its class
  collapsed,  \* how many items are in their classes
  printed     \* the report, once it is there
batchVars == <<pool, items, classes, collapsed, printed>>

-----------------------------------------------------------------------------
(* The adjudication by one engine.                                         *)

Trips(s, engine) == s.defects \cap engine

(* the component that is compared first *)
Differing(s, engine) ==
  Component[CHOOSE d \in Trips(s, engine) : \A e \in Trips(s, engine) : d <= e]

ObsComponent(component) ==
  CASE component = "wrong-value" -> "return_value"
    [] component \in {"wrong-panic", "wrong-revert", "revert-vs-success"} -> "revert_data"
    [] component \in {"deploy-revert-vs-success", "deploy-vs-call-revert", "wrong-deploy-revert"} ->
         "deploy_revert_data"
    [] OTHER -> component

SoundnessFingerprint(component, feature) == <<ObsComponent(component), feature, component>>
(* Mutant: the submission is part of its key. *)
KeyOfAuthor(s, engine) == <<"return_value", s.id, "wrong-value">>

FingerprintKey(s, engine) ==
  CASE s.lane = "over_accept" -> <<"over_accept", s.feature, "over-accept">>
    [] s.lane = "C" -> <<"import", "unimplemented", "node">>
    [] s.lane = "S" -> SoundnessFingerprint(Differing(s, engine), s.feature)

(* adjudicate: a killed importer is a coverage gap, and a Lean run without a
   result is for review, but an agreement in the over-accept lane *)
Report(s, engine, trouble) ==
  LET is(verdict, key) == [verdict |-> verdict, key |-> key]
  IN CASE s.lane = "over_accept" /\ trouble # "none" -> is("NO_DIVERGENCE", <<>>)
       [] s.lane # "over_accept" /\ trouble = "timeout" -> is("NEEDS_REVIEW", <<>>)
       [] s.lane # "over_accept" /\ trouble = "killed" ->
            is("COVERAGE_GAP", <<"import", "import_fail", "unknown">>)
       [] trouble = "none" /\ Trips(s, engine) = {} -> is("NO_DIVERGENCE", <<>>)
       [] OTHER -> is(IF s.lane = "C" THEN "COVERAGE_GAP" ELSE "SOUNDNESS_GAP",
                      FingerprintKey(s, engine))

-----------------------------------------------------------------------------
(* One replay.                                                             *)

Qualifies(report) == report.verdict \in {"SOUNDNESS_GAP", "COVERAGE_GAP"}
IsInconclusive(report) == report.verdict \in {"NEEDS_REVIEW", "REJECT_MALFORMED", "INVALID"}

(* Mutant: whatever no longer qualifies is closed. *)
ClassifyUnseen(e0, e1) ==
  IF ~Qualifies(e0) THEN "not-in-pool" ELSE IF ~Qualifies(e1) THEN "duplicate" ELSE "novel"

ClassifyDedup(e0, e1) ==
  CASE ~Qualifies(e0) -> "not-in-pool"
    [] Qualifies(e0) /\ IsInconclusive(e1) -> "inconclusive"
    [] Qualifies(e0) /\ ~IsInconclusive(e1) /\ ~Qualifies(e1) -> "duplicate"
    [] Qualifies(e0) /\ Qualifies(e1) -> IF e0.key = e1.key THEN "novel" ELSE "shifted"

ReplayAgainstReference(s) ==
  LET e0 == Report(s, CurrentDefects, s.e0)
      e1 == IF Qualifies(e0) THEN Report(s, ReferenceDefects, s.e1) ELSE e0
  IN [id |-> s.id, class |-> ClassifyDedup(e0, e1), key |-> IF Qualifies(e1) THEN e1.key ELSE e0.key]

(* Mutant: inconclusive replays of one key share a class. *)
BucketByKey(item) ==
  IF item.class \in {"duplicate", "not-in-pool"} THEN <<>> ELSE <<"finding", item.key>>

(* the class of an item; <<>> for none *)
Bucket(item) ==
  CASE item.class \in {"duplicate", "not-in-pool"} -> <<>>
    [] item.class = "inconclusive" -> <<"review", item.id>>
    [] item.class \in {"novel", "shifted"} -> <<"finding", item.key>>

-----------------------------------------------------------------------------
(* A pool.                                                                 *)

BatchInit ==
  pool = <<>> /\ items = <<>> /\ classes = [key \in {} |-> <<>>] /\ collapsed = 0 /\ printed = {}

(* _discover_pool: the directories of --pool, in the order of their names *)
DiscoverPool ==
  /\ pool = <<>> /\ printed = {}
  /\ \E found \in Pools : IsPool(found) /\ pool' = found
  /\ UNCHANGED <<items, classes, collapsed, printed>>

(* batch_replay: the next submission *)
Replay ==
  /\ Len(items) < Len(pool)
  /\ items' = Append(items, ReplayAgainstReference(pool[Len(items) + 1]))
  /\ UNCHANGED <<pool, classes, collapsed, printed>>

(* Mutant: a later member takes the place of the first one. *)
JoinFirst(key, id) ==
  [k \in DOMAIN classes \cup {key} |->
     IF k # key THEN classes[k] ELSE IF key \in DOMAIN classes THEN <<id>> \o classes[key] ELSE <<id>>]

Join(key, id) ==
  [k \in DOMAIN classes \cup {key} |->
     IF k # key THEN classes[k] ELSE IF key \in DOMAIN classes THEN Append(classes[key], id) ELSE <<id>>]

(* collapse_classes: the next item *)
Collapse ==
  /\ Len(items) = Len(pool) /\ collapsed < Len(items)
  /\ LET item == items[collapsed + 1]
     IN classes' = IF Bucket(item) = <<>> THEN classes ELSE Join(Bucket(item), item.id)
  /\ collapsed' = collapsed + 1
  /\ UNCHANGED <<pool, items, printed>>

IdsOf(of) == {items[i].id : i \in {j \in DOMAIN items : items[j].class \in of}}
SummarizeBatch ==
  [unique |-> {[key |-> key[2],
                representative |-> classes[key][1],
                reskins |-> {classes[key][m] : m \in 2 .. Len(classes[key])}]
                 : key \in {k \in DOMAIN classes : k[1] # "review"}},
   duplicates |-> IdsOf({"duplicate"}), needsReview |-> IdsOf({"shifted", "inconclusive"}),
   notInPool |-> IdsOf({"not-in-pool"})]

(* _main with --pool *)
PrintReport ==
  /\ Len(items) = Len(pool) /\ collapsed = Len(items) /\ printed = {}
  /\ printed' = {SummarizeBatch}
  /\ UNCHANGED <<pool, items, classes, collapsed>>

(* its exit status *)
NeedsAttention(report) == report.unique # {} \/ report.needsReview # {}

BatchNext == DiscoverPool \/ Replay \/ Collapse \/ PrintReport
BatchSpec == BatchInit /\ [][BatchNext]_batchVars

-----------------------------------------------------------------------------
Untroubled(s) == s.e0 = "none" /\ s.e1 = "none"
Found(report) == {u.representative : u \in report.unique}
Reskins(report) == UNION {u.reskins : u \in report.unique}

(* Only a defect that the reference closes makes a duplicate, whatever goes
   wrong in the replay, unless Lean stops in the over-accept lane
   (classify_dedup). *)
DuplicatesAreClosed ==
  \A report \in printed : \A i \in DOMAIN pool :
    pool[i].id \in report.duplicates =>
      /\ Trips(pool[i], ReferenceDefects) = {} \/ (pool[i].lane = "over_accept" /\ pool[i].e1 # "none")
      /\ Trips(pool[i], CurrentDefects) # {} \/ pool[i].e0 = "killed"

(* A submission that trips a defect the reference still has is a finding or
   folded into one that was submitted before it (1, 4). One whose replay was
   inconclusive is for review and never folded (2). None is lost, and only a
   shifted one is in two lists (3, 5, 6). The exit status asks for attention unless
   there is nothing but duplicates and what never qualified (summarize_batch,
   _main). *)
EverySubmissionIsAccountedFor ==
  \A report \in printed :
    LET listed == Found(report) \cup Reskins(report)
        closed == report.duplicates \cup report.notInPool
    IN /\ \A i \in DOMAIN pool :
            LET s == pool[i]
            IN /\ Untroubled(s) /\ Trips(s, CurrentDefects \cap ReferenceDefects) # {} => s.id \in listed
               /\ (/\ s.lane # "over_accept" /\ s.e0 = "none" /\ s.e1 = "timeout"
                   /\ Trips(s, CurrentDefects) # {}) => s.id \in report.needsReview \ listed
               /\ s.id \in listed \cup closed \cup report.needsReview
       /\ \A u \in report.unique : \A i, j \in DOMAIN pool :
            pool[i].id = u.representative /\ pool[j].id \in u.reskins => i < j
       /\ Found(report) \cap Reskins(report) = {}
       /\ listed \cap closed = {}
       /\ NeedsAttention(report) \/ \A i \in DOMAIN pool : pool[i].id \in closed

(* Submissions of one program and one claimed feature are one finding
   (collapse_classes). *)
CopiesFold ==
  \A report \in printed : \A i, j \in DOMAIN pool :
    (/\ Untroubled(pool[i]) /\ Untroubled(pool[j]) /\ pool[i].lane = pool[j].lane
     /\ pool[i].defects = pool[j].defects /\ pool[i].feature = pool[j].feature
     /\ {pool[i].id, pool[j].id} \subseteq Found(report))
      => i = j

(* What a report says of the pool it is about: the three above. *)
SubmissionsAreClassed == DuplicatesAreClosed /\ EverySubmissionIsAccountedFor /\ CopiesFold

-----------------------------------------------------------------------------
(* "adjudicator-DERIVED identity for the divergence (never the submitter's
   feature tag) [...] Two submissions exploiting the same engine defect share
   this key even when re-skinned" (contest/dedup_replay.py:97-100). *)
ReskinsShareAKey ==
  \A i, j \in DOMAIN items :
    (/\ Untroubled(pool[i]) /\ Untroubled(pool[j]) /\ pool[i].lane = pool[j].lane
     /\ pool[i].defects = pool[j].defects /\ (\E d \in pool[i].defects : pool[i].defects = {d})
     /\ items[i].class = "novel" /\ items[j].class = "novel")
      => items[i].key = items[j].key
=============================================================================
