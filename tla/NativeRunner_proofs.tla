------------------------- MODULE NativeRunner_proofs -------------------------
(***************************************************************************)
(* What a replay executes is current, and what it spends is within its     *)
(* limit, for all builders, edits, kills, runs and limits.                 *)
(***************************************************************************)
EXTENDS NativeRunner, TLAPS

-----------------------------------------------------------------------------
(* The budget: a runner's place tells what it has spent, and on what. *)

BudgetOK ==
  /\ rpc \notin {"idle", "failed"} =>
       spent = 0 /\ logs.native = "none"
  /\ rpc = "failed" => native /\ logs.main = "native"
  /\ spent <= Limit
  /\ (rpc = "idle" /\ native /\ status = "failed") => Remaining < 2
  /\ (rpc = "idle" /\ ~native /\ logs.native = "native") => logs.main = "lean"

-----------------------------------------------------------------------------
(* The versions.  A stamp is whole or is no attestation. *)

Whole(s) == s \notin {Absent, Torn}
Attests(s) == s.source = s.binary /\ s.source = s.helper /\ s.source \in known
StampsOK ==
  (Whole(stamp) => Attests(stamp)) /\ (Whole(found) => Attests(found))

Sole == \A b, c \in Builders : Running(b) /\ Running(c) => b = c

(* The sources are not the ones the build began with: then they are new, and *)
(* no stamp attests them.                                                    *)
Unattested ==
  (Whole(stamp) => stamp.source # tree) /\ (Whole(found) => found.source # tree)
BuildOf(b) ==
  /\ bpc[b] \in {"lake", "olean", "link", "compare"} =>
       before[b] \in known /\ (before[b] # tree => Unattested)
  /\ bpc[b] \in {"olean", "link", "compare"} /\ before[b] = tree => read[b] = tree
  /\ bpc[b] \in {"link", "compare"} => helper = read[b]
  /\ bpc[b] = "compare" => binary = read[b]
  /\ Compared(b) => binary = tree /\ helper = tree
  /\ bpc[b] \in {"hash", "truncate", "write"} => draft[b].source = tree
  /\ bpc[b] \in {"truncate", "write"} => draft[b].binary = tree /\ draft[b].helper = tree
BuildOK == \A b \in Builders : BuildOf(b)

(* Once the runner has found the sources attested, what a running build may *)
(* still write over what it chose are versions that this run has seen.      *)
RunOK ==
  /\ rpc # "idle" => tree \in seen
  /\ rpc \notin {"idle", "run", "failed"} => ~native
  /\ rpc \in {"source_helper", "helper", "source_native", "native"} => Whole(found)
  /\ rpc \in {"helper", "native"} => found.source \in seen
  /\ rpc = "helper" \/ (imports /\ rpc # "idle") =>
       \A b \in Builders : bpc[b] = "olean" => read[b] \in seen
  /\ imports /\ rpc # "idle" => helper \in seen
  /\ rpc = "native" \/ (native /\ rpc = "run") =>
       \A b \in Builders : bpc[b] \in {"olean", "link"} => read[b] \in seen
  /\ native /\ rpc = "run" => binary \in seen
  /\ \A u \in used : u[2] \in seen

CurrentOK == tree \in known /\ StampsOK /\ Sole /\ BuildOK /\ RunOK

(* There is a draft from the moment its source is hashed. *)
Drafted ==
  \A b \in Builders : bpc[b] \in {"hash", "truncate", "write"} => draft[b] \in Stamps

Inv == TypeOK /\ Drafted /\ BudgetOK /\ (Undisturbed => CurrentOK)

-----------------------------------------------------------------------------
LEMMA InvInit == Init => Inv
<1> SUFFICES ASSUME Init PROVE Inv
  OBVIOUS
<1>1. TypeOK /\ Drafted
  <2>1. 0 \in Versions /\ 0 \in 0 .. Edits /\ 0 \in 0 .. Kills /\ 0 \in 0 .. Runs /\ Absent \in Built
    BY NativeRunnerAssumption DEF Versions, Built
  <2>2. logs \in [main: {"none", "native", "lean"}, native: {"none", "native"}]
    BY DEF Init
  <2> QED BY <2>1, <2>2 DEF Init, TypeOK, Drafted
<1>2. BudgetOK
  BY NativeRunnerAssumption DEF Init, BudgetOK
<1>3. CurrentOK
  BY DEF Init, CurrentOK, StampsOK, Whole, Sole, Running, BuildOK, BuildOf, Compared, RunOK
<1> QED BY <1>1, <1>2, <1>3 DEF Inv

-----------------------------------------------------------------------------
(* Types *)

LEMMA BuilderTypes ==
  ASSUME TypeOK, Drafted, NEW b \in Builders, BuilderNext(b)
  PROVE  TypeOK' /\ Drafted'
<1> USE NativeRunnerAssumption DEF At, BuilderKeeps, tree_vars, artifacts, runner
<1>1. CASE StartBuild(b)
  BY <1>1 DEF StartBuild, TypeOK, Drafted, Built
<1>2. CASE LakeReads(b)
  BY <1>2 DEF LakeReads, TypeOK, Drafted, Built
<1>3. CASE LakeWrites(b)
  BY <1>3 DEF LakeWrites, TypeOK, Drafted
<1>4. CASE LakeLinks(b)
  BY <1>4 DEF LakeLinks, TypeOK, Drafted
<1>5. CASE Compare(b)
  BY <1>5 DEF Compare, TypeOK, Drafted
<1>6. CASE DraftSource(b)
  <2>1. [source |-> tree, binary |-> Absent, helper |-> Absent] \in Stamps
    BY DEF TypeOK, Stamps, Built
  <2>2. bpc' = [bpc EXCEPT ![b] = "hash"] /\ draft' \in [Builders -> Stamps \cup {Absent}]
    BY <1>6, <2>1 DEF DraftSource, TypeOK
  <2>3. UNCHANGED <<tree, edits, known, binary, helper, stamp, before, read, raced,
             rpc, found, imports, native, status, spent, logs, used, seen, kills, runs>>
    BY <1>6 DEF DraftSource
  <2>4. Drafted'
    BY <1>6, <2>1, <2>2 DEF DraftSource, TypeOK, Drafted
  <2>5. bpc' \in [Builders -> {"idle", "lake", "olean", "link", "compare", "draft",
                              "hash", "truncate", "write"}]
    BY <2>2 DEF TypeOK
  <2> QED BY <2>2, <2>3, <2>4, <2>5 DEF TypeOK
<1>7. CASE DraftArtifacts(b)
  <2> DEFINE d == [draft[b] EXCEPT !.binary = binary, !.helper = helper]
  <2>1. d \in Stamps
    BY <1>7 DEF DraftArtifacts, TypeOK, Drafted, Stamps
  <2>2. draft' = [draft EXCEPT ![b] = d]
    BY <1>7 DEF DraftArtifacts, TypeOK
  <2> HIDE DEF d
  <2>3. /\ bpc' = [bpc EXCEPT ![b] = "truncate"]
        /\ UNCHANGED <<tree, edits, known, binary, helper, stamp, before, read, raced,
             rpc, found, imports, native, status, spent, logs, used, seen, kills, runs>>
    BY <1>7 DEF DraftArtifacts
  <2>4. draft' \in [Builders -> Stamps \cup {Absent}]
    BY <2>1, <2>2 DEF TypeOK
  <2>5. Drafted'
    BY <2>1, <2>2, <2>3 DEF TypeOK, Drafted
  <2>6. bpc' \in [Builders -> {"idle", "lake", "olean", "link", "compare", "draft",
                              "hash", "truncate", "write"}]
    BY <2>3 DEF TypeOK
  <2> QED BY <2>3, <2>4, <2>5, <2>6 DEF TypeOK
<1>8. CASE Truncate(b)
  BY <1>8 DEF Truncate, TypeOK, Drafted
<1>9. CASE Publish(b)
  BY <1>9 DEF Publish, TypeOK, Drafted
<1>10. CASE Kill(b)
  BY <1>10 DEF Kill, TypeOK, Drafted
<1> QED
  BY <1>1, <1>2, <1>3, <1>4, <1>5, <1>6, <1>7, <1>8, <1>9, <1>10 DEF BuilderNext

(* The limit of the retry is what is left, cut to whole seconds. *)
LEMMA WholeSecondsFacts ==
  ASSUME NEW t \in Nat
  PROVE  WholeSeconds(t) \in Nat /\ WholeSeconds(t) <= t
BY DEF WholeSeconds

LEMMA EndsFacts ==
  ASSUME NEW limit \in Nat, spent \in Nat, Ends(limit)
  PROVE  /\ status' \in {"ok", "failed", "timeout"}
         /\ spent' \in Nat /\ spent' <= spent + limit
BY DEF Ends

LEMMA AttestedType ==
  ASSUME TypeOK, NEW n \in BOOLEAN
  PROVE  Attested(n) \subseteq {"binary", "helper"} \X Built
BY DEF TypeOK, Attested

LEMMA RunnerTypes ==
  ASSUME TypeOK, Drafted, BudgetOK, RunnerNext
  PROVE  TypeOK' /\ Drafted' /\ BudgetOK'
<1> USE DEF RunnerKeeps, tree_vars, artifacts, builder, Goto
<1>1. Limit \in Nat /\ Limit >= 2 /\ Runs \in Nat
  BY NativeRunnerAssumption
<1>2. Drafted'
  BY DEF RunnerNext, StartRun, HelperStamp, HelperSource, Helper, NativeStamp,
     NativeDisabled, NativeSource, Native, Run, Retry, ReadStamp, Checked, Drafted
<1>3. CASE StartRun
  <2>1. logs' \in [main: {"none", "native", "lean"}, native: {"none", "native"}]
    BY <1>3 DEF StartRun
  <2>2. TypeOK'
    <3>1. runs' \in 0 .. Runs /\ {FALSE, raced} \subseteq BOOLEAN /\ {tree} \subseteq Versions
      BY <1>1, <1>3 DEF StartRun, TypeOK
    <3> QED BY <1>3, <2>1, <3>1 DEF StartRun, TypeOK
  <2>3. BudgetOK'
    BY <1>1, <1>3 DEF StartRun, BudgetOK
  <2> QED BY <1>2, <2>2, <2>3
<1>4. ASSUME rpc \in {"stamp_helper", "stamp_native"},
             rpc' \in {"source_helper", "source_native", "stamp_native", "run"},
             found' = stamp,
             UNCHANGED <<imports, native, status, spent, logs, used, seen, runs>>,
             RunnerKeeps
      PROVE  TypeOK' /\ BudgetOK'
  BY <1>4 DEF TypeOK, BudgetOK
<1>5. ASSUME rpc \in {"source_helper", "stamp_native", "source_native"},
             rpc' \in {"helper", "stamp_native", "native", "run"},
             UNCHANGED <<found, imports, native, status, spent, logs, used, seen, runs>>,
             RunnerKeeps
      PROVE  TypeOK' /\ BudgetOK'
  BY <1>5 DEF TypeOK, BudgetOK
<1>6. CASE Helper
  BY <1>2, <1>6 DEF Helper, TypeOK, BudgetOK
<1>7. CASE Native
  BY <1>2, <1>7 DEF Native, TypeOK, BudgetOK
<1>8. CASE Run
  <2>1. /\ rpc = "run" /\ spent = 0 /\ logs.native = "none" /\ native \in BOOLEAN
        /\ logs \in [main: {"none", "native", "lean"}, native: {"none", "native"}]
    BY <1>8 DEF Run, TypeOK, BudgetOK
  <2>2. status' \in {"ok", "failed", "timeout"} /\ spent' \in Nat /\ spent' <= Limit
    BY <1>1, <1>8, <2>1, EndsFacts DEF Run
  <2>3. /\ logs' \in [main: {"none", "native", "lean"}, native: {"none", "native"}]
        /\ logs'.native = "none" /\ logs'.main = IF native THEN "native" ELSE "lean"
    BY <1>8, <2>1 DEF Run
  <2>4. rpc' = (IF native /\ status' = "failed" THEN "failed" ELSE "idle") /\ native' = native
    BY <1>8 DEF Run
  <2>5. TypeOK'
    BY <1>8, <2>1, <2>2, <2>3, <2>4, AttestedType DEF Run, TypeOK
  <2>6. BudgetOK'
    BY <2>1, <2>2, <2>3, <2>4 DEF BudgetOK
  <2> QED BY <1>2, <2>5, <2>6
<1>9. CASE Retry
  <2>1. /\ rpc = "failed" /\ native /\ logs.main = "native"
        /\ spent \in Nat /\ spent <= Limit /\ rpc' = "idle"
        /\ logs \in [main: {"none", "native", "lean"}, native: {"none", "native"}]
    BY <1>9 DEF Retry, TypeOK, BudgetOK
  <2>2. CASE Remaining < 2
    <3>1. UNCHANGED <<native, status, spent, logs, used, found, imports, seen, runs>>
      BY <1>9, <2>2 DEF Retry
    <3>2. TypeOK'
      BY <1>9, <2>1, <3>1 DEF Retry, TypeOK
    <3> QED BY <1>2, <2>1, <2>2, <3>1, <3>2 DEF BudgetOK, Remaining
  <2>3. CASE ~(Remaining < 2)
    <3>1. /\ Ends(WholeSeconds(Remaining)) /\ native' = FALSE
          /\ used' = used \cup Attested(FALSE)
          /\ logs' = [main |-> "lean", native |-> "native"]
      BY <1>9, <2>1, <2>3 DEF Retry
    <3>2. Remaining \in Nat /\ spent + Remaining = Limit
      BY <1>1, <2>1 DEF Remaining
    <3>3. status' \in {"ok", "failed", "timeout"} /\ spent' \in Nat /\ spent' <= Limit
      BY <1>1, <2>1, <3>1, <3>2, WholeSecondsFacts, EndsFacts
    <3>4. logs' \in [main: {"none", "native", "lean"}, native: {"none", "native"}]
      BY <3>1
    <3>5. TypeOK'
      BY <1>9, <2>1, <3>1, <3>3, <3>4, AttestedType DEF Retry, TypeOK
    <3> QED BY <1>2, <2>1, <3>1, <3>3, <3>5 DEF BudgetOK
  <2> QED BY <2>2, <2>3
<1>10. CASE HelperStamp \/ NativeStamp
  BY <1>2, <1>4, <1>10 DEF HelperStamp, NativeStamp, ReadStamp
<1>11. CASE HelperSource \/ NativeDisabled \/ NativeSource
  BY <1>2, <1>5, <1>11 DEF HelperSource, NativeDisabled, NativeSource, Checked
<1> QED
  BY <1>3, <1>6, <1>7, <1>8, <1>9, <1>10, <1>11 DEF RunnerNext

LEMMA TypeStep == TypeOK /\ Drafted /\ BudgetOK /\ [Next]_vars => (TypeOK /\ Drafted /\ BudgetOK)'
<1> SUFFICES ASSUME TypeOK, Drafted, BudgetOK, [Next]_vars
             PROVE  (TypeOK /\ Drafted /\ BudgetOK)'
  OBVIOUS
<1>1. CASE Edit
  <2>1. edits' \in 0 .. Edits
    BY <1>1, NativeRunnerAssumption DEF Edit, TypeOK
  <2> QED BY <1>1, <2>1 DEF Edit, artifacts, builder, runner, TypeOK, Drafted, BudgetOK, Remaining
<1>2. ASSUME NEW b \in Builders, BuilderNext(b)  PROVE (TypeOK /\ Drafted /\ BudgetOK)'
  <2>1. UNCHANGED runner
    BY <1>2 DEF BuilderNext, StartBuild, LakeReads, LakeWrites, LakeLinks, Compare,
       DraftSource, DraftArtifacts, Truncate, Publish, Kill, BuilderKeeps
  <2> QED BY <1>2, <2>1, BuilderTypes DEF runner, BudgetOK, Remaining
<1>3. CASE UNCHANGED vars
  BY <1>3 DEF vars, tree_vars, artifacts, builder, runner, TypeOK, Drafted, BudgetOK, Remaining
<1> QED BY <1>1, <1>2, <1>3, RunnerTypes DEF Next

-----------------------------------------------------------------------------
(* Versions *)

LEMMA RacedStays == [Next]_vars /\ Undisturbed' => Undisturbed
BY DEF Next, vars, Undisturbed, Edit, BuilderNext, StartBuild, LakeReads, LakeWrites,
   LakeLinks, Compare, DraftSource, DraftArtifacts, Truncate, Publish, Kill,
   RunnerNext, StartRun, HelperStamp, HelperSource, Helper, NativeStamp,
   NativeDisabled, NativeSource, Native, Run, Retry, ReadStamp, Checked, RunnerKeeps

LEMMA EditCurrent ==
  ASSUME TypeOK, CurrentOK, Edit, Undisturbed'
  PROVE  CurrentOK'
<1> USE DEF artifacts, builder, runner
<1>1. /\ known' = known \cup {tree'} /\ seen' = seen \cup {tree'}
      /\ UNCHANGED <<artifacts, builder, runner>>
      /\ \A b \in Builders : Running(b) => ~Compared(b) /\ tree' \notin known
  BY DEF Edit, Undisturbed
<1>2. StampsOK'
  BY <1>1 DEF CurrentOK, StampsOK, Whole, Attests
<1>3. Sole'
  BY <1>1 DEF CurrentOK, Sole, Running
<1>4. ASSUME NEW b \in Builders  PROVE BuildOf(b)'
  <2>1. CASE bpc[b] = "idle"
    BY <1>1, <2>1 DEF BuildOf, Compared
  <2>2. CASE bpc[b] # "idle"
    <3>1. ~Compared(b) /\ tree' \notin known
      BY <1>1, <2>2 DEF Running
    <3>2. Unattested'
      BY <1>1, <3>1 DEF Unattested, CurrentOK, StampsOK, Whole, Attests
    <3>3. BuildOf(b)
      BY DEF CurrentOK, BuildOK
    <3> QED BY <1>1, <3>1, <3>2, <3>3 DEF BuildOf, Compared
  <2> QED BY <2>1, <2>2
<1>5. RunOK'
  BY <1>1 DEF CurrentOK, RunOK, Whole
<1> QED BY <1>1, <1>2, <1>3, <1>4, <1>5 DEF CurrentOK, BuildOK

Places == {"idle", "lake", "olean", "link", "compare", "draft", "hash", "truncate", "write"}

(* A builder that runs is the only one: what it does is all that happens to *)
(* the build.                                                               *)
LEMMA BuildIsAlone ==
  ASSUME Sole, NEW b \in Builders, Running(b), bpc \in [Builders -> Places],
         NEW l, bpc' = [bpc EXCEPT ![b] = l], BuildOf(b)'
  PROVE  Sole' /\ BuildOK'
<1>1. \A c \in Builders : c # b => bpc'[c] = "idle"
  BY DEF Sole, Running
<1>2. Sole'
  BY <1>1 DEF Sole, Running
<1>3. \A c \in Builders : c # b => BuildOf(c)'
  BY <1>1 DEF BuildOf, Compared
<1> QED BY <1>2, <1>3 DEF BuildOK

LEMMA BuilderCurrent ==
  ASSUME TypeOK, Drafted, CurrentOK, NEW b \in Builders, BuilderNext(b), Undisturbed'
  PROVE  CurrentOK'
<1> USE DEF At, BuilderKeeps, tree_vars, artifacts, runner
<1>0. /\ tree \in known /\ StampsOK /\ Sole /\ BuildOf(b) /\ RunOK
      /\ bpc \in [Builders -> Places] /\ before \in [Builders -> Built]
      /\ read \in [Builders -> Built] /\ draft \in [Builders -> Stamps \cup {Absent}]
  <2>1. /\ before \in [Builders -> Built] /\ read \in [Builders -> Built]
        /\ draft \in [Builders -> Stamps \cup {Absent}]
    BY DEF TypeOK
  <2>2. bpc \in [Builders -> Places]
    BY DEF TypeOK, Places
  <2> QED BY <2>1, <2>2 DEF CurrentOK, BuildOK
<1>1. CASE StartBuild(b)
  <2>1. \A c \in Builders : ~Running(c)
    BY <1>1 DEF StartBuild, Undisturbed
  <2>2. Sole'
    BY <1>0, <1>1, <2>1 DEF StartBuild, Sole, Running
  <2>3. BuildOK'
    BY <1>0, <1>1, <2>1 DEF StartBuild, Running, BuildOK, BuildOf, Compared
  <2>4. StampsOK' /\ RunOK'
    BY <1>0, <1>1 DEF StartBuild, StampsOK, Whole, Attests, RunOK
  <2> QED BY <1>0, <1>1, <2>2, <2>3, <2>4 DEF StartBuild, CurrentOK
<1>2. CASE LakeReads(b)
  <2>1. BuildOf(b)'
    BY <1>0, <1>2 DEF LakeReads, BuildOf, Compared, Unattested, Whole
  <2>2. Sole' /\ BuildOK'
    BY <1>0, <1>2, <2>1, BuildIsAlone DEF LakeReads, Running
  <2>3. StampsOK' /\ RunOK'
    BY <1>0, <1>2 DEF LakeReads, StampsOK, Whole, Attests, RunOK
  <2> QED BY <1>0, <1>2, <2>2, <2>3 DEF LakeReads, CurrentOK
<1>3. CASE LakeWrites(b)
  <2>1. BuildOf(b)'
    BY <1>0, <1>3 DEF LakeWrites, BuildOf, Compared, Unattested, Whole
  <2>2. Sole' /\ BuildOK'
    BY <1>0, <1>3, <2>1, BuildIsAlone DEF LakeWrites, Running
  <2>3. StampsOK' /\ RunOK'
    BY <1>0, <1>3 DEF LakeWrites, StampsOK, Whole, Attests, RunOK
  <2> QED BY <1>0, <1>3, <2>2, <2>3 DEF LakeWrites, CurrentOK
<1>4. CASE LakeLinks(b)
  <2>1. BuildOf(b)'
    BY <1>0, <1>4 DEF LakeLinks, BuildOf, Compared, Unattested, Whole
  <2>2. Sole' /\ BuildOK'
    BY <1>0, <1>4, <2>1, BuildIsAlone DEF LakeLinks, Running
  <2>3. StampsOK' /\ RunOK'
    BY <1>0, <1>4 DEF LakeLinks, StampsOK, Whole, Attests, RunOK
  <2> QED BY <1>0, <1>4, <2>2, <2>3 DEF LakeLinks, CurrentOK
<1>5. CASE Compare(b)
  <2>1. BuildOf(b)'
    BY <1>0, <1>5 DEF Compare, BuildOf, Compared, Unattested, Whole
  <2>2. Sole' /\ BuildOK'
    BY <1>0, <1>5, <2>1, BuildIsAlone DEF Compare, Running
  <2>3. StampsOK' /\ RunOK'
    BY <1>0, <1>5 DEF Compare, StampsOK, Whole, Attests, RunOK
  <2> QED BY <1>0, <1>5, <2>2, <2>3 DEF Compare, CurrentOK
<1>6. CASE DraftSource(b)
  <2>1. BuildOf(b)'
    BY <1>0, <1>6 DEF DraftSource, BuildOf, Compared, Unattested, Whole
  <2>2. Sole' /\ BuildOK'
    BY <1>0, <1>6, <2>1, BuildIsAlone DEF DraftSource, Running
  <2>3. StampsOK' /\ RunOK'
    BY <1>0, <1>6 DEF DraftSource, StampsOK, Whole, Attests, RunOK
  <2> QED BY <1>0, <1>6, <2>2, <2>3 DEF DraftSource, CurrentOK
<1>7. CASE DraftArtifacts(b)
  <2>1. BuildOf(b)'
    <3>1. draft[b] \in Stamps
      BY <1>7 DEF DraftArtifacts, Drafted
    <3>2. /\ draft'[b].source = draft[b].source /\ draft'[b].binary = binary
          /\ draft'[b].helper = helper
      BY <1>0, <1>7, <3>1 DEF DraftArtifacts, Stamps
    <3>3. /\ bpc[b] = "hash" /\ bpc'[b] = "truncate"
          /\ UNCHANGED <<tree, binary, helper>>
      BY <1>0, <1>7 DEF DraftArtifacts
    <3> QED BY <1>0, <3>2, <3>3 DEF BuildOf, Compared
  <2>2. Sole' /\ BuildOK'
    BY <1>0, <1>7, <2>1, BuildIsAlone DEF DraftArtifacts, Running
  <2>3. StampsOK' /\ RunOK'
    BY <1>0, <1>7 DEF DraftArtifacts, StampsOK, Whole, Attests, RunOK
  <2> QED BY <1>0, <1>7, <2>2, <2>3 DEF DraftArtifacts, CurrentOK
<1>8. CASE Truncate(b)
  <2>1. BuildOf(b)'
    BY <1>0, <1>8 DEF Truncate, BuildOf, Compared
  <2>2. Sole' /\ BuildOK'
    BY <1>0, <1>8, <2>1, BuildIsAlone DEF Truncate, Running
  <2>3. StampsOK' /\ RunOK'
    BY <1>0, <1>8 DEF Truncate, StampsOK, Whole, Attests, RunOK
  <2> QED BY <1>0, <1>8, <2>2, <2>3 DEF Truncate, CurrentOK
<1>9. CASE Publish(b)
  <2>1. BuildOf(b)'
    BY <1>0, <1>9 DEF Publish, BuildOf, Compared
  <2>2. Sole' /\ BuildOK'
    BY <1>0, <1>9, <2>1, BuildIsAlone DEF Publish, Running
  <2>3. StampsOK' /\ RunOK'
    BY <1>0, <1>9 DEF Publish, StampsOK, Whole, Attests, RunOK, BuildOf
  <2> QED BY <1>0, <1>9, <2>2, <2>3 DEF Publish, CurrentOK
<1>10. CASE Kill(b)
  <2>1. BuildOf(b)'
    BY <1>0, <1>10 DEF Kill, BuildOf, Compared
  <2>2. Sole' /\ BuildOK'
    BY <1>0, <1>10, <2>1, BuildIsAlone DEF Kill
  <2>3. StampsOK' /\ RunOK'
    BY <1>0, <1>10 DEF Kill, StampsOK, Whole, Attests, RunOK
  <2> QED BY <1>0, <1>10, <2>2, <2>3 DEF Kill, CurrentOK
<1> QED
  BY <1>1, <1>2, <1>3, <1>4, <1>5, <1>6, <1>7, <1>8, <1>9, <1>10 DEF BuilderNext

(* What a builder may still write when the sources are found attested *)
LEMMA AttestedIsRead ==
  ASSUME BuildOK, Whole(found), found.source = tree,
         NEW b \in Builders, bpc[b] \in {"olean", "link"}
  PROVE  read[b] = tree
BY DEF BuildOK, BuildOf, Unattested

LEMMA RunnerCurrent ==
  ASSUME TypeOK, CurrentOK, RunnerNext
  PROVE  CurrentOK'
<1> USE DEF RunnerKeeps, tree_vars, artifacts, builder, Goto
<1>0. tree \in known /\ StampsOK /\ Sole /\ BuildOK /\ RunOK
  BY DEF CurrentOK
<1>1. UNCHANGED <<tree, known, binary, helper, stamp, bpc, before, read, draft>>
  BY DEF RunnerNext, StartRun, HelperStamp, HelperSource, Helper, NativeStamp,
     NativeDisabled, NativeSource, Native, Run, Retry, ReadStamp, Checked
<1>2. Whole(found') => found' = found \/ found' = stamp
  BY DEF RunnerNext, StartRun, HelperStamp, HelperSource, Helper, NativeStamp,
     NativeDisabled, NativeSource, Native, Run, Retry, ReadStamp, Checked, Whole
<1>3. StampsOK' /\ Sole'
  BY <1>0, <1>1, <1>2 DEF StampsOK, Whole, Attests, Sole, Running
<1>4. BuildOK'
  <2>1. Unattested => Unattested'
    BY <1>1, <1>2 DEF Unattested, Whole
  <2> QED BY <1>0, <1>1, <2>1 DEF BuildOK, BuildOf, Compared
<1>5. RunOK'
  <2>1. CASE StartRun
    BY <1>0, <2>1 DEF StartRun, RunOK
  <2>2. CASE HelperStamp
    BY <1>0, <2>2 DEF HelperStamp, ReadStamp, RunOK, Whole
  <2>3. CASE HelperSource
    <3>1. CASE found.source = tree
      <4>1. Whole(found) /\ tree \in seen
        BY <1>0, <2>3 DEF HelperSource, Checked, RunOK
      <4>2. \A b \in Builders : bpc[b] = "olean" => read[b] \in seen
        BY <1>0, <3>1, <4>1, AttestedIsRead
      <4> QED BY <1>0, <2>3, <3>1, <4>1, <4>2 DEF HelperSource, Checked, RunOK, Whole
    <3>2. CASE found.source # tree
      BY <1>0, <2>3, <3>2 DEF HelperSource, Checked, RunOK, Whole
    <3> QED BY <3>1, <3>2
  <2>4. CASE Helper
    <3>1. found.helper = helper => helper \in seen
      BY <1>0, <2>4 DEF Helper, RunOK, StampsOK, Attests
    <3> QED BY <1>0, <2>4, <3>1 DEF Helper, RunOK, Whole
  <2>5. CASE NativeStamp
    BY <1>0, <2>5 DEF NativeStamp, ReadStamp, RunOK, Whole
  <2>6. CASE NativeDisabled
    BY <1>0, <2>6 DEF NativeDisabled, Checked, RunOK, Whole
  <2>7. CASE NativeSource
    <3>1. CASE found.source = tree
      <4>1. Whole(found) /\ tree \in seen
        BY <1>0, <2>7 DEF NativeSource, Checked, RunOK
      <4>2. \A b \in Builders : bpc[b] \in {"olean", "link"} => read[b] \in seen
        BY <1>0, <3>1, <4>1, AttestedIsRead
      <4> QED BY <1>0, <2>7, <3>1, <4>1, <4>2 DEF NativeSource, Checked, RunOK, Whole
    <3>2. CASE found.source # tree
      BY <1>0, <2>7, <3>2 DEF NativeSource, Checked, RunOK, Whole
    <3> QED BY <3>1, <3>2
  <2>8. CASE Native
    <3>1. found.binary = binary => binary \in seen
      BY <1>0, <2>8 DEF Native, RunOK, StampsOK, Attests
    <3> QED BY <1>0, <2>8, <3>1 DEF Native, RunOK, Whole
  <2>9. CASE Run
    <3>1. \A u \in Attested(native) : u[2] \in seen
      BY <1>0, <2>9 DEF Run, RunOK, Attested
    <3> QED BY <1>0, <2>9, <3>1 DEF Run, RunOK, Whole
  <2>10. CASE Retry
    <3>1. \A u \in Attested(FALSE) : u[2] \in seen
      BY <1>0, <2>10 DEF Retry, RunOK, Attested
    <3>2. rpc' = "idle" /\ seen' = seen /\ (used' = used \/ used' = used \cup Attested(FALSE))
      BY <2>10 DEF Retry
    <3> QED BY <1>0, <3>1, <3>2 DEF RunOK
  <2> QED
    BY <2>1, <2>2, <2>3, <2>4, <2>5, <2>6, <2>7, <2>8, <2>9, <2>10 DEF RunnerNext
<1> QED BY <1>0, <1>1, <1>3, <1>4, <1>5 DEF CurrentOK

LEMMA InvStep == Inv /\ [Next]_vars => Inv'
<1> SUFFICES ASSUME Inv, [Next]_vars PROVE Inv'
  OBVIOUS
<1>1. TypeOK' /\ Drafted' /\ BudgetOK'
  BY TypeStep DEF Inv
<1>2. ASSUME Undisturbed'  PROVE CurrentOK'
  <2>1. TypeOK /\ Drafted /\ CurrentOK
    BY <1>2, RacedStays DEF Inv
  <2>2. CASE UNCHANGED vars
    BY <2>1, <2>2 DEF vars, tree_vars, artifacts, builder, runner, CurrentOK, StampsOK,
       Whole, Attests, Sole, Running, BuildOK, BuildOf, Compared, Unattested, RunOK
  <2> QED BY <1>2, <2>1, <2>2, EditCurrent, BuilderCurrent, RunnerCurrent DEF Next
<1> QED BY <1>1, <1>2 DEF Inv

LEMMA InvHolds == Spec => []Inv
BY InvInit, InvStep, PTL DEF Spec

-----------------------------------------------------------------------------
(* What a run executes or imports of the compiled artifacts was built from *)
(* sources that were there while it ran, if nobody built twice at a time,  *)
(* edited after a build's comparison, or put sources back during a build.  *)
THEOREM RunsExecuteWhatIsThere == Spec => []RunsAreCurrent
<1>1. Inv => RunsAreCurrent
  BY DEF Inv, CurrentOK, RunOK, RunsAreCurrent, NativeRunsAreCurrent,
     HelpersAreCurrent, Current
<1> QED BY <1>1, InvHolds, PTL

(* A replay and its retry stay within the time limit together; a native    *)
(* failure is the answer only if no second was left, and the logs of both  *)
(* commands are kept.                                                      *)
THEOREM RetryStaysWithinBudget == Spec => []RetryWithinBudget
<1>1. Inv => RetryWithinBudget
  BY DEF Inv, BudgetOK, RetryWithinBudget
<1> QED BY <1>1, InvHolds, PTL
=============================================================================
