---------------------------- MODULE NativeRunner ----------------------------
(***************************************************************************)
(* The native runner (scripts/harness_runtime.py): a build publishes which *)
(* sources, binary and helper belong together (the stamp), and a replay    *)
(* executes the binary, and imports the compiled helper, only while all    *)
(* three still are what the stamp says.  Nothing locks: somebody edits the *)
(* sources, builders build and may be killed, a runner checks and runs.    *)
(*                                                                         *)
(* A version of the sources stands for their hash, and the version lake    *)
(* read for what it builds of them.  A hash is taken at one moment.  One   *)
(* runner is enough: runners write nothing a check reads.  Time is counted *)
(* in half seconds, since the retry's limit is cut to whole ones.  Bounds: *)
(* Edits, Kills, Runs.                                                     *)
(***************************************************************************)
EXTENDS Integers, FiniteSets

CONSTANTS Builders, Edits, Kills, Runs,
  Limit,          \* the time limit of a replay, in half seconds
  Absent, Torn    \* no such file; a stamp cut short

ASSUME NativeRunnerAssumption ==
  /\ {Edits, Kills, Runs, Limit} \subseteq Nat /\ Limit > 0 /\ Limit % 2 = 0
  /\ Absent # Torn /\ {Absent, Torn} \cap (0 .. Edits) = {}

Versions == 0 .. Edits
Built == Versions \cup {Absent}
Stamps == [source: Versions, binary: Built, helper: Built]

VARIABLES
  tree,            \* the sources
  binary, helper,  \* what specHuntRunner and the .olean files were built from
  stamp,           \* specHuntRunner.json
  bpc, before, read, draft,  \* per builder: where it is, the hash it took first,
                             \* what lake read, the stamp it will write
  rpc, found,      \* the runner: where it is, the stamp it read
  imports, native, \* what it chose: the compiled helper, the native binary
  status, spent,   \* exit status of its last command; half seconds used
  logs,            \* which command each pair of logs is of
  used,            \* history: the versions this run executed or imported
  seen,            \* history: the versions there were since this run began
  known, raced,    \* history: all versions there were; see Undisturbed
  edits, kills, runs

tree_vars == <<tree, edits, known>>
artifacts == <<binary, helper, stamp>>
builder == <<bpc, before, read, draft>>
runner == <<rpc, found, imports, native, status, spent, logs, used>>
vars == <<tree_vars, artifacts, builder, runner, seen, raced, kills, runs>>

At(b, here, next) == bpc[b] = here /\ bpc' = [bpc EXCEPT ![b] = next]
Running(b) == bpc[b] # "idle"
Compared(b) == bpc[b] \in {"draft", "hash", "truncate", "write"}

(* Until now nobody edited the sources after a build had compared them, put
   back an earlier version during a build, or built twice at a time: what the
   comparison cannot notice.  (Edits during a build that it does notice, killed
   builds, and everything that happens between builds, are undisturbed.) *)
Undisturbed == ~raced

Init ==
  /\ tree = 0 /\ edits = 0 /\ known = {0} /\ raced = FALSE
  /\ binary = Absent /\ helper = Absent /\ stamp = Absent
  /\ bpc = [b \in Builders |-> "idle"] /\ before = [b \in Builders |-> Absent]
  /\ read = [b \in Builders |-> Absent] /\ draft = [b \in Builders |-> Absent]
  /\ rpc = "idle" /\ found = Absent /\ imports = FALSE /\ native = FALSE
  /\ status = "none" /\ spent = 0 /\ logs = [main |-> "none", native |-> "none"]
  /\ used = {} /\ seen = {} /\ kills = 0 /\ runs = 0

(* Somebody edits the sources, perhaps back to what they were. *)
Edit ==
  /\ edits < Edits /\ edits' = edits + 1
  /\ tree' \in Versions \ {tree}
  /\ known' = known \cup {tree'}
  /\ seen' = seen \cup {tree'}
  /\ raced' = (raced \/ \E b \in Builders :
                 Running(b) /\ (Compared(b) \/ tree' \in known))
  /\ UNCHANGED <<artifacts, builder, runner, kills, runs>>

-----------------------------------------------------------------------------
(* python3 scripts/harness_runtime.py build *)

BuilderKeeps == UNCHANGED <<tree_vars, runner, seen, kills, runs>>

StartBuild(b) ==
  /\ At(b, "idle", "lake") /\ before' = [before EXCEPT ![b] = tree]
  /\ raced' = (raced \/ \E c \in Builders : Running(c))
  /\ UNCHANGED <<artifacts, read, draft>> /\ BuilderKeeps

(* lake build specHuntRunner: it reads the sources, writes the .olean files,
   links the binary *)
LakeReads(b) ==
  /\ At(b, "lake", "olean") /\ read' = [read EXCEPT ![b] = tree]
  /\ UNCHANGED <<artifacts, before, draft, raced>> /\ BuilderKeeps
LakeWrites(b) ==
  /\ At(b, "olean", "link") /\ helper' = read[b]
  /\ UNCHANGED <<binary, stamp, before, read, draft, raced>> /\ BuilderKeeps
LakeLinks(b) ==
  /\ At(b, "link", "compare") /\ binary' = read[b]
  /\ UNCHANGED <<helper, stamp, before, read, draft, raced>> /\ BuilderKeeps

Compare(b) ==
  /\ At(b, "compare", IF tree = before[b] THEN "draft" ELSE "idle")
  /\ UNCHANGED <<artifacts, before, read, draft, raced>> /\ BuilderKeeps

(* The sources are hashed a third time, for the stamp. *)
DraftSource(b) ==
  /\ At(b, "draft", "hash")
  /\ draft' = [draft EXCEPT ![b] =
       [source |-> tree, binary |-> Absent, helper |-> Absent]]
  /\ UNCHANGED <<artifacts, before, read, raced>> /\ BuilderKeeps
DraftArtifacts(b) ==
  /\ At(b, "hash", "truncate")
  /\ draft' = [draft EXCEPT ![b].binary = binary, ![b].helper = helper]
  /\ UNCHANGED <<artifacts, before, read, raced>> /\ BuilderKeeps

(* write_text: first the file is emptied *)
Truncate(b) ==
  /\ At(b, "truncate", "write") /\ stamp' = Torn
  /\ UNCHANGED <<binary, helper, before, read, draft, raced>> /\ BuilderKeeps
Publish(b) ==
  /\ At(b, "write", "idle") /\ stamp' = draft[b]
  /\ UNCHANGED <<binary, helper, before, read, draft, raced>> /\ BuilderKeeps

(* lake fails, or the builder is killed: what it wrote stays *)
Kill(b) ==
  /\ Running(b) /\ kills < Kills /\ kills' = kills + 1
  /\ bpc' = [bpc EXCEPT ![b] = "idle"]
  /\ UNCHANGED <<tree_vars, artifacts, before, read, draft, runner, seen, raced, runs>>

-----------------------------------------------------------------------------
(* A replay: which helper to import, which command to run, the run, the retry *)

RunnerKeeps == UNCHANGED <<tree_vars, artifacts, builder, raced, kills>>
Goto(here, next) == rpc = here /\ rpc' = next

StartRun ==
  /\ Goto("idle", "stamp_helper") /\ runs < Runs /\ runs' = runs + 1
  /\ seen' = {tree} /\ used' = {} /\ status' = "none" /\ spent' = 0
  /\ imports' = FALSE /\ native' = FALSE /\ found' = Absent
  /\ logs' = [main |-> "none", native |-> "none"]
  /\ RunnerKeeps

(* No stamp, or one that does not parse, is no attestation. *)
ReadStamp(here, next, otherwise) ==
  /\ rpc = here /\ found' = stamp
  /\ rpc' = IF stamp \in {Absent, Torn} THEN otherwise ELSE next
  /\ UNCHANGED <<imports, native, status, spent, logs, used, seen, runs>> /\ RunnerKeeps

(* helper_ready, lean_command: source_hash *)
Checked(here, next, otherwise, ok) ==
  /\ rpc = here /\ rpc' = IF ok THEN next ELSE otherwise
  /\ UNCHANGED <<found, imports, native, status, spent, logs, used, seen, runs>>
  /\ RunnerKeeps

HelperStamp == ReadStamp("stamp_helper", "source_helper", "stamp_native")
HelperSource ==
  Checked("source_helper", "helper", "stamp_native", found.source = tree)

(* Mutant: the artifact is not compared. *)
HelperUnhashed ==
  /\ Goto("helper", "stamp_native") /\ imports' \in BOOLEAN
  /\ UNCHANGED <<found, native, status, spent, logs, used, seen, runs>> /\ RunnerKeeps
(* The source of the helper must also be that of the harness. *)
Helper ==
  /\ Goto("helper", "stamp_native")
  /\ imports' \in {FALSE, helper # Absent /\ found.helper = helper}
  /\ UNCHANGED <<found, native, status, spent, logs, used, seen, runs>> /\ RunnerKeeps

NativeStamp == ReadStamp("stamp_native", "source_native", "run")
(* CONTEST_NATIVE is "0" in the environment of this replay *)
NativeDisabled == Checked("stamp_native", "run", "run", TRUE)
NativeSource == Checked("source_native", "native", "run", found.source = tree)
(* Mutant: only the sources are compared. *)
NativeUnhashed ==
  /\ Goto("native", "run") /\ native' = (binary # Absent)
  /\ UNCHANGED <<found, imports, status, spent, logs, used, seen, runs>> /\ RunnerKeeps
Native ==
  /\ Goto("native", "run") /\ native' = (binary # Absent /\ found.binary = binary)
  /\ UNCHANGED <<found, imports, status, spent, logs, used, seen, runs>> /\ RunnerKeeps

(* What a command executes or imports of what the stamp attests. *)
Attested(nativeNow) ==
  (IF nativeNow THEN {<<"binary", binary>>} ELSE {})
    \cup (IF imports THEN {<<"helper", helper>>} ELSE {})

(* run_capture: the command ends, or is killed at its limit *)
Ends(limit) ==
  \/ \E t \in 0 .. limit : status' \in {"ok", "failed"} /\ spent' = spent + t
  \/ status' = "timeout" /\ spent' = spent + limit

Run ==
  /\ rpc = "run" /\ Ends(Limit)
  /\ rpc' = IF native /\ status' = "failed" THEN "failed" ELSE "idle"
  /\ used' = Attested(native)
  /\ logs' = [logs EXCEPT !.main = IF native THEN "native" ELSE "lean"]
  /\ UNCHANGED <<found, imports, native, seen, runs>> /\ RunnerKeeps

Remaining == Limit - spent
WholeSeconds(t) == 2 * (t \div 2)

(* Mutants: nothing is done when no time is left; the retry has the whole limit
   again. *)
RetryWaits ==
  /\ rpc = "failed" /\ rpc' = "idle" /\ Remaining >= 2
  /\ Ends(WholeSeconds(Remaining)) /\ native' = FALSE
  /\ used' = used \cup Attested(FALSE) /\ logs' = [main |-> "lean", native |-> logs.main]
  /\ UNCHANGED <<found, imports, seen, runs>> /\ RunnerKeeps
RetryFull ==
  /\ rpc = "failed" /\ rpc' = "idle" /\ Ends(Limit) /\ native' = FALSE
  /\ used' = used \cup Attested(FALSE)
  /\ logs' = [main |-> "lean", native |-> logs.main]
  /\ UNCHANGED <<found, imports, seen, runs>> /\ RunnerKeeps
Retry ==
  /\ rpc = "failed" /\ rpc' = "idle"
  /\ IF Remaining < 2
     THEN UNCHANGED <<native, status, spent, logs, used>>
     ELSE /\ Ends(WholeSeconds(Remaining)) /\ native' = FALSE
          /\ used' = used \cup Attested(FALSE)
          /\ logs' = [main |-> "lean", native |-> logs.main]
  /\ UNCHANGED <<found, imports, seen, runs>> /\ RunnerKeeps

RunnerNext ==
  \/ StartRun \/ HelperStamp \/ HelperSource \/ Helper
  \/ NativeStamp \/ NativeDisabled \/ NativeSource \/ Native \/ Run \/ Retry
BuilderNext(b) ==
  \/ StartBuild(b) \/ LakeReads(b) \/ LakeWrites(b) \/ LakeLinks(b) \/ Compare(b)
  \/ DraftSource(b) \/ DraftArtifacts(b) \/ Truncate(b) \/ Publish(b) \/ Kill(b)
Next == Edit \/ RunnerNext \/ \E b \in Builders : BuilderNext(b)

Spec == Init /\ [][Next]_vars /\ WF_vars(RunnerNext)

-----------------------------------------------------------------------------
(* Type invariant. *)
TypeOK ==
  /\ tree \in Versions /\ binary \in Built /\ helper \in Built
  /\ stamp \in Stamps \cup {Absent, Torn}
  /\ bpc \in [Builders -> {"idle", "lake", "olean", "link", "compare", "draft",
                           "hash", "truncate", "write"}]
  /\ before \in [Builders -> Built] /\ read \in [Builders -> Built]
  /\ draft \in [Builders -> Stamps \cup {Absent}]
  /\ rpc \in {"idle", "stamp_helper", "source_helper", "helper", "stamp_native",
              "source_native", "native", "run", "failed"}
  /\ found \in Stamps \cup {Absent, Torn}
  /\ {imports, native, raced} \subseteq BOOLEAN
  /\ status \in {"none", "ok", "failed", "timeout"} /\ spent \in Nat
  /\ logs \in [main: {"none", "native", "lean"}, native: {"none", "native"}]
  /\ used \subseteq {"binary", "helper"} \X Built /\ seen \subseteq Versions
  /\ known \subseteq Versions
  /\ edits \in 0 .. Edits /\ kills \in 0 .. Kills /\ runs \in 0 .. Runs

Current(artifact) == \A u \in used : u[1] = artifact => u[2] \in seen

(* "an old binary can never adjudicate a new semantics tree just because it is
   still present" (scripts/harness_runtime.py:4), and "A source edit or stale
   compiled helper always selects the inline helper" (:74), in the retry too, which
   comes long after the choice: a run executes sources that were there while it
   ran, whatever builds, edits and kills came before or come in between, as long
   as they are Undisturbed. *)
NativeRunsAreCurrent == Undisturbed => Current("binary")
HelpersAreCurrent == Undisturbed => Current("helper")
RunsAreCurrent == NativeRunsAreCurrent /\ HelpersAreCurrent

(* "within the original wall-clock budget [...] Such failures must not invent a
   new coverage verdict.  Keep both executions' logs" (run_lean_capture): a
   replay that was native at first stays within the limit, fails only if Lean
   itself failed or had less than a second left, and both logs are there. *)
RetryWithinBudget ==
  /\ TypeOK
  /\ spent <= Limit
  /\ (rpc = "idle" /\ native /\ status = "failed") => Remaining < 2
  /\ (rpc = "idle" /\ ~native /\ logs.native = "native") => logs.main = "lean"

(* Every replay ends, since every command does and at most two are run. *)
RunsEnd == rpc # "idle" ~> rpc = "idle"

(* The sentence the docstring opens with, without Undisturbed. *)
OldBinaryNeverAdjudicates == Current("binary")
=============================================================================
