--------------------------- MODULE ReplayHarness ---------------------------
(***************************************************************************)
(* The replay of a manifest of cases against solc, forge and Lean          *)
(* (scripts/run_forge_interpreter_harness.py): a pool of threads runs the  *)
(* cases, each thread a chain of tools whose logs lie in the directory of  *)
(* its case, and the main thread collects the results in the order of the  *)
(* manifest, reports, and keeps or deletes the directory of all logs.      *)
(*                                                                         *)
(* A case says what its tools find when they are left alone.  A log holds  *)
(* the number of the case whose program the tool ran, or 0 while it is     *)
(* empty: a case directory is named after the case with every odd          *)
(* character replaced, so two cases may write to the same files.  Of a     *)
(* list of sources solc must reject, one is modelled.  Faults bounds the   *)
(* tools that are killed at the time limit.                                *)
(***************************************************************************)
EXTENDS Integers, Sequences, FiniteSets

CONSTANTS Workers, Manifests, Faults

Case == [
  dir: STRING,
  entry: {"valid", "no_name", "bad_timeout"},
  selected: BOOLEAN,  \* by --only
  raises: BOOLEAN,    \* forge.root or the source file is missing
  rejects: {"none", "rejected", "accepted", "other_diagnostic"},
  forge: {"none", "pass", "fail", "empty"},        \* empty: no test is found
  lean: {"none", "refused", "agrees", "differs"}]  \* refused: by the importer

ASSUME ReplayHarnessAssumption ==
  /\ Faults \in Nat /\ IsFiniteSet(Workers) /\ Workers # {}
  /\ \A m \in Manifests : m \in Seq(Case) /\ m # << >>

VARIABLES
  manifest, keep_tmp,
  next,        \* the first case the pool has not handed out
  task,        \* per worker: its case and how far it is, or Idle
  files,       \* per directory and tool: whose output the log holds
  buffer,      \* per worker: the case whose buffer its prints go to, or 0
  output,      \* per case: the cases whose lines are in its buffer
  result,      \* per case: what run_case returned or raised
  collected,   \* results the main thread has iterated over
  main, outcome, outdir, faults

vars == <<manifest, keep_tmp, next, task, files, buffer, output, result,
          collected, main, outcome, outdir, faults>>

Indices == 1 .. Len(manifest)
Tools == <<"solc", "list", "forge", "import", "program", "lean">>
Dirs == {c.dir : c \in UNION {{m[i] : i \in DOMAIN m} : m \in Manifests}}

Idle == [case |-> 0]
Busy(w) == task[w] # Idle
Of(w) == manifest[task[w].case]
File(w, tool) == files[Of(w).dir][tool]
(* A step of a case's thread that prints leaves a line in the buffer. *)
Prints(w) ==
  output' = IF buffer[w] = 0 THEN output
            ELSE [output EXCEPT ![buffer[w]] = @ \cup {task[w].case}]

Init ==
  /\ manifest \in Manifests /\ keep_tmp \in BOOLEAN
  /\ next = 1 /\ task = [w \in Workers |-> Idle]
  /\ files = [d \in Dirs |-> [t \in {Tools[i] : i \in DOMAIN Tools} |-> 0]]
  /\ buffer = [w \in Workers |-> 0] /\ output = [i \in Indices |-> {}]
  /\ result = [i \in Indices |-> "none"] /\ collected = 0
  /\ main = "collect" /\ outcome = "none" /\ outdir = "there" /\ faults = 0

-----------------------------------------------------------------------------
(* run_case, in a thread of the pool *)

PoolKeeps == UNCHANGED <<manifest, keep_tmp, collected, main, outcome, outdir>>

(* The tools of a case: solc_rejects, then forge (list, run), then Lean
   (import, run), whatever the ones before found.  A tool the case does not ask
   for is skipped, and so is what follows a failed list or import. *)
Asks(c, tool) ==
  CASE tool = "solc" -> c.rejects # "none"
    [] tool \in {"list", "forge"} -> c.forge # "none"
    [] tool \in {"import", "program", "lean"} -> c.lean # "none"
Cut(tool, bad) == (tool = "forge" /\ "list" \in bad)
                  \/ (tool \in {"program", "lean"} /\ "import" \in bad)
Due(c, n, bad) == n > Len(Tools) \/ (Asks(c, Tools[n]) /\ ~Cut(Tools[n], bad))
Following(c, n, bad) ==
  CHOOSE k \in n .. (Len(Tools) + 1) :
    Due(c, k, bad) /\ \A j \in n .. (k - 1) : ~Due(c, j, bad)

(* What run_case returns early with, and with what effect on the count. *)
Early(c) == CASE c.entry = "no_name" -> "failed"
              [] c.entry # "no_name" /\ ~c.selected -> "unselected"
              [] c.entry = "bad_timeout" /\ c.selected -> "failed"

(* Mutant: stdout is redirected for the process. *)
TakeShared(w) ==
  /\ ~Busy(w) /\ next <= Len(manifest) /\ main = "collect" /\ next' = next + 1
  /\ task' = [task EXCEPT ![w] =
       [case |-> next, at |-> Following(manifest[next], 1, {}), stage |-> "launch",
        bad |-> {}, exit |-> "none", generated |-> 0]]
  /\ buffer' = [v \in Workers |-> next]
  /\ output' = [output EXCEPT ![next] = @ \cup {next}]
  /\ UNCHANGED <<result, files, faults>> /\ PoolKeeps
Take(w) ==
  LET c == manifest[next] IN
  /\ ~Busy(w) /\ next <= Len(manifest) /\ main = "collect" /\ next' = next + 1
  /\ IF c.entry # "valid" \/ ~c.selected
     THEN /\ result' = [result EXCEPT ![next] = Early(c)]
          /\ UNCHANGED <<task, buffer, output>>
     ELSE /\ task' = [task EXCEPT ![w] =
               [case |-> next, at |-> Following(c, 1, {}), stage |-> "launch",
                bad |-> {}, exit |-> "none", generated |-> 0]]
          /\ buffer' = [buffer EXCEPT ![w] = next]
          /\ output' = [output EXCEPT ![next] = @ \cup {next}]
          /\ UNCHANGED result
  /\ UNCHANGED <<files, faults>> /\ PoolKeeps

(* The next tool, if there is one: what it is to write is emptied first.  Lean
   reads a program that is written from what the importer's log held. *)
Launch(w) ==
  LET t == task[w] IN
  /\ Busy(w) /\ t.at <= Len(Tools) /\ t.stage = "launch"
  /\ ~(Of(w).raises /\ Tools[t.at] \in {"list", "import"})
  /\ LET program == Tools[t.at] = "program" IN
     /\ files' = [files EXCEPT ![Of(w).dir][Tools[t.at]] =
          IF program /\ t.generated = t.case THEN t.case ELSE 0]
     /\ task' = [task EXCEPT ![w] = IF program THEN [t EXCEPT !.at = @ + 1]
                                    ELSE [t EXCEPT !.stage = "run"]]
  /\ Prints(w) /\ UNCHANGED <<next, buffer, result, faults>> /\ PoolKeeps

(* What a tool exits with, for the case whose input it reads. *)
ExitsWell(c, tool) ==
  CASE tool = "solc" -> c.rejects = "accepted"
    [] tool = "list" -> TRUE
    [] tool = "forge" -> c.forge = "pass"
    [] tool = "import" -> c.lean # "refused"
    [] tool = "lean" -> TRUE
Input(w) == IF Tools[task[w].at] = "lean" THEN File(w, "program") ELSE task[w].case

(* The tool ends, its output in the log.  A program that is no case's is none
   Lean accepts. *)
Finish(w) ==
  LET t == task[w]  tool == Tools[t.at] IN
  /\ Busy(w) /\ t.stage = "run"
  /\ files' = [files EXCEPT ![Of(w).dir][tool] = Input(w)]
  /\ task' = [task EXCEPT ![w] = [t EXCEPT !.stage = "judge", !.exit =
       IF Input(w) # 0 /\ ExitsWell(manifest[Input(w)], tool) THEN "zero" ELSE "other"]]
  /\ UNCHANGED <<next, buffer, output, result, faults>> /\ PoolKeeps

(* Mutant: a killed tool has ended. *)
ExpireQuietly(w) ==
  /\ Busy(w) /\ task[w].stage = "run" /\ faults < Faults /\ faults' = faults + 1
  /\ task' = [task EXCEPT ![w] = [@ EXCEPT !.stage = "launch",
                !.at = Following(Of(w), @ + 1, task[w].bad)]]
  /\ UNCHANGED <<next, files, buffer, output, result>> /\ PoolKeeps
(* run_capture kills the tool's process group; the caller's except branch *)
Expire(w) ==
  LET t == task[w]  bad == t.bad \cup {Tools[t.at]} IN
  /\ Busy(w) /\ t.stage = "run" /\ faults < Faults /\ faults' = faults + 1
  /\ task' = [task EXCEPT ![w] = [t EXCEPT !.stage = "launch", !.bad = bad,
                !.at = Following(Of(w), @ + 1, bad)]]
  /\ UNCHANGED <<next, files, buffer, output, result>> /\ PoolKeeps

(* What the harness makes of the exit status and of what it reads in the log. *)
Holds(w, tool, owner, exit) ==
  CASE tool = "solc" ->
         exit = "other" /\ owner # 0 /\ manifest[owner].rejects = "rejected"
    [] tool = "list" -> exit = "zero" /\ owner # 0 /\ manifest[owner].forge # "empty"
    [] tool \in {"forge", "import"} -> exit = "zero"
    [] tool = "lean" ->
         exit = "zero" /\ owner = task[w].case /\ manifest[owner].lean = "agrees"
Judge(w) ==
  LET t == task[w]  tool == Tools[t.at]
      bad == IF Holds(w, tool, File(w, tool), t.exit) THEN t.bad ELSE t.bad \cup {tool}
  IN
  /\ Busy(w) /\ t.stage = "judge"
  /\ task' = [task EXCEPT ![w] = [t EXCEPT !.stage = "launch", !.bad = bad,
                !.at = Following(Of(w), @ + 1, bad),
                !.generated = IF tool = "import" THEN File(w, tool) ELSE @]]
  /\ UNCHANGED <<next, files, buffer, output, result, faults>> /\ PoolKeeps

(* The end of run_case: `finally` clears the buffer, also when it raises. *)
Return(w) ==
  LET t == task[w] IN
  /\ Busy(w) /\ t.at > Len(Tools)
  /\ result' = [result EXCEPT ![t.case] = IF t.bad = {} THEN "ok" ELSE "failed"]
  /\ task' = [task EXCEPT ![w] = Idle] /\ buffer' = [buffer EXCEPT ![w] = 0]
  /\ Prints(w) /\ UNCHANGED <<next, files, faults>> /\ PoolKeeps
(* Mutant: an exception leaves no result behind. *)
RaiseLost(w) ==
  /\ Busy(w) /\ task[w].at <= Len(Tools) /\ task[w].stage = "launch"
  /\ Of(w).raises /\ Tools[task[w].at] \in {"list", "import"}
  /\ task' = [task EXCEPT ![w] = Idle] /\ buffer' = [buffer EXCEPT ![w] = 0]
  /\ UNCHANGED <<next, files, output, result, faults>> /\ PoolKeeps
RaiseCase(w) ==
  LET t == task[w] IN
  /\ Busy(w) /\ t.at <= Len(Tools) /\ t.stage = "launch"
  /\ Of(w).raises /\ Tools[t.at] \in {"list", "import"}
  /\ result' = [result EXCEPT ![t.case] = "raised"]
  /\ task' = [task EXCEPT ![w] = Idle] /\ buffer' = [buffer EXCEPT ![w] = 0]
  /\ UNCHANGED <<next, files, output, faults>> /\ PoolKeeps

-----------------------------------------------------------------------------
(* main *)

MainKeeps == UNCHANGED <<manifest, keep_tmp, next, task, files, buffer, output,
                         result, faults>>

(* pool.map yields the results in the order of the cases.  One that raised ends
   the iteration, and with it the handing out of cases. *)
Collect ==
  /\ main = "collect" /\ collected < Len(manifest) /\ result[collected + 1] # "none"
  /\ IF result[collected + 1] = "raised"
     THEN main' = "drain" /\ UNCHANGED collected
     ELSE main' = main /\ collected' = collected + 1
  /\ UNCHANGED <<outcome, outdir>> /\ MainKeeps

Failed == {i \in Indices : result[i] = "failed"}
Report ==
  /\ main = "collect" /\ collected = Len(manifest) /\ main' = "cleanup"
  /\ outcome' = (IF Failed = {} THEN "pass" ELSE "fail")
  /\ UNCHANGED <<collected, outdir>> /\ MainKeeps

(* Mutant: the threads that still run are not waited for. *)
DrainAtOnce ==
  /\ main = "drain" /\ main' = "cleanup" /\ outcome' = "raised"
  /\ UNCHANGED <<collected, outdir>> /\ MainKeeps
(* The pool is left: it waits for the cases that run. *)
Drain ==
  /\ main = "drain" /\ \A w \in Workers : ~Busy(w)
  /\ main' = "cleanup" /\ outcome' = "raised"
  /\ UNCHANGED <<collected, outdir>> /\ MainKeeps

(* The `finally` of main.  Its list of failures is filled only by a report. *)
CleanUp ==
  /\ main = "cleanup" /\ main' = "done"
  /\ outdir' = (IF outcome = "fail" \/ keep_tmp THEN "there" ELSE "gone")
  /\ UNCHANGED <<collected, outcome>> /\ MainKeeps

WorkerNext(w) ==
  \/ Take(w) \/ Launch(w) \/ Finish(w) \/ Expire(w) \/ Judge(w)
  \/ Return(w) \/ RaiseCase(w)
MainNext == Collect \/ Report \/ Drain \/ CleanUp
Next == MainNext \/ \E w \in Workers : WorkerNext(w)

Spec == Init /\ [][Next]_vars /\ WF_vars(MainNext)
             /\ \A w \in Workers : WF_vars(WorkerNext(w))

-----------------------------------------------------------------------------
(* Type invariant. *)
TypeOK ==
  /\ manifest \in Manifests /\ keep_tmp \in BOOLEAN
  /\ next \in 1 .. (Len(manifest) + 1) /\ collected \in 0 .. Len(manifest)
  /\ \A w \in Workers : Busy(w) =>
       /\ task[w].case \in Indices /\ task[w].stage \in {"launch", "run", "judge"}
       /\ task[w].at \in 1 .. (Len(Tools) + 1)
  /\ buffer \in [Workers -> {0} \cup Indices]
  /\ output \in [Indices -> SUBSET Indices]
  /\ result \in [Indices -> {"none", "ok", "failed", "raised", "unselected"}]
  /\ main \in {"collect", "drain", "cleanup", "done"}
  /\ outcome \in {"none", "pass", "fail", "raised"} /\ outdir \in {"there", "gone"}
  /\ faults \in 0 .. Faults

(* A case alone in its directory. *)
Alone(i) == \A j \in Indices \ {i} : manifest[j].dir # manifest[i].dir
(* What a case deserves, if it is run and no tool is killed. *)
Good(c) ==
  /\ c.entry = "valid" /\ ~(c.raises /\ (c.forge # "none" \/ c.lean # "none"))
  /\ c.rejects \in {"none", "rejected"} /\ c.forge \in {"none", "pass"}
  /\ c.lean \in {"none", "agrees"}

(* "paired_cases_passed=yes" (main): whatever runs at the same time, fails,
   hangs or raises, a passing replay has run every selected case with a directory
   of its own and each tool found what it should; and while no tool is killed a
   case that deserves it is ok. *)
VerdictsAreEarned ==
  /\ outcome = "pass" => \A i \in Indices :
       (Alone(i) /\ (manifest[i].selected \/ manifest[i].entry = "no_name")) =>
         Good(manifest[i])
  /\ \A i \in Indices :
       (result[i] \in {"failed", "raised"} /\ Alone(i) /\ faults = 0) =>
         ~Good(manifest[i])

(* "so parallel workers don't interleave" (run_case): the text printed for a
   case is only its own thread's. *)
OutputsAreApart == TypeOK /\ \A i \in Indices : output[i] \subseteq {i}

(* "keeps logs on failure or when `KEEP_TMP=1`" (:6), of a run that reports.
   And no log is deleted under a tool that still writes it. *)
LogsAreKept ==
  /\ (main = "done" /\ (outcome = "fail" \/ keep_tmp)) => outdir = "there"
  /\ outdir = "gone" => \A w \in Workers : ~Busy(w)

(* Every replay ends: every tool has its time limit, and the main thread does
   not wait for a case nobody runs. *)
ReplayEnds == <>(main = "done")

(* The same sentence, of any run in which a case failed or raised. *)
FailuresKeepLogs ==
  (main = "done" /\ \E i \in Indices : result[i] \in {"failed", "raised"}) =>
    outdir = "there"
=============================================================================
