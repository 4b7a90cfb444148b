------------------------ MODULE ReplayHarness_proofs ------------------------
(***************************************************************************)
(* What a replay may report, for every manifest, every number of threads   *)
(* and every number of killed tools: proofs about ReplayHarness.           *)
(***************************************************************************)
EXTENDS ReplayHarness, Recursion

ToolSet == {Tools[i] : i \in DOMAIN Tools}
Owner == {0} \cup Indices
Task == [case: Indices, at: 1 .. 7, stage: {"launch", "run", "judge"},
         bad: SUBSET ToolSet, exit: {"none", "zero", "other"}, generated: Owner]

Shape ==
  /\ TypeOK
  /\ task \in [Workers -> {Idle} \cup Task]
  /\ files \in [Dirs -> [ToolSet -> Owner]]

(* A case is with one thread at most, which prints to the case's buffer; the
   cases that were not handed out have no result. *)
Threads ==
  /\ \A w \in Workers :
       IF Busy(w)
       THEN /\ task[w].case < next /\ result[task[w].case] = "none"
            /\ buffer[w] = task[w].case
       ELSE buffer[w] = 0
  /\ \A v, w \in Workers :
       (v # w /\ Busy(v) /\ Busy(w)) => task[v].case # task[w].case
  /\ \A i \in Indices : i >= next => result[i] = "none"

(* What the main thread knows of the results, and when the logs may go. *)
Collecting ==
  /\ \A i \in 1 .. collected : result[i] \notin {"none", "raised"}
  /\ outcome = "pass" =>
       \A i \in Indices : result[i] \notin {"none", "raised", "failed"}
  /\ main \in {"cleanup", "done"} => \A w \in Workers : ~Busy(w)
  /\ main # "done" => outdir = "there"
  /\ outdir = "gone" => ~(outcome = "fail" \/ keep_tmp)

Apart == \A i \in Indices : output[i] \subseteq {i}

(* What a tool that holds says of its case. *)
Fine(c, tool) ==
  /\ tool = "solc" => c.rejects = "rejected"
  /\ tool = "list" => c.forge # "empty"
  /\ tool = "forge" => c.forge = "pass"
  /\ tool = "lean" => c.lean = "agrees"

Exit(owner, tool) ==
  IF owner # 0 /\ ExitsWell(manifest[owner], tool) THEN "zero" ELSE "other"

(* A case alone in its directory reads its own logs: a tool that failed to
   hold is on the list, and none is there that should not be. *)
Own(w) ==
  LET t == task[w]  c == Of(w) IN
  /\ t.stage = "judge" => /\ File(w, Tools[t.at]) = Input(w)
                          /\ t.exit = Exit(Input(w), Tools[t.at])
  /\ t.bad = {} =>
       \A k \in 1 .. 6 : (k < t.at /\ Asks(c, Tools[k])) => Fine(c, Tools[k])
  /\ (faults = 0 /\ Good(c)) =>
       /\ t.bad = {} /\ (t.at \in {5, 6} => t.generated = t.case)
       /\ t.at = 6 => File(w, "program") = t.case

Progress(w) ==
  LET t == task[w]  c == Of(w) IN
  /\ c.entry = "valid"
  /\ t.at <= 6 => Due(c, t.at, t.bad)
  /\ t.stage # "launch" => t.at <= 6 /\ t.at # 5
  /\ \A k \in 1 .. 6 :
       ((k < t.at \/ (k = t.at /\ t.stage # "launch"))
          /\ Tools[k] \in {"list", "import"} /\ Asks(c, Tools[k])) => ~c.raises
  /\ Alone(t.case) => Own(w)

Earned ==
  \A i \in Indices :
    /\ result[i] = "unselected" => manifest[i].entry # "no_name" /\ ~manifest[i].selected
    /\ (result[i] = "ok" /\ Alone(i)) => Good(manifest[i])
    /\ (result[i] \in {"failed", "raised"} /\ Alone(i) /\ faults = 0) =>
         ~Good(manifest[i])

(* The inductive invariant. *)
Inv == /\ Shape /\ Threads /\ Collecting /\ Apart /\ Earned
       /\ \A w \in Workers : Busy(w) => Progress(w)

-----------------------------------------------------------------------------
(* The chain of the tools. *)

LEMMA ToolsFacts ==
  /\ Len(Tools) = 6 /\ DOMAIN Tools = 1 .. 6
  /\ Tools[1] = "solc" /\ Tools[2] = "list" /\ Tools[3] = "forge"
  /\ Tools[4] = "import" /\ Tools[5] = "program" /\ Tools[6] = "lean"
  /\ \A k \in 1 .. 6 : Tools[k] \in ToolSet
BY DEF Tools, ToolSet

LEMMA AsksFacts ==
  ASSUME NEW c
  PROVE  /\ Asks(c, "solc") <=> c.rejects # "none"
         /\ Asks(c, "list") <=> c.forge # "none"
         /\ Asks(c, "forge") <=> c.forge # "none"
         /\ Asks(c, "import") <=> c.lean # "none"
         /\ Asks(c, "program") <=> c.lean # "none"
         /\ Asks(c, "lean") <=> c.lean # "none"
BY DEF Asks

LEMMA DueFacts ==
  ASSUME NEW c, NEW bad
  PROVE  /\ Due(c, 7, bad)
         /\ \A k \in 1 .. 6 : Due(c, k, bad) => Asks(c, Tools[k])
         /\ \A k \in 1 .. 6 : (bad = {} /\ Asks(c, Tools[k])) => Due(c, k, bad)
         /\ Due(c, 5, bad) => Due(c, 4, bad) /\ Due(c, 6, bad)
         /\ Due(c, 6, bad) => Due(c, 5, bad)
<1>1. /\ Due(c, 7, bad)
      /\ \A k \in 1 .. 6 : Due(c, k, bad) <=> (Asks(c, Tools[k]) /\ ~Cut(Tools[k], bad))
  BY ToolsFacts DEF Due
<1>2. /\ ~Cut("import", bad) /\ (Cut("program", bad) <=> Cut("lean", bad))
      /\ \A k \in 1 .. 6 : bad = {} => ~Cut(Tools[k], bad)
  BY DEF Cut
<1>3. /\ Asks(c, "program") => Asks(c, "import") /\ Asks(c, "lean")
      /\ Asks(c, "lean") => Asks(c, "program")
  BY AsksFacts
<1> QED
  BY <1>1, <1>2, <1>3, ToolsFacts

LEMMA FollowingFacts ==
  ASSUME NEW c, NEW n \in 1 .. 7, NEW bad
  PROVE  /\ Following(c, n, bad) \in n .. 7
         /\ Due(c, Following(c, n, bad), bad)
         /\ \A j \in n .. Following(c, n, bad) - 1 : ~Due(c, j, bad)
<1> DEFINE S == {k \in n .. 7 : Due(c, k, bad)}
<1>1. S \in SUBSET Nat /\ 7 \in S
  BY DueFacts
<1>2. PICK m \in S : \A k \in S : m <= k
  <2> HIDE DEF S
  <2> QED
    BY <1>1, LeastNumber
<1>3. m \in n .. 7 /\ Due(c, m, bad) /\ \A j \in n .. m - 1 : ~Due(c, j, bad)
  BY <1>2
<1>4. Len(Tools) + 1 = 7
  BY ToolsFacts
<1> QED
  BY <1>3, <1>4 DEF Following

LEMMA FirstTool ==
  ASSUME NEW c, NEW n, n = Following(c, 1, {})
  PROVE  /\ n \in 1 .. 7 /\ n # 5 /\ n # 6 /\ Due(c, n, {})
         /\ \A k \in 1 .. 6 : k < n => ~Asks(c, Tools[k])
<1>1. n \in 1 .. 7 /\ Due(c, n, {}) /\ \A j \in 1 .. n - 1 : ~Due(c, j, {})
  BY FollowingFacts
<1>2. \A k \in 1 .. 6 : k < n => ~Asks(c, Tools[k])
  BY <1>1, DueFacts
<1>3. n # 5 /\ n # 6
  BY <1>1, DueFacts
<1> QED
  BY <1>1, <1>2, <1>3

(* From a tool that ran to the next one that is due. *)
ComesNext(c, m, bad, n) ==
  /\ n \in m + 1 .. 7 /\ Due(c, n, bad) /\ (n = 5 => m = 4) /\ n # 6
  /\ \A k \in 1 .. 6 : (bad = {} /\ m < k /\ k < n) => ~Asks(c, Tools[k])
  /\ \A k \in 1 .. 6 : (m < k /\ k < n) => ~Due(c, k, bad)

LEMMA NextTool ==
  ASSUME NEW c, NEW m \in 1 .. 6, m # 5, NEW bad, NEW n, n = Following(c, m + 1, bad)
  PROVE  ComesNext(c, m, bad, n)
<1>1. n \in m + 1 .. 7 /\ Due(c, n, bad) /\ \A j \in m + 1 .. n - 1 : ~Due(c, j, bad)
  BY FollowingFacts, SMTT(30)
<1>2. \A k \in 1 .. 6 : (m < k /\ k < n) => ~Due(c, k, bad)
  BY <1>1
<1>3. \A k \in 1 .. 6 : (bad = {} /\ m < k /\ k < n) => ~Asks(c, Tools[k])
  BY <1>2, DueFacts
<1>4. n = 5 => m = 4
  BY <1>1, <1>2, DueFacts
<1>5. n # 6
  BY <1>1, <1>2, DueFacts
<1> QED
  BY <1>1, <1>2, <1>3, <1>4, <1>5 DEF ComesNext

-----------------------------------------------------------------------------
(* Types. *)

LEMMA ManifestFacts ==
  ASSUME manifest \in Manifests
  PROVE  /\ Len(manifest) \in Nat /\ Len(manifest) # 0
         /\ Indices = DOMAIN manifest
         /\ \A i \in Indices :
              /\ manifest[i] \in Case /\ manifest[i].dir \in Dirs
              /\ manifest[i].entry \in {"valid", "no_name", "bad_timeout"}
<1>1. manifest \in Seq(Case) /\ manifest # << >>
  BY ReplayHarnessAssumption
<1>2. Len(manifest) \in Nat /\ Len(manifest) # 0 /\ Indices = DOMAIN manifest
  BY <1>1 DEF Indices
<1>3. ASSUME NEW i \in Indices  PROVE manifest[i] \in Case /\ manifest[i].dir \in Dirs
  <2>1. manifest[i] \in Case
    BY <1>1, <1>2
  <2>2. manifest[i] \in UNION {{m[j] : j \in DOMAIN m} : m \in Manifests}
    BY <1>2
  <2> QED
    BY <2>1, <2>2 DEF Dirs
<1>4. \A c \in Case : c.entry \in {"valid", "no_name", "bad_timeout"}
  BY DEF Case
<1> QED
  BY <1>2, <1>3, <1>4

LEMMA TaskFacts ==
  ASSUME Shape, NEW w \in Workers, Busy(w)
  PROVE  /\ task[w] \in Task /\ task[w].case \in Indices /\ task[w].case \in Nat \ {0}
         /\ task[w].at \in 1 .. 7 /\ task[w].bad \in SUBSET ToolSet
         /\ Of(w) = manifest[task[w].case] /\ Of(w).dir \in Dirs
<1>1. task[w] \in Task
  BY DEF Shape, Busy
<1>2. task[w].case \in Indices /\ task[w].at \in 1 .. 7 /\ task[w].bad \in SUBSET ToolSet
  BY <1>1 DEF Task
<1> QED
  BY <1>1, <1>2, ManifestFacts DEF Of, Shape, TypeOK, Indices

LEMMA OwnerFacts ==
  ASSUME Shape, NEW w \in Workers, Busy(w)
  PROVE  /\ \A tool \in ToolSet : File(w, tool) \in Owner
         /\ Input(w) \in Owner /\ task[w].case \in Owner
<1>1. task[w].case \in Owner /\ Of(w).dir \in Dirs
  BY TaskFacts DEF Owner
<1>2. \A tool \in ToolSet : File(w, tool) \in Owner
  BY <1>1 DEF File, Shape
<1>3. "program" \in ToolSet
  BY ToolsFacts
<1> QED
  BY <1>1, <1>2, <1>3 DEF Input

(* A write to one log. *)
LEMMA WriteFacts ==
  ASSUME Shape, NEW d \in Dirs, NEW tool \in ToolSet, NEW x \in Owner,
         files' = [files EXCEPT ![d][tool] = x]
  PROVE  /\ files' \in [Dirs -> [ToolSet -> Owner]]
         /\ \A e \in Dirs : e # d => files'[e] = files[e]
         /\ files'[d][tool] = x
         /\ \A u \in ToolSet : u # tool => files'[d][u] = files[d][u]
<1>1. files \in [Dirs -> [ToolSet -> Owner]] /\ files[d] \in [ToolSet -> Owner]
  BY DEF Shape
<1> DEFINE g == [files[d] EXCEPT ![tool] = x]
<1>2. g \in [ToolSet -> Owner] /\ g[tool] = x /\ \A u \in ToolSet : u # tool => g[u] = files[d][u]
  BY <1>1
<1>3. files' = [files EXCEPT ![d] = g]
  OBVIOUS
<1> HIDE DEF g
<1> QED
  BY <1>1, <1>2, <1>3

-----------------------------------------------------------------------------
(* A step of one thread, within its case. *)

LEMMA ThreadStep ==
  ASSUME Inv, NEW w \in Workers, Busy(w),
         task' = [task EXCEPT ![w] = task'[w]], task'[w] \in Task,
         task'[w].case = task[w].case,
         UNCHANGED <<next, buffer, result>>, PoolKeeps,
         output' = output \/ Prints(w),
         faults' \in {faults, faults + 1}, faults' \in 0 .. Faults,
         files' \in [Dirs -> [ToolSet -> Owner]],
         \A d \in Dirs : d # Of(w).dir => files'[d] = files[d],
         Progress(w)'
  PROVE  Inv'
<1>1. /\ task[w].case \in Indices /\ Of(w).dir \in Dirs /\ buffer[w] = task[w].case
      /\ task[w].case \in Nat \ {0}
  BY TaskFacts DEF Inv, Threads
<1>2. /\ manifest' = manifest /\ Indices' = Indices /\ Owner' = Owner /\ Task' = Task
      /\ \A i : Alone(i)' <=> Alone(i)
  BY DEF PoolKeeps, Indices, Owner, Task, Alone
<1>3. /\ \A v \in Workers : v # w => task'[v] = task[v]
      /\ \A v \in Workers : Busy(v)' <=> Busy(v)
      /\ \A v \in Workers : Busy(v) => task'[v].case = task[v].case
  <2>1. \A v \in Workers : v # w => task'[v] = task[v]
    BY DEF Inv, Shape
  <2>2. task'[w] # Idle
    BY <1>1 DEF Idle
  <2> QED
    BY <2>1, <2>2 DEF Busy
<1>4. Apart' /\ output' \in [Indices -> SUBSET Indices]
  <2>1. output \in [Indices -> SUBSET Indices] /\ Apart
    BY DEF Inv, Shape, TypeOK
  <2>2. CASE output' = output
    BY <1>2, <2>1, <2>2 DEF Apart
  <2>3. CASE Prints(w)
    BY <1>1, <1>2, <2>1, <2>3 DEF Apart, Prints
  <2> QED
    BY <2>2, <2>3
<1>5. Shape'
  <2>1. task' \in [Workers -> {Idle} \cup Task]
    BY DEF Inv, Shape
  <2>2. \A v \in Workers : Busy(v)' =>
          /\ task'[v].case \in Indices /\ task'[v].stage \in {"launch", "run", "judge"}
          /\ task'[v].at \in 1 .. (Len(Tools) + 1)
    <3>1. \A v \in Workers : task'[v] # Idle => task'[v] \in Task
      BY <2>1
    <3> QED
      BY <3>1, ToolsFacts DEF Busy, Task
  <2>3. TypeOK'
    BY <1>2, <1>4, <2>2 DEF Inv, Shape, TypeOK, PoolKeeps
  <2> QED
    BY <1>2, <2>1, <2>3 DEF Shape, Idle
<1>6. Threads'
  BY <1>2, <1>3 DEF Inv, Threads
<1>7. Collecting'
  BY <1>2, <1>3 DEF Inv, Collecting, PoolKeeps
<1>8. /\ faults' = 0 => faults = 0
  BY DEF Inv, Shape, TypeOK
<1>9. Earned'
  BY <1>2, <1>8 DEF Inv, Earned
<1>10. ASSUME NEW v \in Workers, Busy(v)'  PROVE Progress(v)'
  <2>1. CASE v = w
    BY <2>1
  <2>2. CASE v # w
    <3>1. /\ Busy(v) /\ Progress(v) /\ task'[v] = task[v] /\ Of(v)' = Of(v)
          /\ task[v].case # task[w].case /\ task[v].case \in Indices
          /\ Of(v).dir \in Dirs /\ Of(w) = manifest[task[w].case]
          /\ Of(v) = manifest[task[v].case]
      BY <1>2, <1>3, <1>10, <2>2, TaskFacts DEF Inv, Threads, Of
    <3>2. ASSUME Alone(task[v].case)  PROVE Own(v)'
      <4>1. Own(v)
        BY <3>1, <3>2 DEF Progress
      <4>2. Of(w).dir # Of(v).dir
        BY <1>1, <3>1, <3>2 DEF Alone
      <4>3. \A tool : File(v, tool)' = File(v, tool)
        BY <3>1, <4>2 DEF File
      <4>4. Input(v)' = Input(v)
        BY <3>1, <4>3 DEF Input
      <4>5. \A owner, tool : Exit(owner, tool)' = Exit(owner, tool)
        BY <1>2 DEF Exit
      <4> QED
        BY <1>8, <3>1, <4>1, <4>3, <4>4, <4>5 DEF Own
    <3> QED
      BY <1>2, <3>1, <3>2 DEF Progress
  <2> QED
    BY <2>1, <2>2
<1> QED
  BY <1>4, <1>5, <1>6, <1>7, <1>9, <1>10 DEF Inv

(* What the steps within a case know of it, and how they write task[w]. *)
LEMMA Working ==
  ASSUME Inv, NEW w \in Workers, Busy(w)
  PROVE  /\ Shape /\ Progress(w) /\ task[w] \in Task /\ w \in DOMAIN task
         /\ task[w].at \in 1 .. 7 /\ task[w].case \in Indices
         /\ task[w].bad \in SUBSET ToolSet /\ task[w].generated \in Owner
         /\ Of(w).dir \in Dirs /\ faults \in 0 .. Faults
BY TaskFacts DEF Inv, Shape, TypeOK, Task

LEMMA SameCase ==
  ASSUME PoolKeeps, NEW w \in Workers, task'[w].case = task[w].case
  PROVE  /\ Of(w)' = Of(w) /\ (Alone(task[w].case)' <=> Alone(task[w].case))
         /\ \A tool : File(w, tool)' = files'[Of(w).dir][tool]
         /\ \A owner, tool : Exit(owner, tool)' = Exit(owner, tool)
BY DEF PoolKeeps, Of, Alone, Indices, File, Exit

LEMMA LaunchStep ==
  ASSUME Inv, NEW w \in Workers, Launch(w)
  PROVE  Inv'
<1> DEFINE d == Of(w).dir
           tool == Tools[task[w].at]
           x == IF tool = "program" /\ task[w].generated = task[w].case
                THEN task[w].case ELSE 0
<1>1. /\ Busy(w) /\ task[w].at <= 6 /\ task[w].stage = "launch"
      /\ ~(Of(w).raises /\ tool \in {"list", "import"})
      /\ task' = [task EXCEPT ![w] = IF tool = "program" THEN [task[w] EXCEPT !.at = @ + 1]
                                     ELSE [task[w] EXCEPT !.stage = "run"]]
      /\ files' = [files EXCEPT ![d][tool] = x]
      /\ Prints(w) /\ UNCHANGED <<next, buffer, result, faults>> /\ PoolKeeps
  BY ToolsFacts DEF Launch
<1>2. /\ Shape /\ Progress(w) /\ task[w] \in Task /\ w \in DOMAIN task
      /\ task[w].at \in 1 .. 6 /\ task[w].case \in Indices
      /\ d \in Dirs /\ faults \in 0 .. Faults /\ x \in Owner
      /\ (tool = "program" <=> task[w].at = 5) /\ tool \in ToolSet
      /\ "program" \in ToolSet
  BY <1>1, Working, ToolsFacts DEF Owner
<1>3. /\ task'[w] \in Task /\ task'[w].case = task[w].case
      /\ task'[w].bad = task[w].bad /\ task'[w].generated = task[w].generated
      /\ task'[w].at = IF task[w].at = 5 THEN 6 ELSE task[w].at
      /\ task'[w].stage = IF task[w].at = 5 THEN "launch" ELSE "run"
      /\ task' = [task EXCEPT ![w] = task'[w]]
  BY <1>1, <1>2 DEF Task
<1> HIDE DEF x
<1>4. /\ files' \in [Dirs -> [ToolSet -> Owner]]
      /\ \A e \in Dirs : e # d => files'[e] = files[e]
      /\ files'[d][tool] = x
      /\ \A u \in ToolSet : u # tool => files'[d][u] = files[d][u]
  <2> HIDE DEF d, tool
  <2> QED
    BY <1>1, <1>2, WriteFacts, ZenonT(30)
<1>5. /\ Of(w)' = Of(w) /\ (Alone(task[w].case)' <=> Alone(task[w].case))
      /\ \A u : File(w, u)' = files'[d][u]
  BY <1>1, <1>3, SameCase
<1>6. Due(Of(w), task'[w].at, task[w].bad)
  BY <1>2, <1>3, DueFacts DEF Progress
<1>7. ASSUME Alone(task[w].case)  PROVE Own(w)'
  <2>1. Own(w)
    BY <1>2, <1>7 DEF Progress
  <2>2. ASSUME task[w].bad = {}, NEW k \in 1 .. 6, k < task'[w].at,
               Asks(Of(w), Tools[k])
        PROVE  Fine(Of(w), Tools[k])
    <3>1. CASE k < task[w].at
      BY <2>1, <2>2, <3>1 DEF Own
    <3>2. CASE ~(k < task[w].at)
      <4>1. k = 5
        BY <1>2, <1>3, <2>2, <3>2
      <4> QED
        BY <4>1, ToolsFacts DEF Fine
    <3> QED
      BY <3>1, <3>2
  <2>3. ASSUME faults = 0, Good(Of(w))
        PROVE  /\ task[w].bad = {} /\ (task'[w].at \in {5, 6} => task[w].generated = task[w].case)
               /\ task'[w].at = 6 => files'[d]["program"] = task[w].case
    <3>1. /\ task[w].bad = {} /\ (task[w].at \in {5, 6} => task[w].generated = task[w].case)
          /\ task[w].at = 6 => files[d]["program"] = task[w].case
      BY <2>1, <2>3 DEF Own, File
    <3>2. CASE task[w].at = 5
      BY <1>2, <1>3, <1>4, <3>1, <3>2 DEF x
    <3>3. CASE task[w].at # 5
      BY <1>2, <1>3, <1>4, <3>1, <3>3
    <3> QED
      BY <3>2, <3>3
  <2> QED
    BY <1>1, <1>3, <1>5, <2>2, <2>3 DEF Own
<1>8. ASSUME NEW k \in 1 .. 6, k < task'[w].at \/ (k = task'[w].at /\ task'[w].stage # "launch"),
             Tools[k] \in {"list", "import"}, Asks(Of(w), Tools[k])
      PROVE  ~Of(w).raises
  <2>1. CASE k < task[w].at
    BY <1>2, <1>8, <2>1 DEF Progress
  <2>2. CASE k = task[w].at
    BY <1>1, <1>8, <2>2
  <2> QED
    BY <1>2, <1>3, <1>8, <2>1, <2>2
<1>9. Progress(w)'
  BY <1>2, <1>3, <1>5, <1>6, <1>7, <1>8 DEF Progress
<1> HIDE DEF d, tool
<1> QED
  BY <1>1, <1>2, <1>3, <1>4, <1>9, ThreadStep DEF d

LEMMA FinishStep ==
  ASSUME Inv, NEW w \in Workers, Finish(w)
  PROVE  Inv'
<1> DEFINE d == Of(w).dir
           tool == Tools[task[w].at]
<1>1. /\ Busy(w) /\ task[w].stage = "run"
      /\ files' = [files EXCEPT ![d][tool] = Input(w)]
      /\ task' = [task EXCEPT ![w] = [task[w] EXCEPT !.stage = "judge",
                                                     !.exit = Exit(Input(w), tool)]]
      /\ UNCHANGED <<next, buffer, output, result, faults>> /\ PoolKeeps
  BY DEF Finish, Exit
<1>2. /\ Shape /\ Progress(w) /\ task[w] \in Task /\ w \in DOMAIN task
      /\ task[w].at \in 1 .. 6 /\ task[w].at # 5
      /\ d \in Dirs /\ faults \in 0 .. Faults /\ Input(w) \in Owner
      /\ Exit(Input(w), tool) \in {"none", "zero", "other"}
      /\ (tool = "lean" <=> task[w].at = 6) /\ tool # "program" /\ tool \in ToolSet
      /\ "program" \in ToolSet
  <2>1. /\ Shape /\ Progress(w) /\ task[w] \in Task /\ w \in DOMAIN task
        /\ task[w].at \in 1 .. 7 /\ d \in Dirs /\ faults \in 0 .. Faults
    BY <1>1, Working
  <2>2. task[w].at <= 6 /\ task[w].at # 5
    BY <1>1, <2>1 DEF Progress
  <2> QED
    BY <1>1, <2>1, <2>2, OwnerFacts, ToolsFacts DEF Exit
<1>3. /\ task'[w] \in Task /\ task'[w].case = task[w].case
      /\ task'[w].bad = task[w].bad /\ task'[w].generated = task[w].generated
      /\ task'[w].at = task[w].at /\ task'[w].stage = "judge"
      /\ task'[w].exit = Exit(Input(w), tool)
      /\ task' = [task EXCEPT ![w] = task'[w]]
  <2> DEFINE e == Exit(Input(w), tool)
  <2> HIDE DEF e
  <2> QED
    BY <1>1, <1>2 DEF Task, e
<1>4. /\ files' \in [Dirs -> [ToolSet -> Owner]]
      /\ \A e \in Dirs : e # d => files'[e] = files[e]
      /\ files'[d][tool] = Input(w)
      /\ \A u \in ToolSet : u # tool => files'[d][u] = files[d][u]
  <2> DEFINE x == Input(w)
  <2> HIDE DEF d, tool, x
  <2>1. files' = [files EXCEPT ![d][tool] = x] /\ x \in Owner
    BY <1>1, <1>2 DEF x
  <2>2. /\ files' \in [Dirs -> [ToolSet -> Owner]]
        /\ \A e \in Dirs : e # d => files'[e] = files[e]
        /\ files'[d][tool] = x
        /\ \A u \in ToolSet : u # tool => files'[d][u] = files[d][u]
    <3>1. Shape /\ d \in Dirs /\ tool \in ToolSet
      BY <1>2
    <3> QED
      BY <2>1, <3>1, WriteFacts
  <2> QED
    BY <2>2 DEF x
<1>5. /\ Of(w)' = Of(w) /\ (Alone(task[w].case)' <=> Alone(task[w].case))
      /\ \A u : File(w, u)' = files'[d][u]
      /\ \A owner, u : Exit(owner, u)' = Exit(owner, u)
  BY <1>1, <1>3, SameCase
<1>6. Input(w)' = Input(w)
  BY <1>2, <1>3, <1>4, <1>5 DEF Input, File
<1>7. ASSUME Alone(task[w].case)  PROVE Own(w)'
  <2>1. Own(w)
    BY <1>2, <1>7 DEF Progress
  <2>2. /\ File(w, tool)' = Input(w) /\ task'[w].exit = Exit(Input(w), tool)'
    BY <1>3, <1>4, <1>5, <1>6
  <2>3. files'[d]["program"] = files[d]["program"]
    BY <1>2, <1>4
  <2> QED
    BY <1>1, <1>3, <1>5, <1>6, <2>1, <2>2, <2>3 DEF Own, File
<1>9. Progress(w)'
  BY <1>1, <1>2, <1>3, <1>5, <1>7 DEF Progress
<1> HIDE DEF d, tool
<1> QED
  BY <1>1, <1>2, <1>3, <1>4, <1>9, ThreadStep DEF d

(* The end of a tool's turn, whether it was killed or judged. *)
LEMMA TurnEnds ==
  ASSUME Inv, NEW w \in Workers, Busy(w), task[w].stage # "launch",
         task' = [task EXCEPT ![w] = task'[w]], task'[w] \in Task,
         task'[w].case = task[w].case, task'[w].stage = "launch",
         task'[w].at = Following(Of(w), task[w].at + 1, task'[w].bad),
         task'[w].bad = {} => task[w].bad = {},
         (task'[w].bad = {} /\ Alone(task[w].case)) => Fine(Of(w), Tools[task[w].at]),
         UNCHANGED <<next, buffer, result, output, files>>, PoolKeeps,
         faults' \in {faults, faults + 1}, faults' \in 0 .. Faults,
         (faults' = 0 /\ Alone(task[w].case) /\ Good(Of(w))) =>
           /\ task'[w].bad = {}
           /\ task[w].at = 4 => task'[w].generated = task[w].case
  PROVE  Inv'
<1> DEFINE m == task[w].at
           n == task'[w].at
           bad == task'[w].bad
<1>1. /\ Shape /\ Progress(w) /\ m \in 1 .. 7 /\ m <= 6 /\ m # 5
      /\ Of(w).dir \in Dirs /\ task[w].case \in Indices
  BY Working DEF Progress
<1>2. /\ n \in m + 1 .. 7 /\ Due(Of(w), n, bad) /\ (n = 5 => m = 4) /\ n # 6
      /\ \A k \in 1 .. 6 : (bad = {} /\ m < k /\ k < n) => ~Asks(Of(w), Tools[k])
      /\ \A k \in 1 .. 6 : (m < k /\ k < n) => ~Due(Of(w), k, bad)
  <2> DEFINE c == Of(w)
  <2>1. m \in 1 .. 6 /\ m # 5 /\ n = Following(c, m + 1, bad)
    BY <1>1
  <2> HIDE DEF m, n, bad, c
  <2>2. ComesNext(c, m, bad, n)
    BY <2>1, NextTool
  <2> QED
    BY <2>2 DEF ComesNext, c
<1> HIDE DEF m, n, bad
<1>3. /\ Of(w)' = Of(w) /\ (Alone(task[w].case)' <=> Alone(task[w].case))
      /\ files' \in [Dirs -> [ToolSet -> Owner]]
  BY <1>1, SameCase DEF Shape
<1>4. ASSUME NEW k \in 1 .. 6, k < n, Tools[k] \in {"list", "import"},
             Asks(Of(w), Tools[k])
      PROVE  ~Of(w).raises
  <2>1. CASE k <= m
    BY <1>1, <1>4, <2>1 DEF Progress, m
  <2>2. CASE k > m
    <3>1. ~Due(Of(w), k, bad)
      BY <1>1, <1>2, <1>4, <2>2
    <3>2. ~Cut(Tools[k], bad)
      BY <1>4 DEF Cut
    <3> QED
      BY <1>4, <3>1, <3>2 DEF Due
  <2> QED
    BY <1>1, <1>4, <2>1, <2>2
<1>5. ASSUME Alone(task[w].case)  PROVE Own(w)'
  <2>1. Own(w)
    BY <1>1, <1>5 DEF Progress
  <2>2. ASSUME bad = {}, NEW k \in 1 .. 6, k < n, Asks(Of(w), Tools[k])
        PROVE  Fine(Of(w), Tools[k])
    <3>1. CASE k < m
      BY <1>1, <2>1, <2>2, <3>1 DEF Own, m, bad
    <3>2. CASE k = m
      BY <1>5, <2>2, <3>2 DEF m, bad
    <3>3. CASE k > m
      BY <1>1, <1>2, <2>2, <3>3
    <3> QED
      BY <1>1, <3>1, <3>2, <3>3
  <2>3. ASSUME faults' = 0, Good(Of(w))
        PROVE  bad = {} /\ (n \in {5, 6} => task'[w].generated = task[w].case)
    BY <1>2, <1>5, <2>3 DEF m, n, bad
  <2> QED
    BY <1>2, <1>3, <2>2, <2>3 DEF Own, n, bad
<1>6. Progress(w)'
  BY <1>1, <1>2, <1>3, <1>4, <1>5 DEF Progress, n, bad
<1> QED
  BY <1>1, <1>3, <1>6, ThreadStep

LEMMA ExpireStep ==
  ASSUME Inv, NEW w \in Workers, Expire(w)
  PROVE  Inv'
<1> DEFINE bad == task[w].bad \cup {Tools[task[w].at]}
           n == Following(Of(w), task[w].at + 1, bad)
<1>1. /\ Busy(w) /\ task[w].stage = "run" /\ faults < Faults /\ faults' = faults + 1
      /\ task' = [task EXCEPT ![w] = [task[w] EXCEPT !.stage = "launch", !.bad = bad, !.at = n]]
      /\ UNCHANGED <<next, files, buffer, output, result>> /\ PoolKeeps
  BY DEF Expire
<1>2. /\ task[w] \in Task /\ w \in DOMAIN task /\ Progress(w)
      /\ task[w].at \in 1 .. 6 /\ faults \in 0 .. Faults
      /\ bad \in SUBSET ToolSet /\ bad # {} /\ Faults \in Nat
  <2>1. /\ task[w] \in Task /\ w \in DOMAIN task /\ Progress(w)
        /\ task[w].at \in 1 .. 7 /\ faults \in 0 .. Faults /\ task[w].bad \in SUBSET ToolSet
    BY <1>1, Working
  <2>2. task[w].at \in 1 .. 6
    BY <1>1, <2>1 DEF Progress
  <2> QED
    BY <2>1, <2>2, ToolsFacts, ReplayHarnessAssumption
<1>3. n \in 1 .. 7
  <2>1. task[w].at + 1 \in 1 .. 7
    BY <1>2
  <2> DEFINE k == task[w].at + 1
             c == Of(w)
  <2> HIDE DEF bad, k, c
  <2>2. Following(c, k, bad) \in k .. 7 /\ k \in 1 .. 7
    BY <2>1, FollowingFacts DEF k
  <2> QED
    BY <2>2 DEF k, c
<1> HIDE DEF bad
<1>4. /\ task'[w] \in Task /\ task' = [task EXCEPT ![w] = task'[w]]
      /\ task'[w].case = task[w].case /\ task'[w].stage = "launch"
      /\ task'[w].bad = bad /\ task'[w].at = n
  <2> HIDE DEF n
  <2> QED
    BY <1>1, <1>2, <1>3 DEF Task
<1>5. faults' \in 0 .. Faults /\ faults' # 0
  BY <1>1, <1>2
<1> QED
  BY <1>1, <1>2, <1>4, <1>5, TurnEnds

(* A tool that holds is fine, and one that should hold does, for a case whose
   logs are its own. *)
LEMMA Judgement ==
  ASSUME Inv, NEW w \in Workers, Busy(w), task[w].stage = "judge", Alone(task[w].case),
         NEW tool, tool = Tools[task[w].at],
         NEW holds, holds = Holds(w, tool, File(w, tool), task[w].exit)
  PROVE  /\ holds => Fine(Of(w), tool)
         /\ (faults = 0 /\ Good(Of(w))) =>
              holds /\ (tool = "import" => File(w, tool) = task[w].case)
<1> DEFINE c == Of(w)
           owner == File(w, tool)
           exit == task[w].exit
<1>1. /\ Shape /\ Progress(w) /\ Own(w) /\ task[w].at \in 1 .. 6 /\ task[w].at # 5
      /\ c = manifest[task[w].case] /\ task[w].case # 0
  BY Working, TaskFacts DEF Progress
<1>2. /\ owner = Input(w) /\ exit = Exit(Input(w), tool)
  BY <1>1 DEF Own
<1>3. /\ Input(w) = IF tool = "lean" THEN File(w, "program") ELSE task[w].case
  BY DEF Input
<1>4. (faults = 0 /\ Good(c) /\ tool = "lean") => File(w, "program") = task[w].case
  <2>1. tool = "lean" => task[w].at = 6
    <3> DEFINE k == task[w].at
    <3>1. k \in 1 .. 6 /\ tool = Tools[k]
      BY <1>1
    <3> HIDE DEF k
    <3>2. k \in {1, 2, 3, 4, 5, 6}
      BY <3>1
    <3>3. tool = "lean" => k = 6
      BY <3>1, <3>2, ToolsFacts
    <3> QED
      BY <3>3 DEF k
  <2> QED
    BY <1>1, <2>1 DEF Own
<1>5. Asks(c, tool)
  BY <1>1, DueFacts DEF Progress
<1> HIDE DEF c, owner, exit
<1>6. CASE tool = "solc"
  <2>1. /\ owner = task[w].case
        /\ exit = IF c.rejects = "accepted" THEN "zero" ELSE "other"
        /\ holds = (exit = "other" /\ owner # 0 /\ manifest[owner].rejects = "rejected")
    BY <1>1, <1>2, <1>3, <1>6 DEF Exit, ExitsWell, Holds, owner, exit
  <2>2. Good(c) => c.rejects = "rejected"
    BY <1>5, <1>6, AsksFacts DEF Good
  <2> QED
    BY <1>1, <1>6, <2>1, <2>2 DEF Fine, c
<1>7. CASE tool = "list"
  <2>1. /\ owner = task[w].case /\ exit = "zero"
        /\ holds = (exit = "zero" /\ owner # 0 /\ manifest[owner].forge # "empty")
    BY <1>1, <1>2, <1>3, <1>7 DEF Exit, ExitsWell, Holds, owner, exit
  <2>2. Good(c) => c.forge # "empty"
    BY DEF Good
  <2> QED
    BY <1>1, <1>7, <2>1, <2>2 DEF Fine, c
<1>8. CASE tool = "forge"
  <2>1. /\ exit = IF c.forge = "pass" THEN "zero" ELSE "other"
        /\ holds = (exit = "zero")
    BY <1>1, <1>2, <1>3, <1>8 DEF Exit, ExitsWell, Holds, owner, exit
  <2>2. Good(c) => c.forge = "pass"
    BY <1>5, <1>8, AsksFacts DEF Good
  <2> QED
    BY <1>1, <1>8, <2>1, <2>2 DEF Fine, c
<1>9. CASE tool = "import"
  <2>1. /\ owner = task[w].case
        /\ exit = IF c.lean # "refused" THEN "zero" ELSE "other"
        /\ holds = (exit = "zero")
    BY <1>1, <1>2, <1>3, <1>9 DEF Exit, ExitsWell, Holds, owner, exit
  <2>2. Good(c) => c.lean # "refused"
    BY DEF Good
  <2> QED
    BY <1>1, <1>9, <2>1, <2>2 DEF Fine, c, owner
<1>10. CASE tool = "lean"
  <2>1. /\ exit = IF owner # 0 THEN "zero" ELSE "other"
        /\ holds = (exit = "zero" /\ owner = task[w].case /\ manifest[owner].lean = "agrees")
    BY <1>1, <1>2, <1>3, <1>10 DEF Exit, ExitsWell, Holds, owner, exit
  <2>2. Good(c) => c.lean = "agrees"
    BY <1>5, <1>10, AsksFacts DEF Good
  <2>3. (faults = 0 /\ Good(c)) => owner = task[w].case
    BY <1>2, <1>3, <1>4, <1>10 DEF owner
  <2> QED
    BY <1>1, <1>10, <2>1, <2>2, <2>3 DEF Fine, c
<1> QED
  BY <1>1, <1>6, <1>7, <1>8, <1>9, <1>10, ToolsFacts

LEMMA JudgeStep ==
  ASSUME Inv, NEW w \in Workers, Judge(w)
  PROVE  Inv'
<1> DEFINE tool == Tools[task[w].at]
           holds == Holds(w, tool, File(w, tool), task[w].exit)
           bad == IF holds THEN task[w].bad ELSE task[w].bad \cup {tool}
           n == Following(Of(w), task[w].at + 1, bad)
           g == IF tool = "import" THEN File(w, tool) ELSE task[w].generated
<1>1. /\ Busy(w) /\ task[w].stage = "judge"
      /\ task' = [task EXCEPT ![w] = [task[w] EXCEPT !.stage = "launch", !.bad = bad,
                                                     !.at = n, !.generated = g]]
      /\ UNCHANGED <<next, files, buffer, output, result, faults>> /\ PoolKeeps
  BY DEF Judge
<1>2. /\ task[w] \in Task /\ w \in DOMAIN task /\ Progress(w) /\ Shape
      /\ task[w].at \in 1 .. 6 /\ faults \in 0 .. Faults /\ task[w].bad \in SUBSET ToolSet
      /\ tool \in ToolSet /\ (task[w].at = 4 => tool = "import") /\ g \in Owner
  <2>1. /\ task[w] \in Task /\ w \in DOMAIN task /\ Progress(w) /\ Shape
        /\ task[w].at \in 1 .. 7 /\ faults \in 0 .. Faults /\ task[w].bad \in SUBSET ToolSet
        /\ task[w].generated \in Owner
    BY <1>1, Working
  <2>2. task[w].at \in 1 .. 6
    BY <1>1, <2>1 DEF Progress
  <2>3. tool \in ToolSet /\ (task[w].at = 4 => tool = "import")
    BY <2>2, ToolsFacts
  <2> HIDE DEF tool
  <2> QED
    BY <1>1, <2>1, <2>2, <2>3, OwnerFacts
<1>3. Alone(task[w].case) =>
        /\ holds => Fine(Of(w), tool)
        /\ (faults = 0 /\ Good(Of(w))) =>
             holds /\ (tool = "import" => File(w, tool) = task[w].case)
  BY <1>1, Judgement
<1>4. (Alone(task[w].case) /\ faults = 0 /\ Good(Of(w))) => task[w].bad = {}
  BY <1>2 DEF Progress, Own
<1>5. /\ bad \in SUBSET ToolSet /\ (bad = {} => holds /\ task[w].bad = {})
      /\ holds => bad = task[w].bad
  <2> HIDE DEF holds, tool
  <2> QED
    BY <1>2
<1>6. n \in 1 .. 7
  <2> DEFINE k == task[w].at + 1
             c == Of(w)
  <2>1. k \in 1 .. 7
    BY <1>2
  <2> HIDE DEF bad, k, c
  <2>2. Following(c, k, bad) \in k .. 7
    BY <2>1, FollowingFacts
  <2> QED
    BY <2>1, <2>2 DEF k, c
<1> HIDE DEF holds, bad
<1>7. /\ task'[w] \in Task /\ task' = [task EXCEPT ![w] = task'[w]]
      /\ task'[w].case = task[w].case /\ task'[w].stage = "launch"
      /\ task'[w].bad = bad /\ task'[w].at = n /\ task'[w].generated = g
  <2> HIDE DEF n, g
  <2> QED
    BY <1>1, <1>2, <1>5, <1>6 DEF Task
<1>8. (faults' = 0 /\ Alone(task[w].case) /\ Good(Of(w))) =>
        bad = {} /\ (task[w].at = 4 => g = task[w].case)
  <2> HIDE DEF tool
  <2> QED
    BY <1>1, <1>2, <1>3, <1>4, <1>5
<1> HIDE DEF g
<1> QED
  BY <1>1, <1>2, <1>3, <1>5, <1>7, <1>8, TurnEnds

-----------------------------------------------------------------------------
(* A case is taken. *)

LEMMA TakeFacts ==
  ASSUME Inv, NEW w \in Workers, Take(w)
  PROVE  /\ ~Busy(w) /\ task[w] = Idle /\ next \in Indices /\ next' = next + 1
         /\ next + 1 \in 1 .. Len(manifest) + 1 /\ next \in Nat \ {0}
         /\ result[next] = "none" /\ main = "collect"
         /\ UNCHANGED <<files, faults>> /\ PoolKeeps
         /\ manifest[next].entry \in {"valid", "no_name", "bad_timeout"}
<1>1. /\ ~Busy(w) /\ next <= Len(manifest) /\ main = "collect" /\ next' = next + 1
      /\ UNCHANGED <<files, faults>> /\ PoolKeeps
  BY DEF Take
<1>2. next \in Indices /\ next + 1 \in 1 .. Len(manifest) + 1 /\ next \in Nat \ {0}
  BY <1>1, ManifestFacts DEF Inv, Shape, TypeOK, Indices
<1>3. result[next] = "none" /\ manifest[next].entry \in {"valid", "no_name", "bad_timeout"}
  BY <1>2, ManifestFacts DEF Inv, Threads, Shape, TypeOK
<1> QED
  BY <1>1, <1>2, <1>3 DEF Busy

(* What the other threads know outlasts a step that writes no log. *)
LEMMA OthersProgress ==
  ASSUME Inv, PoolKeeps, UNCHANGED <<files, faults>>,
         NEW v \in Workers, Busy(v), task'[v] = task[v]
  PROVE  Progress(v)'
<1>1. /\ Progress(v) /\ manifest' = manifest
      /\ (Alone(task[v].case)' <=> Alone(task[v].case)) /\ Of(v)' = Of(v)
      /\ \A tool : File(v, tool)' = File(v, tool)
      /\ \A owner, tool : Exit(owner, tool)' = Exit(owner, tool)
  BY DEF Inv, PoolKeeps, Alone, Indices, Of, File, Exit
<1>2. Input(v)' = Input(v)
  BY <1>1 DEF Input
<1>3. Own(v) => Own(v)'
  BY <1>1, <1>2 DEF Own
<1> QED
  BY <1>1, <1>3 DEF Progress

LEMMA EarlyStep ==
  ASSUME Inv, NEW w \in Workers, Take(w),
         manifest[next].entry # "valid" \/ ~manifest[next].selected
  PROVE  Inv'
<1> DEFINE r == Early(manifest[next])
<1>1. /\ result' = [result EXCEPT ![next] = r] /\ UNCHANGED <<task, buffer, output>>
  BY DEF Take
<1>2. /\ next \in Indices /\ next' = next + 1 /\ next + 1 \in 1 .. Len(manifest) + 1
      /\ result[next] = "none" /\ UNCHANGED <<files, faults>> /\ PoolKeeps
      /\ next \in Nat \ {0}
      /\ manifest[next].entry \in {"valid", "no_name", "bad_timeout"}
  BY TakeFacts
<1>3. /\ r \in {"failed", "unselected"}
      /\ r = "unselected" => manifest[next].entry # "no_name" /\ ~manifest[next].selected
      /\ r = "failed" => ~Good(manifest[next])
  <2>1. CASE manifest[next].entry = "valid"
    BY <2>1 DEF Early
  <2>2. CASE manifest[next].entry = "no_name"
    BY <2>2 DEF Early, Good
  <2>3. CASE manifest[next].entry = "bad_timeout"
    BY <2>3 DEF Early, Good
  <2> QED
    BY <1>2, <2>1, <2>2, <2>3
<1> HIDE DEF r
<1>4. /\ manifest' = manifest /\ Indices' = Indices /\ Owner' = Owner /\ Task' = Task
      /\ \A i : Alone(i)' <=> Alone(i)
      /\ \A v : Busy(v)' <=> Busy(v)
  BY <1>1, <1>2 DEF PoolKeeps, Indices, Owner, Task, Alone, Busy
<1>5. /\ result \in [Indices -> {"none", "ok", "failed", "raised", "unselected"}]
      /\ result' \in [Indices -> {"none", "ok", "failed", "raised", "unselected"}]
      /\ result'[next] = r /\ \A i \in Indices : i # next => result'[i] = result[i]
  BY <1>1, <1>2, <1>3 DEF Inv, Shape, TypeOK
<1>6. Shape'
  <2>1. TypeOK'
    BY <1>1, <1>2, <1>4, <1>5 DEF Inv, Shape, TypeOK, PoolKeeps
  <2> QED
    BY <1>1, <1>2, <1>4, <2>1 DEF Inv, Shape, Idle
<1>7. Threads'
  <2>1. \A v \in Workers : Busy(v) => task[v].case \in Indices /\ task[v].case < next
    BY DEF Inv, Shape, TypeOK, Threads
  <2>2. \A i \in Indices : i >= next + 1 => i >= next /\ i # next
    BY <1>2 DEF Indices
  <2>3. \A v \in Workers : Busy(v) => task[v].case < next + 1 /\ task[v].case # next
    BY <1>2, <2>1 DEF Indices
  <2> QED
    BY <1>1, <1>2, <1>4, <1>5, <2>1, <2>2, <2>3 DEF Inv, Threads
<1>8. Collecting'
  <2>1. 1 .. collected \subseteq Indices
    BY ManifestFacts DEF Inv, Shape, TypeOK, Indices
  <2> QED
    BY <1>1, <1>2, <1>3, <1>4, <1>5, <2>1 DEF Inv, Collecting, PoolKeeps
<1>9. Apart'
  BY <1>1, <1>4 DEF Inv, Apart
<1>10. Earned'
  BY <1>2, <1>3, <1>4, <1>5 DEF Inv, Earned
<1>11. \A v \in Workers : Busy(v)' => Progress(v)'
  BY <1>1, <1>2, <1>4, OthersProgress
<1> QED
  BY <1>6, <1>7, <1>8, <1>9, <1>10, <1>11 DEF Inv

LEMMA TakeCaseStep ==
  ASSUME Inv, NEW w \in Workers, Take(w),
         ~(manifest[next].entry # "valid" \/ ~manifest[next].selected)
  PROVE  Inv'
<1> DEFINE c == manifest[next]
           n == Following(c, 1, {})
           r == [case |-> next, at |-> n, stage |-> "launch",
                 bad |-> {}, exit |-> "none", generated |-> 0]
<1>1. /\ task' = [task EXCEPT ![w] = r]
      /\ buffer' = [buffer EXCEPT ![w] = next]
      /\ output' = [output EXCEPT ![next] = @ \cup {next}]
      /\ UNCHANGED result
  BY DEF Take
<1>2. /\ next \in Indices /\ next' = next + 1 /\ next + 1 \in 1 .. Len(manifest) + 1
      /\ result[next] = "none" /\ UNCHANGED <<files, faults>> /\ PoolKeeps
      /\ next \in Nat \ {0} /\ ~Busy(w) /\ main = "collect"
  BY TakeFacts
<1>3. /\ n \in 1 .. 7 /\ n # 5 /\ n # 6 /\ Due(c, n, {})
      /\ \A k \in 1 .. 6 : k < n => ~Asks(c, Tools[k])
  <2> HIDE DEF c
  <2> QED
    BY FirstTool
<1> HIDE DEF n
<1>4. r \in Task /\ r # Idle
  BY <1>2, <1>3 DEF Task, Owner, Idle
<1>5. /\ task'[w] = r /\ \A v \in Workers : v # w => task'[v] = task[v]
      /\ task' \in [Workers -> {Idle} \cup Task]
      /\ buffer'[w] = next /\ \A v \in Workers : v # w => buffer'[v] = buffer[v]
      /\ buffer' \in [Workers -> {0} \cup Indices]
  <2> HIDE DEF r
  <2> QED
    BY <1>1, <1>2, <1>4 DEF Inv, Shape, TypeOK
<1>6. /\ manifest' = manifest /\ Indices' = Indices /\ Owner' = Owner /\ Task' = Task
      /\ \A i : Alone(i)' <=> Alone(i)
      /\ \A v \in Workers : v # w => (Busy(v)' <=> Busy(v))
      /\ Busy(w)'
  BY <1>2, <1>4, <1>5 DEF PoolKeeps, Indices, Owner, Task, Alone, Busy
<1>7. output' \in [Indices -> SUBSET Indices] /\ Apart'
  BY <1>1, <1>2, <1>6 DEF Inv, Shape, TypeOK, Apart
<1>8. Shape'
  <2>1. \A v \in Workers : Busy(v)' =>
          /\ task'[v].case \in Indices /\ task'[v].stage \in {"launch", "run", "judge"}
          /\ task'[v].at \in 1 .. (Len(Tools) + 1)
    <3>1. \A v \in Workers : task'[v] # Idle => task'[v] \in Task
      BY <1>5
    <3> QED
      BY <3>1, ToolsFacts DEF Busy, Task
  <2>2. TypeOK'
    BY <1>1, <1>2, <1>5, <1>6, <1>7, <2>1 DEF Inv, Shape, TypeOK, PoolKeeps
  <2> QED
    BY <1>2, <1>5, <1>6, <2>2 DEF Inv, Shape, Idle
<1>9. Threads'
  <2>1. \A v \in Workers : Busy(v) =>
          task[v].case \in Indices /\ task[v].case < next /\ task[v].case \in Int
    BY DEF Inv, Shape, TypeOK, Threads, Indices
  <2>2. \A i \in Indices : i >= next + 1 => i >= next
    BY <1>2 DEF Indices
  <2>3. \A v \in Workers : v # w =>
          IF Busy(v)' THEN /\ task'[v].case < next' /\ result'[task'[v].case] = "none"
                           /\ buffer'[v] = task'[v].case
          ELSE buffer'[v] = 0
    BY <1>1, <1>2, <1>5, <1>6, <2>1 DEF Inv, Threads
  <2>4. task'[w].case = next /\ next < next'
    BY <1>2, <1>5
  <2>5. \A u, v \in Workers : (u # v /\ Busy(u)' /\ Busy(v)') =>
          task'[u].case # task'[v].case
    BY <1>2, <1>5, <1>6, <2>1, <2>4 DEF Inv, Threads
  <2> QED
    BY <1>1, <1>2, <1>5, <1>6, <2>2, <2>3, <2>4, <2>5 DEF Inv, Threads
<1>10. Collecting'
  BY <1>1, <1>2, <1>6 DEF Inv, Collecting, PoolKeeps
<1>11. Earned'
  BY <1>1, <1>2, <1>6 DEF Inv, Earned
<1>12. Progress(w)'
  <2>1. /\ Of(w)' = c /\ task'[w].at = n /\ task'[w].stage = "launch" /\ task'[w].bad = {}
    BY <1>5, <1>6 DEF Of
  <2>2. Own(w)'
    BY <1>3, <2>1 DEF Own
  <2>3. c.entry = "valid"
    OBVIOUS
  <2> HIDE DEF c, r
  <2> QED
    BY <1>3, <2>1, <2>2, <2>3 DEF Progress
<1>13. ASSUME NEW v \in Workers, Busy(v)'  PROVE Progress(v)'
  <2>1. CASE v = w
    BY <1>12, <2>1
  <2>2. CASE v # w
    BY <1>2, <1>5, <1>6, <1>13, <2>2, OthersProgress
  <2> QED
    BY <2>1, <2>2
<1> QED
  BY <1>7, <1>8, <1>9, <1>10, <1>11, <1>13 DEF Inv

-----------------------------------------------------------------------------
(* A case ends. *)

LEMMA EndStep ==
  ASSUME Inv, NEW w \in Workers, Busy(w),
         NEW r \in {"ok", "failed", "raised"},
         result' = [result EXCEPT ![task[w].case] = r],
         task' = [task EXCEPT ![w] = Idle], buffer' = [buffer EXCEPT ![w] = 0],
         output' = output \/ Prints(w),
         UNCHANGED <<next, files, faults>>, PoolKeeps,
         (r = "ok" /\ Alone(task[w].case)) => Good(Of(w)),
         (r # "ok" /\ Alone(task[w].case) /\ faults = 0) => ~Good(Of(w))
  PROVE  Inv'
<1> DEFINE i0 == task[w].case
<1>1. /\ i0 \in Indices /\ i0 \in Nat \ {0} /\ i0 < next /\ result[i0] = "none"
      /\ buffer[w] = i0 /\ Of(w) = manifest[i0]
  BY TaskFacts DEF Inv, Threads
<1> HIDE DEF i0
<1>2. /\ manifest' = manifest /\ Indices' = Indices /\ Owner' = Owner /\ Task' = Task
      /\ \A i : Alone(i)' <=> Alone(i)
  BY DEF PoolKeeps, Indices, Owner, Task, Alone
<1>3. /\ task'[w] = Idle /\ \A v \in Workers : v # w => task'[v] = task[v]
      /\ task' \in [Workers -> {Idle} \cup Task]
      /\ buffer'[w] = 0 /\ \A v \in Workers : v # w => buffer'[v] = buffer[v]
      /\ buffer' \in [Workers -> {0} \cup Indices]
      /\ result' \in [Indices -> {"none", "ok", "failed", "raised", "unselected"}]
      /\ result'[i0] = r /\ \A i \in Indices : i # i0 => result'[i] = result[i]
  BY <1>1 DEF Inv, Shape, TypeOK, i0
<1>4. ~Busy(w)' /\ \A v \in Workers : v # w => (Busy(v)' <=> Busy(v))
  BY <1>3 DEF Busy, Idle
<1>5. Apart' /\ output' \in [Indices -> SUBSET Indices]
  <2>1. output \in [Indices -> SUBSET Indices] /\ Apart
    BY DEF Inv, Shape, TypeOK
  <2>2. CASE output' = output
    BY <1>2, <2>1, <2>2 DEF Apart
  <2>3. CASE Prints(w)
    BY <1>1, <1>2, <2>1, <2>3 DEF Apart, Prints, i0
  <2> QED
    BY <2>2, <2>3
<1>6. Shape'
  <2>1. \A v \in Workers : Busy(v)' =>
          /\ task'[v].case \in Indices /\ task'[v].stage \in {"launch", "run", "judge"}
          /\ task'[v].at \in 1 .. (Len(Tools) + 1)
    <3>1. \A v \in Workers : task'[v] # Idle => task'[v] \in Task
      BY <1>3
    <3> QED
      BY <3>1, ToolsFacts DEF Busy, Task
  <2>2. TypeOK'
    BY <1>2, <1>3, <1>5, <2>1 DEF Inv, Shape, TypeOK, PoolKeeps
  <2> QED
    BY <1>2, <1>3, <2>2 DEF Inv, Shape, Idle
<1>7. Threads'
  <2>1. \A v \in Workers : (v # w /\ Busy(v)) => task[v].case \in Indices /\ task[v].case # i0
    BY DEF Inv, Shape, TypeOK, Threads, i0
  <2>2. \A i \in Indices : i >= next => i # i0
    BY <1>1 DEF Inv, Shape, TypeOK, Indices
  <2>3. \A v \in Workers :
          IF Busy(v)' THEN /\ task'[v].case < next' /\ result'[task'[v].case] = "none"
                           /\ buffer'[v] = task'[v].case
          ELSE buffer'[v] = 0
    BY <1>3, <1>4, <2>1 DEF Inv, Threads
  <2>4. \A u, v \in Workers : (u # v /\ Busy(u)' /\ Busy(v)') =>
          task'[u].case # task'[v].case
    BY <1>3, <1>4 DEF Inv, Threads
  <2>5. \A i \in Indices : i >= next => result'[i] = "none"
    BY <1>3, <2>2 DEF Inv, Threads
  <2> QED
    BY <1>2, <2>3, <2>4, <2>5 DEF Threads
<1>8. Collecting'
  <2>1. \A i \in 1 .. collected : i \in Indices /\ i # i0
    BY <1>1, ManifestFacts, SMTT(30) DEF Inv, Shape, TypeOK, Indices, Collecting
  <2>2. outcome # "pass" /\ main \notin {"cleanup", "done"}
    BY <1>1 DEF Inv, Collecting
  <2> QED
    BY <1>3, <2>1, <2>2 DEF Inv, Collecting, PoolKeeps
<1>9. Earned'
  BY <1>1, <1>2, <1>3 DEF Inv, Earned, i0
<1>10. ASSUME NEW v \in Workers, Busy(v)'  PROVE Progress(v)'
  <2>1. v # w
    BY <1>4, <1>10
  <2> QED
    BY <1>3, <1>4, <1>10, <2>1, OthersProgress
<1> QED
  BY <1>5, <1>6, <1>7, <1>8, <1>9, <1>10 DEF Inv

LEMMA ReturnStep ==
  ASSUME Inv, NEW w \in Workers, Return(w)
  PROVE  Inv'
<1> DEFINE c == Of(w)
           r == IF task[w].bad = {} THEN "ok" ELSE "failed"
<1>1. /\ Busy(w) /\ task[w].at > 6
      /\ result' = [result EXCEPT ![task[w].case] = r]
      /\ task' = [task EXCEPT ![w] = Idle] /\ buffer' = [buffer EXCEPT ![w] = 0]
      /\ Prints(w) /\ UNCHANGED <<next, files, faults>> /\ PoolKeeps
  BY ToolsFacts DEF Return
<1>2. Progress(w) /\ task[w].at \in 1 .. 7 /\ c \in Case
  BY <1>1, Working, TaskFacts, ManifestFacts DEF Shape, TypeOK
<1>3. c.entry = "valid"
      /\ \A k \in 1 .. 6 : (Tools[k] \in {"list", "import"} /\ Asks(c, Tools[k])) => ~c.raises
  BY <1>1, <1>2 DEF Progress
<1>4. ~(c.raises /\ (c.forge # "none" \/ c.lean # "none"))
  <2>1. Asks(c, Tools[2]) => ~c.raises
    BY <1>3, ToolsFacts
  <2>2. Asks(c, Tools[4]) => ~c.raises
    BY <1>3, ToolsFacts
  <2> HIDE DEF c
  <2> QED
    BY <2>1, <2>2, ToolsFacts, AsksFacts
<1>5. ASSUME task[w].bad = {}, Alone(task[w].case)  PROVE Good(c)
  <2>1. \A k \in 1 .. 6 : Asks(c, Tools[k]) => Fine(c, Tools[k])
    BY <1>1, <1>2, <1>5 DEF Progress, Own
  <2> HIDE DEF c
  <2>2. Asks(c, "solc") => c.rejects = "rejected"
    BY <2>1, ToolsFacts DEF Fine
  <2>3. Asks(c, "forge") => c.forge = "pass"
    BY <2>1, ToolsFacts DEF Fine
  <2>4. Asks(c, "lean") => c.lean = "agrees"
    BY <2>1, ToolsFacts DEF Fine
  <2> QED
    BY <1>3, <1>4, <2>2, <2>3, <2>4, AsksFacts DEF Good
<1>6. (task[w].bad # {} /\ Alone(task[w].case) /\ faults = 0) => ~Good(c)
  BY <1>2 DEF Progress, Own
<1>7. /\ r \in {"ok", "failed", "raised"}
      /\ (r = "ok" /\ Alone(task[w].case)) => Good(Of(w))
      /\ (r # "ok" /\ Alone(task[w].case) /\ faults = 0) => ~Good(Of(w))
  BY <1>5, <1>6
<1> HIDE DEF r
<1> QED
  BY <1>1, <1>7, EndStep

LEMMA RaiseStep ==
  ASSUME Inv, NEW w \in Workers, RaiseCase(w)
  PROVE  Inv'
<1>1. /\ Busy(w) /\ task[w].at <= 6 /\ Of(w).raises /\ Tools[task[w].at] \in {"list", "import"}
      /\ result' = [result EXCEPT ![task[w].case] = "raised"]
      /\ task' = [task EXCEPT ![w] = Idle] /\ buffer' = [buffer EXCEPT ![w] = 0]
      /\ UNCHANGED <<next, files, output, faults>> /\ PoolKeeps
  BY ToolsFacts DEF RaiseCase
<1>2. Progress(w) /\ task[w].at \in 1 .. 6
  BY <1>1, Working
<1>3. Asks(Of(w), Tools[task[w].at])
  BY <1>1, <1>2, DueFacts DEF Progress
<1>4. ~Good(Of(w))
  BY <1>1, <1>3, AsksFacts DEF Good
<1> QED
  BY <1>1, <1>4, EndStep

-----------------------------------------------------------------------------
(* The main thread. *)

LEMMA MainStep ==
  ASSUME Inv, MainNext
  PROVE  Inv'
<1>1. MainKeeps
  BY DEF MainNext, Collect, Report, Drain, CleanUp
<1>2. /\ manifest' = manifest /\ Indices' = Indices /\ Owner' = Owner /\ Task' = Task
      /\ \A i : Alone(i)' <=> Alone(i)
      /\ \A v : (Busy(v)' <=> Busy(v)) /\ Of(v)' = Of(v)
      /\ \A v, tool : File(v, tool)' = File(v, tool)
      /\ \A owner, tool : Exit(owner, tool)' = Exit(owner, tool)
  BY <1>1 DEF MainKeeps, Indices, Owner, Task, Alone, Busy, Of, File, Exit
<1>3. \A v : (Input(v)' = Input(v))
  BY <1>1, <1>2 DEF Input, MainKeeps
<1>4. Threads' /\ Apart' /\ Earned'
  BY <1>1, <1>2 DEF MainKeeps, Inv, Threads, Apart, Earned
<1>5. \A v \in Workers : Busy(v)' => Progress(v)'
  <2>1. \A v \in Workers : Own(v) => Own(v)'
    BY <1>1, <1>2, <1>3 DEF MainKeeps, Own
  <2> QED
    BY <1>1, <1>2, <2>1 DEF MainKeeps, Inv, Progress
<1>6. /\ main' \in {"collect", "drain", "cleanup", "done"}
      /\ outcome' \in {"none", "pass", "fail", "raised"} /\ outdir' \in {"there", "gone"}
      /\ collected' \in 0 .. Len(manifest)
      /\ Collecting'
  <2>1. CASE Collect
    <3>1. Len(manifest) \in Nat /\ collected \in 0 .. Len(manifest)
      BY ManifestFacts DEF Inv, Shape, TypeOK
    <3>2. CASE result[collected + 1] = "raised"
      BY <1>1, <1>2, <2>1, <3>1, <3>2 DEF Collect, MainKeeps, Inv, Shape, TypeOK, Collecting
    <3>3. CASE result[collected + 1] # "raised"
      <4>1. /\ collected' = collected + 1 /\ collected + 1 <= Len(manifest)
            /\ UNCHANGED <<main, outcome, outdir>> /\ result[collected + 1] # "none"
        BY <2>1, <3>1, <3>3 DEF Collect
      <4>2. \A i \in 1 .. collected + 1 : i \in 1 .. collected \/ i = collected + 1
        BY <3>1
      <4>3. \A i \in 1 .. collected + 1 : result[i] \notin {"none", "raised"}
        BY <3>3, <4>1, <4>2 DEF Inv, Collecting
      <4> QED
        BY <1>1, <1>2, <3>1, <4>1, <4>3 DEF MainKeeps, Inv, Shape, TypeOK, Collecting
    <3> QED
      BY <3>2, <3>3
  <2>2. CASE Report
    <3>1. /\ main = "collect" /\ collected = Len(manifest) /\ main' = "cleanup"
          /\ outcome' = (IF Failed = {} THEN "pass" ELSE "fail")
          /\ UNCHANGED <<collected, outdir>>
      BY <2>2 DEF Report
    <3>2. \A i \in Indices : result[i] \notin {"none", "raised"}
      BY <3>1 DEF Inv, Collecting, Indices
    <3>3. \A w \in Workers : ~Busy(w)
      BY <3>2, TaskFacts DEF Inv, Threads
    <3>4. outcome' = "pass" => \A i \in Indices : result[i] # "failed"
      BY <3>1 DEF Failed
    <3>5. outdir = "there"
      BY <3>1 DEF Inv, Collecting
    <3> QED
      BY <1>1, <1>2, <3>1, <3>2, <3>3, <3>4, <3>5
         DEF MainKeeps, Inv, Shape, TypeOK, Collecting
  <2>3. CASE Drain
    <3>1. /\ main = "drain" /\ \A w \in Workers : ~Busy(w)
          /\ main' = "cleanup" /\ outcome' = "raised" /\ UNCHANGED <<collected, outdir>>
      BY <2>3 DEF Drain
    <3> QED
      BY <1>1, <1>2, <3>1 DEF MainKeeps, Inv, Shape, TypeOK, Collecting
  <2>4. CASE CleanUp
    <3>1. /\ main = "cleanup" /\ main' = "done"
          /\ outdir' = (IF outcome = "fail" \/ keep_tmp THEN "there" ELSE "gone")
          /\ UNCHANGED <<collected, outcome>>
      BY <2>4 DEF CleanUp
    <3> QED
      BY <1>1, <1>2, <3>1 DEF MainKeeps, Inv, Shape, TypeOK, Collecting
  <2> QED
    BY <2>1, <2>2, <2>3, <2>4 DEF MainNext
<1>7. Shape'
  <2>1. TypeOK'
    BY <1>1, <1>2, <1>6 DEF MainKeeps, Inv, Shape, TypeOK
  <2> QED
    BY <1>1, <1>2, <2>1 DEF MainKeeps, Inv, Shape, Idle
<1> QED
  BY <1>4, <1>5, <1>6, <1>7 DEF Inv

-----------------------------------------------------------------------------
(* The invariant. *)

LEMMA InvInit == Init => Inv
<1> SUFFICES ASSUME Init PROVE Inv
  OBVIOUS
<1>1. /\ Len(manifest) \in Nat /\ Len(manifest) # 0 /\ Faults \in Nat
      /\ manifest \in Manifests
  BY ManifestFacts, ReplayHarnessAssumption DEF Init
<1>2. \A w \in Workers : ~Busy(w) /\ task[w] = Idle /\ buffer[w] = 0
  BY DEF Init, Busy
<1>3. TypeOK
  BY <1>1, <1>2 DEF Init, TypeOK, Indices
<1>4. Shape
  BY <1>3 DEF Init, Shape, ToolSet, Owner
<1>5. Threads /\ Apart /\ Earned
  BY <1>2 DEF Init, Threads, Apart, Earned
<1>6. Collecting
  BY <1>2 DEF Init, Collecting
<1> QED
  BY <1>2, <1>4, <1>5, <1>6 DEF Inv

LEMMA InvStep == Inv /\ [Next]_vars => Inv'
<1> SUFFICES ASSUME Inv, [Next]_vars PROVE Inv'
  OBVIOUS
<1>1. CASE MainNext
  BY <1>1, MainStep
<1>2. ASSUME NEW w \in Workers, WorkerNext(w)  PROVE Inv'
  <2>1. CASE Take(w)
    BY <2>1, EarlyStep, TakeCaseStep
  <2>2. CASE Launch(w)
    BY <2>2, LaunchStep
  <2>3. CASE Finish(w)
    BY <2>3, FinishStep
  <2>4. CASE Expire(w)
    BY <2>4, ExpireStep
  <2>5. CASE Judge(w)
    BY <2>5, JudgeStep
  <2>6. CASE Return(w)
    BY <2>6, ReturnStep
  <2>7. CASE RaiseCase(w)
    BY <2>7, RaiseStep
  <2> QED
    BY <1>2, <2>1, <2>2, <2>3, <2>4, <2>5, <2>6, <2>7 DEF WorkerNext
<1>3. CASE UNCHANGED vars
  <2>1. /\ manifest' = manifest /\ Indices' = Indices /\ Owner' = Owner /\ Task' = Task
        /\ \A i : Alone(i)' <=> Alone(i)
        /\ \A v : (Busy(v)' <=> Busy(v)) /\ Of(v)' = Of(v)
        /\ \A v, tool : File(v, tool)' = File(v, tool)
        /\ \A owner, tool : Exit(owner, tool)' = Exit(owner, tool)
    BY <1>3 DEF vars, Indices, Owner, Task, Alone, Busy, Of, File, Exit
  <2>2. \A v : (Input(v)' = Input(v))
    BY <1>3, <2>1 DEF Input, vars
  <2>3. Threads' /\ Apart' /\ Earned' /\ Collecting'
    BY <1>3, <2>1 DEF vars, Inv, Threads, Apart, Earned, Collecting
  <2>4. \A v \in Workers : Own(v) => Own(v)'
    BY <1>3, <2>1, <2>2 DEF vars, Own
  <2>5. \A v \in Workers : Busy(v)' => Progress(v)'
    BY <1>3, <2>1, <2>4 DEF vars, Inv, Progress
  <2>6. TypeOK'
    BY <1>3, <2>1 DEF vars, Inv, Shape, TypeOK
  <2>7. Shape'
    BY <1>3, <2>1, <2>6 DEF vars, Inv, Shape, Idle
  <2> QED
    BY <2>3, <2>5, <2>7 DEF Inv
<1> QED
  BY <1>1, <1>2, <1>3 DEF Next

-----------------------------------------------------------------------------
(* "paired_cases_passed=yes" is earned, and a case that deserves it is ok while
   no tool is killed: for every manifest, whatever its cases share, every number
   of threads and every number of tools killed at the time limit. *)
THEOREM VerdictsEarned == Spec => []VerdictsAreEarned
<1>1. ASSUME Inv  PROVE VerdictsAreEarned
  <2>1. ASSUME outcome = "pass", NEW i \in Indices, Alone(i),
               manifest[i].selected \/ manifest[i].entry = "no_name"
        PROVE  Good(manifest[i])
    <3>1. result[i] \in {"ok", "unselected"}
      BY <1>1, <2>1 DEF Inv, Shape, TypeOK, Collecting
    <3> QED
      BY <1>1, <2>1, <3>1 DEF Inv, Earned
  <2> QED
    BY <1>1, <2>1 DEF VerdictsAreEarned, Inv, Earned
<1> QED
  BY <1>1, InvInit, InvStep, PTL DEF Spec

(* The text printed for a case is only that of the thread that runs it, however
   many threads print. *)
THEOREM OutputsApart == Spec => []OutputsAreApart
<1>1. Inv => OutputsAreApart
  BY DEF Inv, Shape, Apart, OutputsAreApart
<1> QED
  BY <1>1, InvInit, InvStep, PTL DEF Spec

(* A report of a failure keeps the logs, and no log is deleted under a thread
   that still runs a case. *)
THEOREM LogsKept == Spec => []LogsAreKept
<1>1. ASSUME Inv  PROVE LogsAreKept
  <2>1. outdir \in {"there", "gone"} /\ main \in {"collect", "drain", "cleanup", "done"}
    BY <1>1 DEF Inv, Shape, TypeOK
  <2> QED
    BY <1>1, <2>1 DEF Inv, Collecting, LogsAreKept
<1> QED
  BY <1>1, InvInit, InvStep, PTL DEF Spec
=============================================================================
