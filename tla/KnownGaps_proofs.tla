------------------------- MODULE KnownGaps_proofs --------------------------
(***************************************************************************)
(* What the registry of known gaps promises, for any number of threads,    *)
(* processes, gaps, edits and faults, and what the report of a pool does:  *)
(* proofs about KnownGaps and DedupReplay.                                 *)
(***************************************************************************)
EXTENDS KnownGaps, DedupReplay, Recursion

GapSet == ToSet(Gaps)
JobRecord ==
  [kind: {"match", "check", "rebuild"},
   pc: {"lock", "analyze", "parse", "leave", "derived", "end", "write"},
   todo: SUBSET Keyed, keys: KeyMaps, program: Programs \cup {None},
   delta: Deltas \cup {None}, back: Programs \cup {Home}, key: Keys \cup {None},
   found: KeyMaps, problems: SUBSET GapSet, edited: BOOLEAN, faulty: BOOLEAN]

Shape ==
  /\ TypeOK /\ cache \in [Procs -> KeyMaps \cup {None}]
  /\ job \in [Threads -> {Idle} \cup JobRecord]

(* Every key of a gap, wherever it is kept, was derived from a repro the gap
   has or had. *)
Lawful(keys) ==
  \A g \in GapSet :
    keys[g] # None => keys[g][1] = DeltaOf[g] /\ <<g, keys[g][3]>> \in published
Registry ==
  /\ stored # Torn => Lawful(stored)
  /\ \A p \in Procs : cache[p] # None => Lawful(cache[p])
  /\ \A i \in Keyed : <<Gaps[i], repro[Gaps[i]]>> \in published
  /\ HitsAreCopies

Directory == \A p \in Procs : lock[p] = Free => cwd[p] = Home

Derives == {"analyze", "parse", "leave"}

Placed(t) ==
  LET j == job[t] IN
  /\ Lawful(j.keys) /\ Lawful(j.found)
  /\ j.kind = "match" =>
       j.program \in Programs /\ j.delta \in Deltas /\ j.pc \notin {"end", "write"}
  /\ j.kind # "match" => (j.pc \in {"end", "write"} <=> j.todo = {})

(* Who derives a key holds the lock, in the directory of the sources. *)
Deriving(t) ==
  LET j == job[t]  p == ProcOf[t] IN
  /\ j.pc \in Derives => /\ lock[p] = t /\ j.back = Home
                         /\ j.edited \/ cwd[p] = Subject(t)
  /\ j.pc = "parse" => j.faulty \/ j.edited \/ Subject(t) \in Rejected

Derived(t) ==
  LET j == job[t] IN
  j.pc \in {"leave", "derived"} =>
    /\ j.faulty \/ j.edited \/ j.key = ProperKey(Delta(t), Subject(t))
    /\ j.key # None =>
         /\ j.key[1] = Delta(t)
         /\ IF j.kind = "match" THEN j.key[3] = j.program
            ELSE <<Gap(t), j.key[3]>> \in published

(* What a check has found of the gaps it is done with. *)
Compared(t) ==
  LET j == job[t] IN
  j.kind = "check" =>
    \/ j.edited \/ j.faulty
    \/ \A i \in Keyed \ j.todo :
         \/ Gaps[i] \in j.problems
         \/ j.keys[Gaps[i]] = ProperKey(DeltaOf[Gaps[i]], repro[Gaps[i]])

Facts(t) == Placed(t) /\ Deriving(t) /\ Derived(t) /\ Compared(t)

(* The inductive invariant. *)
Inv == /\ Shape /\ Registry /\ Directory
       /\ \A t \in Threads : job[t] # Idle => Facts(t)

-----------------------------------------------------------------------------
(* The list of the gaps. *)

LEMMA MinFacts ==
  ASSUME NEW S \in SUBSET Nat, S # {}
  PROVE  Min(S) \in S
<1>1. PICK n : n \in S
  OBVIOUS
<1>2. \E m \in S : \A k \in S : m <= k
  BY <1>1, LeastNumber
<1> QED
  BY <1>2 DEF Min

LEMMA GapsFacts ==
  /\ DOMAIN Gaps \in SUBSET Nat /\ Keyed \in SUBSET DOMAIN Gaps
  /\ \A i \in DOMAIN Gaps : Gaps[i] \in GapSet
  /\ \A i \in Keyed : Gaps[i] \notin NoRepro
BY RegistryAssumption DEF GapSet, ToSet, Keyed

LEMMA KeyFacts ==
  ASSUME NEW delta \in Deltas, NEW mode \in {"full", "parse"}, NEW program \in Programs
  PROVE  /\ Key(delta, mode, program) \in Keys
         /\ Key(delta, mode, program)[1] = delta /\ Key(delta, mode, program)[3] = program
BY DEF Key, Keys

LEMMA NoKeysFacts == NoKeys \in KeyMaps /\ Lawful(NoKeys)
BY DEF NoKeys, KeyMaps, Lawful, GapSet

(* The process, and what it works on, of a thread with a job. *)
LEMMA JobFacts ==
  ASSUME Inv, NEW t \in Threads, job[t] # Idle
  PROVE  /\ job[t] \in JobRecord /\ ProcOf[t] \in Procs /\ Facts(t)
         /\ job[t].pc \notin {"end", "write"} =>
              /\ Subject(t) \in Programs /\ Delta(t) \in Deltas
              /\ job[t].kind # "match" =>
                   /\ Min(job[t].todo) \in job[t].todo /\ Min(job[t].todo) \in Keyed
                   /\ Gap(t) = Gaps[Min(job[t].todo)] /\ Gap(t) \in GapSet
                   /\ Subject(t) = repro[Gap(t)] /\ Delta(t) = DeltaOf[Gap(t)]
                   /\ <<Gap(t), repro[Gap(t)]>> \in published
<1>1. job[t] \in JobRecord /\ ProcOf[t] \in Procs /\ Facts(t)
  BY RegistryAssumption DEF Inv, Shape
<1>2. /\ repro \in [GapSet -> Programs] /\ DeltaOf \in [GapSet -> Deltas]
      /\ \A i \in Keyed : <<Gaps[i], repro[Gaps[i]]>> \in published
  BY RegistryAssumption DEF Inv, Shape, TypeOK, Registry, GapSet
<1>3. ASSUME job[t].pc \notin {"end", "write"}, job[t].kind # "match"
      PROVE  /\ Min(job[t].todo) \in job[t].todo /\ Min(job[t].todo) \in Keyed
             /\ Gap(t) = Gaps[Min(job[t].todo)] /\ Gap(t) \in GapSet
             /\ Subject(t) = repro[Gap(t)] /\ Delta(t) = DeltaOf[Gap(t)]
             /\ <<Gap(t), repro[Gap(t)]>> \in published
  <2>1. job[t].todo \in SUBSET Keyed /\ job[t].todo # {}
    BY <1>1, <1>3 DEF JobRecord, Facts, Placed
  <2>2. Min(job[t].todo) \in job[t].todo
    BY <2>1, MinFacts, GapsFacts
  <2> QED
    BY <1>2, <1>3, <2>1, <2>2, GapsFacts DEF Gap, Subject, Delta
<1>4. ASSUME job[t].pc \notin {"end", "write"}, job[t].kind = "match"
      PROVE  Subject(t) \in Programs /\ Delta(t) \in Deltas
  BY <1>1, <1>4 DEF Facts, Placed, Subject, Delta
<1> QED
  BY <1>1, <1>2, <1>3, <1>4

-----------------------------------------------------------------------------
(* A step of one thread. *)

(* What the others know outlasts what does not touch their process. *)
LEMMA KeepFacts ==
  ASSUME Inv, NEW u \in Threads, job[u] # Idle, job'[u] = job[u],
         UNCHANGED repro, published \subseteq published',
         job[u].pc \in Derives =>
           lock'[ProcOf[u]] = lock[ProcOf[u]] /\ cwd'[ProcOf[u]] = cwd[ProcOf[u]]
  PROVE  Facts(u)'
<1>1. Facts(u)
  BY DEF Inv
<1>2. Subject(u)' = Subject(u) /\ Delta(u)' = Delta(u) /\ Gap(u)' = Gap(u)
  BY DEF Subject, Delta, Gap
<1>3. \A keys : Lawful(keys) => Lawful(keys)'
  BY DEF Lawful
<1>4. Placed(u)'
  BY <1>1, <1>3 DEF Facts, Placed
<1>5. Deriving(u)'
  BY <1>1, <1>2 DEF Facts, Deriving, Derives
<1>6. Derived(u)'
  BY <1>1, <1>2 DEF Facts, Derived
<1>7. Compared(u)'
  BY <1>1 DEF Facts, Compared
<1> QED
  BY <1>4, <1>5, <1>6, <1>7 DEF Facts

LEMMA ThreadMoves ==
  ASSUME Inv, NEW t \in Threads, NEW j \in {Idle} \cup JobRecord,
         job' = [job EXCEPT ![t] = j], j # Idle => Facts(t)',
         UNCHANGED <<repro, published>>, Registry', Directory',
         stored' = Torn \/ stored' \in KeyMaps,
         cache' \in [Procs -> KeyMaps \cup {None}],
         cwd' \in [Procs -> Programs \cup {Home}], lock' \in [Procs -> Threads \cup {Free}],
         \A p \in Procs : p # ProcOf[t] => cwd'[p] = cwd[p] /\ lock'[p] = lock[p],
         UNCHANGED <<cwd, lock>> \/ lock[ProcOf[t]] \in {Free, t}
  PROVE  Inv'
<1>1. /\ job'[t] = j /\ \A u \in Threads : u # t => job'[u] = job[u]
      /\ job' \in [Threads -> {Idle} \cup JobRecord]
  BY DEF Inv, Shape
<1>2. \A u \in Threads : job'[u] = Idle \/ job'[u].key \in Keys \cup {None}
  <2>1. \A u \in Threads : job'[u] # Idle => job'[u] \in JobRecord
    BY <1>1
  <2> QED
    BY <2>1 DEF JobRecord
<1>3. TypeOK'
  BY <1>2 DEF Inv, Shape, TypeOK
<1>4. Shape'
  BY <1>1, <1>3 DEF Shape
<1>5. ASSUME NEW u \in Threads, job'[u] # Idle  PROVE Facts(u)'
  <2>1. CASE u = t
    BY <1>1, <1>5, <2>1
  <2>2. CASE u # t
    <3>1. job'[u] = job[u] /\ job[u] # Idle
      BY <1>1, <1>5, <2>2
    <3>2. ASSUME job[u].pc \in Derives
          PROVE  lock'[ProcOf[u]] = lock[ProcOf[u]] /\ cwd'[ProcOf[u]] = cwd[ProcOf[u]]
      <4>1. lock[ProcOf[u]] = u /\ ProcOf[u] \in Procs /\ u # Free
        BY <3>1, <3>2, JobFacts, RegistryAssumption DEF Facts, Deriving
      <4> QED
        BY <2>2, <4>1
    <3> QED
      BY <3>1, <3>2, KeepFacts
  <2> QED
    BY <2>1, <2>2
<1> QED
  BY <1>4, <1>5 DEF Inv

(* Most steps leave the registry as it is. *)
LEMMA SameRegistry ==
  ASSUME Inv, UNCHANGED <<repro, stored, cache, published, hit>>
  PROVE  /\ Registry' /\ (stored' = Torn \/ stored' \in KeyMaps)
         /\ cache' \in [Procs -> KeyMaps \cup {None}]
         /\ \A keys : Lawful(keys)' <=> Lawful(keys)
<1>1. \A keys : Lawful(keys)' <=> Lawful(keys)
  BY DEF Lawful
<1>2. Registry'
  BY <1>1 DEF Inv, Registry, HitsAreCopies
<1> QED
  BY <1>1, <1>2 DEF Inv, Shape, TypeOK

LEMMA SameDirectory ==
  ASSUME Inv, UNCHANGED <<cwd, lock>>
  PROVE  /\ Directory' /\ cwd' \in [Procs -> Programs \cup {Home}]
         /\ lock' \in [Procs -> Threads \cup {Free}]
BY DEF Inv, Directory, Shape, TypeOK

LEMMA LoadedFacts ==
  ASSUME Inv, NEW p \in Procs
  PROVE  Loaded(p) \in KeyMaps /\ Lawful(Loaded(p))
<1>1. cache[p] # None => cache[p] \in KeyMaps /\ Lawful(cache[p])
  BY DEF Inv, Shape, Registry
<1>2. stored # Torn => stored \in KeyMaps /\ Lawful(stored)
  BY DEF Inv, Shape, TypeOK, Registry
<1> QED
  BY <1>1, <1>2, NoKeysFacts DEF Loaded

LEMMA EnterStep ==
  ASSUME Inv, NEW t \in Threads, Enter(t)
  PROVE  Inv'
<1> DEFINE p == ProcOf[t]
           s == Subject(t)
           j == [job[t] EXCEPT !.pc = "analyze", !.back = cwd[p]]
<1>1. /\ job[t] # Idle /\ job[t].pc = "lock" /\ lock[p] = Free
      /\ lock' = [lock EXCEPT ![p] = t] /\ cwd' = [cwd EXCEPT ![p] = s]
      /\ job' = [job EXCEPT ![t] = j]
      /\ UNCHANGED <<repro, stored, cache, published, hit>>
  BY DEF Enter, At, Same
<1>2. /\ job[t] \in JobRecord /\ p \in Procs /\ Facts(t) /\ s \in Programs
  BY <1>1, JobFacts
<1>3. cwd[p] = Home /\ Home \in Programs \cup {Home}
  BY <1>1, <1>2 DEF Inv, Directory
<1>4. /\ j \in JobRecord /\ j.pc = "analyze" /\ j.back = Home /\ j.todo = job[t].todo
      /\ j.kind = job[t].kind /\ j.keys = job[t].keys /\ j.found = job[t].found
      /\ j.program = job[t].program /\ j.delta = job[t].delta
      /\ j.problems = job[t].problems /\ j.edited = job[t].edited /\ j.faulty = job[t].faulty
  BY <1>2, <1>3 DEF JobRecord
<1> HIDE DEF j, s
<1>5. job'[t] = j
  BY <1>1 DEF Inv, Shape
<1>6. /\ cwd' \in [Procs -> Programs \cup {Home}] /\ lock' \in [Procs -> Threads \cup {Free}]
      /\ cwd'[p] = s /\ lock'[p] = t
      /\ \A q \in Procs : q # p => cwd'[q] = cwd[q] /\ lock'[q] = lock[q]
  BY <1>1, <1>2 DEF Inv, Shape, TypeOK
<1>7. Directory'
  BY <1>6, RegistryAssumption DEF Inv, Directory
<1>8. Facts(t)'
  <2>1. Subject(t)' = s
    BY <1>1, <1>4, <1>5 DEF Subject, Gap, s
  <2>2. Placed(t)'
    BY <1>1, <1>2, <1>4, <1>5, SameRegistry DEF Facts, Placed
  <2>3. Deriving(t)' /\ Derived(t)'
    BY <1>4, <1>5, <1>6, <2>1 DEF Deriving, Derived
  <2>4. Compared(t)'
    BY <1>1, <1>2, <1>4, <1>5 DEF Facts, Compared
  <2> QED
    BY <2>2, <2>3, <2>4 DEF Facts
<1> QED
  BY <1>1, <1>4, <1>6, <1>7, <1>8, SameRegistry, ThreadMoves

(* The steps with the lock held that change the job alone. *)
LEMMA AnalyzeStep ==
  ASSUME Inv, NEW t \in Threads, Analyze(t)
  PROVE  Inv'
<1> DEFINE p == ProcOf[t]
           k == Key(Delta(t), "full", Subject(t))
           j == job'[t]
<1>1. /\ job[t] # Idle /\ job[t].pc = "analyze"
      /\ UNCHANGED <<repro, stored, cache, published, hit>> /\ UNCHANGED <<cwd, lock>>
  BY DEF Analyze, At, Same
<1>2. /\ job[t] \in JobRecord /\ p \in Procs /\ Facts(t)
      /\ Subject(t) \in Programs /\ Delta(t) \in Deltas
      /\ job[t].kind # "match" => <<Gap(t), Subject(t)>> \in published
      /\ job[t].kind = "match" => Subject(t) = job[t].program
  BY <1>1, JobFacts DEF Subject
<1>3. k \in Keys /\ k[1] = Delta(t) /\ k[3] = Subject(t)
  BY <1>2, KeyFacts
<1>4. \/ /\ Analyzable(t)
         /\ job' = [job EXCEPT ![t] = [job[t] EXCEPT !.pc = "leave", !.key = k]]
      \/ ~Analyzable(t) /\ job' = [job EXCEPT ![t] = [job[t] EXCEPT !.pc = "parse"]]
      \/ job' = [job EXCEPT ![t] = [job[t] EXCEPT !.pc = "parse", !.faulty = TRUE]]
  BY DEF Analyze
<1>k. (Subject(t) \notin Rejected) => k = ProperKey(Delta(t), Subject(t))
  BY DEF ProperKey
<1> HIDE DEF k
<1>5. /\ j \in JobRecord /\ j.pc \in {"leave", "parse"} /\ j.todo = job[t].todo
      /\ j.kind = job[t].kind /\ j.keys = job[t].keys /\ j.found = job[t].found
      /\ j.program = job[t].program /\ j.delta = job[t].delta /\ j.back = job[t].back
      /\ j.problems = job[t].problems /\ j.edited = job[t].edited
      /\ job[t].faulty => j.faulty
      /\ j.pc = "leave" => Analyzable(t) /\ j.key = k
      /\ j.pc = "parse" => j.faulty \/ ~Analyzable(t)
      /\ job' = [job EXCEPT ![t] = j]
  <2> DEFINE r1 == [job[t] EXCEPT !.pc = "leave", !.key = k]
             r2 == [job[t] EXCEPT !.pc = "parse"]
             r3 == [job[t] EXCEPT !.pc = "parse", !.faulty = TRUE]
  <2>1. /\ t \in DOMAIN job
        /\ r1 \in JobRecord /\ r2 \in JobRecord /\ r3 \in JobRecord
    BY <1>2, <1>3 DEF Inv, Shape, JobRecord
  <2>2. CASE Analyzable(t) /\ job' = [job EXCEPT ![t] = r1]
    <3>1. j = r1
      BY <2>1, <2>2
    <3> QED
      BY <1>2, <2>1, <2>2, <3>1, ZenonT(30) DEF JobRecord
  <2>3. CASE ~Analyzable(t) /\ job' = [job EXCEPT ![t] = r2]
    <3>1. j = r2
      BY <2>1, <2>3
    <3> QED
      BY <1>2, <2>1, <2>3, <3>1 DEF JobRecord
  <2>4. CASE job' = [job EXCEPT ![t] = r3]
    <3>1. j = r3
      BY <2>1, <2>4
    <3> QED
      BY <1>2, <2>1, <2>4, <3>1, ZenonT(30) DEF JobRecord
  <2> QED
    BY <1>4, <2>2, <2>3, <2>4
<1>6. Subject(t)' = Subject(t) /\ Delta(t)' = Delta(t) /\ Gap(t)' = Gap(t)
  BY <1>1, <1>5 DEF Subject, Delta, Gap
<1>7. Facts(t)'
  <2>1. Placed(t)'
    BY <1>1, <1>2, <1>5, SameRegistry DEF Facts, Placed
  <2>2. Deriving(t)'
    BY <1>1, <1>2, <1>5, <1>6 DEF Facts, Deriving, Derives, Analyzable
  <2>3. Derived(t)'
    <3>1. j.pc = "leave" => k = ProperKey(Delta(t), Subject(t))
      BY <1>5, <1>k DEF Analyzable
    <3> QED
      BY <1>1, <1>2, <1>3, <1>5, <1>6, <3>1 DEF Derived
  <2>4. Compared(t)'
    BY <1>1, <1>2, <1>5 DEF Facts, Compared
  <2> QED
    BY <2>1, <2>2, <2>3, <2>4 DEF Facts
<1>8. /\ \A q \in Procs : q # ProcOf[t] => cwd'[q] = cwd[q] /\ lock'[q] = lock[q]
  BY <1>1
<1> HIDE DEF j
<1> QED
  BY <1>1, <1>5, <1>7, <1>8, SameRegistry, SameDirectory, ThreadMoves

LEMMA ParseStep ==
  ASSUME Inv, NEW t \in Threads, Parse(t)
  PROVE  Inv'
<1> DEFINE p == ProcOf[t]
           k == Key(Delta(t), "parse", Subject(t))
           j == job'[t]
<1>1. /\ job[t] # Idle /\ job[t].pc = "parse"
      /\ UNCHANGED <<repro, stored, cache, published, hit>> /\ UNCHANGED <<cwd, lock>>
  BY DEF Parse, At, Same
<1>2. /\ job[t] \in JobRecord /\ p \in Procs /\ Facts(t)
      /\ Subject(t) \in Programs /\ Delta(t) \in Deltas
      /\ job[t].kind # "match" => <<Gap(t), Subject(t)>> \in published
      /\ job[t].kind = "match" => Subject(t) = job[t].program
  BY <1>1, JobFacts DEF Subject
<1>3. k \in Keys /\ k[1] = Delta(t) /\ k[3] = Subject(t)
  BY <1>2, KeyFacts
<1>4. \/ job' = [job EXCEPT ![t] = [job[t] EXCEPT !.pc = "leave", !.key = k]]
      \/ job' = [job EXCEPT ![t] = [job[t] EXCEPT !.pc = "leave", !.key = None, !.faulty = TRUE]]
  BY DEF Parse
<1>k. Subject(t) \in Rejected => k = ProperKey(Delta(t), Subject(t))
  BY DEF ProperKey
<1> HIDE DEF k
<1>5. /\ j \in JobRecord /\ j.pc = "leave" /\ j.todo = job[t].todo
      /\ j.kind = job[t].kind /\ j.keys = job[t].keys /\ j.found = job[t].found
      /\ j.program = job[t].program /\ j.delta = job[t].delta /\ j.back = job[t].back
      /\ j.problems = job[t].problems /\ j.edited = job[t].edited
      /\ job[t].faulty => j.faulty
      /\ j.key = k \/ (j.key = None /\ j.faulty)
      /\ job' = [job EXCEPT ![t] = j]
  <2> DEFINE r1 == [job[t] EXCEPT !.pc = "leave", !.key = k]
             r2 == [job[t] EXCEPT !.pc = "leave", !.key = None, !.faulty = TRUE]
  <2>1. t \in DOMAIN job /\ r1 \in JobRecord /\ r2 \in JobRecord
    BY <1>2, <1>3 DEF Inv, Shape, JobRecord
  <2>2. CASE job' = [job EXCEPT ![t] = r1]
    <3>1. j = r1
      BY <2>1, <2>2
    <3> QED
      BY <1>2, <2>1, <2>2, <3>1 DEF JobRecord
  <2>3. CASE job' = [job EXCEPT ![t] = r2]
    <3>1. j = r2
      BY <2>1, <2>3
    <3> QED
      BY <1>2, <2>1, <2>3, <3>1 DEF JobRecord
  <2> QED
    BY <1>4, <2>2, <2>3
<1>6. Subject(t)' = Subject(t) /\ Delta(t)' = Delta(t) /\ Gap(t)' = Gap(t)
  BY <1>1, <1>5 DEF Subject, Delta, Gap
<1>7. Facts(t)'
  <2>1. Placed(t)'
    BY <1>1, <1>2, <1>5, SameRegistry DEF Facts, Placed
  <2>2. Deriving(t)'
    BY <1>1, <1>2, <1>5, <1>6 DEF Facts, Deriving, Derives
  <2>3. Derived(t)'
    <3>1. j.faulty \/ j.edited \/ k = ProperKey(Delta(t), Subject(t))
      BY <1>1, <1>2, <1>5, <1>k DEF Facts, Deriving
    <3> QED
      BY <1>1, <1>2, <1>3, <1>5, <1>6, <3>1 DEF Derived
  <2>4. Compared(t)'
    BY <1>1, <1>2, <1>5 DEF Facts, Compared
  <2> QED
    BY <2>1, <2>2, <2>3, <2>4 DEF Facts
<1>8. /\ \A q \in Procs : q # ProcOf[t] => cwd'[q] = cwd[q] /\ lock'[q] = lock[q]
  BY <1>1
<1> HIDE DEF j
<1> QED
  BY <1>1, <1>5, <1>7, <1>8, SameRegistry, SameDirectory, ThreadMoves

LEMMA LeaveStep ==
  ASSUME Inv, NEW t \in Threads, Leave(t)
  PROVE  Inv'
<1> DEFINE p == ProcOf[t]
           j == [job[t] EXCEPT !.pc = "derived"]
<1>1. /\ job[t] # Idle /\ job[t].pc = "leave"
      /\ lock' = [lock EXCEPT ![p] = Free] /\ cwd' = [cwd EXCEPT ![p] = job[t].back]
      /\ job' = [job EXCEPT ![t] = j]
      /\ UNCHANGED <<repro, stored, cache, published, hit>>
  BY DEF Leave, At, Same
<1>2. job[t] \in JobRecord /\ p \in Procs /\ Facts(t)
  BY <1>1, JobFacts
<1>3. lock[p] = t /\ job[t].back = Home
  BY <1>1, <1>2 DEF Facts, Deriving, Derives
<1>4. /\ j \in JobRecord /\ j.pc = "derived" /\ j.todo = job[t].todo
      /\ j.kind = job[t].kind /\ j.keys = job[t].keys /\ j.found = job[t].found
      /\ j.program = job[t].program /\ j.delta = job[t].delta /\ j.key = job[t].key
      /\ j.problems = job[t].problems /\ j.edited = job[t].edited /\ j.faulty = job[t].faulty
  BY <1>2 DEF JobRecord
<1> HIDE DEF j
<1>5. job'[t] = j
  BY <1>1 DEF Inv, Shape
<1>6. /\ cwd' \in [Procs -> Programs \cup {Home}] /\ lock' \in [Procs -> Threads \cup {Free}]
      /\ cwd'[p] = Home
      /\ \A q \in Procs : q # p => cwd'[q] = cwd[q] /\ lock'[q] = lock[q]
  BY <1>1, <1>2, <1>3 DEF Inv, Shape, TypeOK
<1>7. Directory'
  BY <1>6 DEF Inv, Directory
<1>8. Facts(t)'
  <2>1. Subject(t)' = Subject(t) /\ Delta(t)' = Delta(t) /\ Gap(t)' = Gap(t)
    BY <1>1, <1>4, <1>5 DEF Subject, Delta, Gap
  <2>2. Placed(t)'
    BY <1>1, <1>2, <1>4, <1>5, SameRegistry DEF Facts, Placed
  <2>3. Deriving(t)'
    BY <1>4, <1>5 DEF Deriving, Derives
  <2>4. Derived(t)'
    BY <1>1, <1>2, <1>4, <1>5, <2>1 DEF Facts, Derived
  <2>5. Compared(t)'
    BY <1>1, <1>2, <1>4, <1>5 DEF Facts, Compared
  <2> QED
    BY <2>2, <2>3, <2>4, <2>5 DEF Facts
<1> QED
  BY <1>1, <1>3, <1>4, <1>6, <1>7, <1>8, SameRegistry, ThreadMoves

-----------------------------------------------------------------------------
(* What the keys are used for. *)

LEMMA MatchStep ==
  ASSUME Inv, NEW t \in Threads, Match(t)
  PROVE  Inv'
<1> DEFINE p == ProcOf[t]
           loaded == Loaded(p)
           found == Matches(loaded, job[t].key)
<1>1. /\ job[t] # Idle /\ job[t].pc = "derived" /\ job[t].kind = "match"
      /\ job' = [job EXCEPT ![t] = Idle]
      /\ UNCHANGED <<repro, stored, published>> /\ UNCHANGED <<cwd, lock>>
      /\ IF job[t].key = None THEN UNCHANGED <<cache, hit>>
         ELSE /\ cache' = [cache EXCEPT ![p] = loaded]
              /\ hit' = IF found = {} THEN hit
                        ELSE <<Gaps[Min(found)], job[t].program, job[t].delta>>
  BY DEF Match, At
<1>2. /\ p \in Procs /\ Facts(t) /\ loaded \in KeyMaps /\ Lawful(loaded)
  BY <1>1, JobFacts, LoadedFacts
<1>3. \A keys : Lawful(keys)' <=> Lawful(keys)
  BY <1>1 DEF Lawful
<1> HIDE DEF loaded
<1>4. /\ cache' \in [Procs -> KeyMaps \cup {None}]
      /\ \A q \in Procs : cache'[q] # None => Lawful(cache'[q])
  <2>1. /\ cache \in [Procs -> KeyMaps \cup {None}]
        /\ \A q \in Procs : cache[q] # None => Lawful(cache[q])
    BY DEF Inv, Shape, Registry
  <2> QED
    BY <1>1, <1>2, <2>1
<1>5. HitsAreCopies'
  <2>1. CASE hit' = hit
    BY <1>1, <2>1 DEF Inv, Registry, HitsAreCopies
  <2>2. CASE hit' # hit
    <3> DEFINE g == Gaps[Min(found)]
    <3>1. job[t].key # None /\ found # {} /\ hit' = <<g, job[t].program, job[t].delta>>
      BY <1>1, <2>2
    <3>2. found \in SUBSET Nat
      BY GapsFacts DEF Matches
    <3>3. Min(found) \in found
      <4> HIDE DEF found
      <4> QED
        BY <3>1, <3>2, MinFacts
    <3>4. g \in GapSet /\ g \in Open /\ loaded[g] # None /\ loaded[g] = job[t].key
      BY <3>3, GapsFacts DEF Matches
    <3> HIDE DEF g, found
    <3>5. loaded[g][1] = DeltaOf[g] /\ <<g, loaded[g][3]>> \in published
      BY <1>2, <3>4 DEF Lawful
    <3>6. job[t].key[1] = job[t].delta /\ job[t].key[3] = job[t].program
      BY <1>1, <1>2, <3>1 DEF Facts, Derived, Delta
    <3> QED
      BY <1>1, <3>1, <3>4, <3>5, <3>6 DEF HitsAreCopies
  <2> QED
    BY <2>1, <2>2
<1>6. Registry'
  BY <1>1, <1>3, <1>4, <1>5 DEF Inv, Registry
<1>7. stored' = Torn \/ stored' \in KeyMaps
  BY <1>1 DEF Inv, Shape, TypeOK
<1>8. \A q \in Procs : q # ProcOf[t] => cwd'[q] = cwd[q] /\ lock'[q] = lock[q]
  BY <1>1
<1> QED
  BY <1>1, <1>4, <1>6, <1>7, <1>8, SameDirectory, ThreadMoves

LEMMA ToIdleStep ==
  ASSUME Inv, NEW t \in Threads, job' = [job EXCEPT ![t] = Idle],
         UNCHANGED <<repro, stored, cache, published, hit>>, UNCHANGED <<cwd, lock>>
  PROVE  Inv'
<1>1. \A q \in Procs : q # ProcOf[t] => cwd'[q] = cwd[q] /\ lock'[q] = lock[q]
  OBVIOUS
<1> QED
  BY <1>1, SameRegistry, SameDirectory, ThreadMoves

LEMMA AdvanceStep ==
  ASSUME Inv, NEW t \in Threads, Advance(t)
  PROVE  Inv'
<1> DEFINE g == Gap(t)
           first == Min(job[t].todo)
           rest == job[t].todo \ {first}
           key == job[t].key
           drifted == job[t].kind = "check" /\ Drifts(g, job[t].keys, key)
           found == [job[t].found EXCEPT ![g] = key]
           problems == IF drifted THEN job[t].problems \cup {g} ELSE job[t].problems
           j == [job[t] EXCEPT !.todo = rest, !.found = found, !.problems = problems,
                               !.pc = IF rest = {} THEN "end" ELSE "lock"]
<1>1. /\ job[t] # Idle /\ job[t].pc = "derived" /\ job[t].kind # "match"
      /\ job' = [job EXCEPT ![t] = IF key = None THEN Idle ELSE j]
      /\ UNCHANGED <<repro, stored, cache, published, hit>> /\ UNCHANGED <<cwd, lock>>
  BY DEF Advance, At, Same, Proceed
<1>2. /\ job[t] \in JobRecord /\ Facts(t)
      /\ first \in job[t].todo /\ first \in Keyed /\ g = Gaps[first] /\ g \in GapSet
      /\ Subject(t) = repro[g] /\ Delta(t) = DeltaOf[g]
  BY <1>1, JobFacts
<1>3. CASE key = None
  BY <1>1, <1>3, ToIdleStep
<1>4. CASE key # None
  <2>1. /\ key[1] = DeltaOf[g] /\ <<g, key[3]>> \in published /\ key \in Keys
        /\ job[t].faulty \/ job[t].edited \/ key = ProperKey(DeltaOf[g], repro[g])
    BY <1>1, <1>2, <1>4 DEF Facts, Derived, JobRecord
  <2>2. found \in KeyMaps /\ Lawful(found)
    <3>1. job[t].found \in [GapSet -> Keys \cup {None}] /\ Lawful(job[t].found)
      BY <1>2 DEF JobRecord, KeyMaps, GapSet, Facts, Placed
    <3> HIDE DEF g, key
    <3>2. /\ found \in [GapSet -> Keys \cup {None}] /\ found[g] = key
          /\ \A h \in GapSet : h # g => found[h] = job[t].found[h]
      BY <1>2, <2>1, <3>1
    <3> HIDE DEF found
    <3> QED
      BY <2>1, <3>1, <3>2 DEF Lawful, KeyMaps, GapSet
  <2>3. rest \in SUBSET Keyed /\ problems \in SUBSET GapSet
    <3> HIDE DEF g, drifted
    <3> QED
      BY <1>2 DEF JobRecord
  <2>d. ~drifted => job[t].kind # "check" \/ job[t].keys[g] = key
    BY DEF Drifts
  <2>p. /\ job[t].problems \subseteq problems
        /\ drifted => g \in problems
    OBVIOUS
  <2> HIDE DEF found, rest, problems, g, first, key, drifted
  <2>4. /\ j \in JobRecord /\ j.pc = (IF rest = {} THEN "end" ELSE "lock") /\ j.todo = rest
        /\ j.kind = job[t].kind /\ j.keys = job[t].keys /\ j.found = found
        /\ j.problems = problems /\ j.edited = job[t].edited /\ j.faulty = job[t].faulty
    BY <1>2, <2>2, <2>3 DEF JobRecord
  <2> HIDE DEF j
  <2>5. job' = [job EXCEPT ![t] = j] /\ job'[t] = j
    BY <1>1, <1>4 DEF Inv, Shape
  <2>6. Placed(t)'
    BY <1>1, <1>2, <2>2, <2>4, <2>5, SameRegistry DEF Facts, Placed
  <2>7. Deriving(t)' /\ Derived(t)'
    BY <2>4, <2>5 DEF Deriving, Derived, Derives
  <2>8. Compared(t)'
    <3>1. SUFFICES ASSUME job[t].kind = "check", ~job[t].edited, ~job[t].faulty,
                          NEW i \in Keyed \ rest, Gaps[i] \notin problems
                   PROVE  job[t].keys[Gaps[i]] = ProperKey(DeltaOf[Gaps[i]], repro[Gaps[i]])
      BY <1>1, <2>4, <2>5 DEF Compared
    <3>2. CASE i = first
      BY <1>2, <2>1, <2>d, <2>p, <3>1, <3>2
    <3>3. CASE i # first
      <4>1. i \in Keyed \ job[t].todo /\ Gaps[i] \notin job[t].problems
        BY <2>p, <3>1, <3>3 DEF rest
      <4> QED
        BY <1>2, <3>1, <4>1 DEF Facts, Compared
    <3> QED
      BY <3>2, <3>3
  <2>9. \A q \in Procs : q # ProcOf[t] => cwd'[q] = cwd[q] /\ lock'[q] = lock[q]
    BY <1>1
  <2> QED
    BY <1>1, <2>4, <2>5, <2>6, <2>7, <2>8, <2>9, SameRegistry, SameDirectory, ThreadMoves
       DEF Facts
<1> QED
  BY <1>3, <1>4

LEMMA TruncateStep ==
  ASSUME Inv, NEW t \in Threads, Truncate(t)
  PROVE  Inv'
<1> DEFINE j == [job[t] EXCEPT !.pc = "write"]
<1>1. /\ job[t] # Idle /\ job[t].pc = "end" /\ job[t].kind = "rebuild" /\ stored' = Torn
      /\ job' = [job EXCEPT ![t] = j]
      /\ UNCHANGED <<repro, cache, published, hit>> /\ UNCHANGED <<cwd, lock>>
  BY DEF Truncate, At
<1>2. job[t] \in JobRecord /\ Facts(t)
  BY <1>1, JobFacts
<1>3. /\ j \in JobRecord /\ j.pc = "write" /\ j.todo = job[t].todo
      /\ j.kind = job[t].kind /\ j.keys = job[t].keys /\ j.found = job[t].found
  BY <1>2 DEF JobRecord
<1> HIDE DEF j
<1>4. job'[t] = j
  BY <1>1 DEF Inv, Shape
<1>5. \A keys : Lawful(keys)' <=> Lawful(keys)
  BY <1>1 DEF Lawful
<1>6. Registry' /\ cache' \in [Procs -> KeyMaps \cup {None}]
  BY <1>1, <1>5 DEF Inv, Shape, Registry, HitsAreCopies
<1>7. Facts(t)'
  BY <1>1, <1>2, <1>3, <1>4, <1>5 DEF Facts, Placed, Deriving, Derived, Compared, Derives
<1>8. \A q \in Procs : q # ProcOf[t] => cwd'[q] = cwd[q] /\ lock'[q] = lock[q]
  BY <1>1
<1> QED
  BY <1>1, <1>3, <1>6, <1>7, <1>8, SameDirectory, ThreadMoves

LEMMA WriteStep ==
  ASSUME Inv, NEW t \in Threads, Write(t)
  PROVE  Inv'
<1> DEFINE found == job[t].found
           p == ProcOf[t]
<1>1. /\ job[t] # Idle /\ job[t].pc = "write" /\ stored' = found
      /\ cache' = [cache EXCEPT ![p] = found] /\ job' = [job EXCEPT ![t] = Idle]
      /\ UNCHANGED <<repro, published, hit>> /\ UNCHANGED <<cwd, lock>>
  BY DEF Write, At
<1>2. found \in KeyMaps /\ Lawful(found) /\ p \in Procs
  BY <1>1, JobFacts DEF JobRecord, Facts, Placed
<1> HIDE DEF found
<1>3. \A keys : Lawful(keys)' <=> Lawful(keys)
  BY <1>1 DEF Lawful
<1>4. /\ cache' \in [Procs -> KeyMaps \cup {None}]
      /\ \A q \in Procs : cache'[q] # None => Lawful(cache'[q])
  BY <1>1, <1>2 DEF Inv, Shape, Registry
<1>5. Registry'
  BY <1>1, <1>2, <1>3, <1>4 DEF Inv, Registry, HitsAreCopies
<1>6. \A q \in Procs : q # ProcOf[t] => cwd'[q] = cwd[q] /\ lock'[q] = lock[q]
  BY <1>1
<1> QED
  BY <1>1, <1>2, <1>4, <1>5, <1>6, SameDirectory, ThreadMoves

-----------------------------------------------------------------------------
(* Jobs that begin, processes that die, repros that are edited. *)

LEMMA BeginStep ==
  ASSUME Inv, NEW t \in Threads, NEW kind \in {"match", "check", "rebuild"},
         NEW todo \in SUBSET Keyed, NEW keys \in KeyMaps, Lawful(keys),
         NEW program \in Programs \cup {None}, NEW delta \in Deltas \cup {None},
         kind = "match" => program \in Programs /\ delta \in Deltas,
         kind # "match" => todo = Keyed,
         Begin(t, Job(kind, todo, keys, program, delta)),
         cache' \in [Procs -> KeyMaps \cup {None}],
         \A p \in Procs : cache'[p] # None => Lawful(cache'[p])
  PROVE  Inv'
<1> DEFINE j == Job(kind, todo, keys, program, delta)
<1>1. /\ job' = [job EXCEPT ![t] = j]
      /\ UNCHANGED <<repro, stored, published, hit>> /\ UNCHANGED <<cwd, lock>>
  BY DEF Begin
<1>2. /\ j.pc = (IF kind # "match" /\ todo = {} THEN "end" ELSE "lock") /\ j.todo = todo
      /\ j.kind = kind /\ j.keys = keys /\ j.found = NoKeys
      /\ j.program = program /\ j.delta = delta /\ j.problems = {}
  BY DEF Job
<1>3. j \in JobRecord
  BY NoKeysFacts DEF Job, JobRecord
<1> HIDE DEF j
<1>4. job'[t] = j
  BY <1>1 DEF Inv, Shape
<1>5. \A m : Lawful(m)' <=> Lawful(m)
  BY <1>1 DEF Lawful
<1>6. Registry'
  BY <1>1, <1>5 DEF Inv, Registry, HitsAreCopies
<1>7. Facts(t)'
  <2>1. Placed(t)'
    BY <1>2, <1>4, <1>5, NoKeysFacts DEF Placed
  <2>2. Deriving(t)' /\ Derived(t)'
    BY <1>2, <1>4 DEF Deriving, Derived, Derives
  <2>3. Compared(t)'
    BY <1>2, <1>4 DEF Compared
  <2> QED
    BY <2>1, <2>2, <2>3 DEF Facts
<1>8. /\ \A q \in Procs : q # ProcOf[t] => cwd'[q] = cwd[q] /\ lock'[q] = lock[q]
      /\ stored' = Torn \/ stored' \in KeyMaps
  BY <1>1 DEF Inv, Shape, TypeOK
<1> QED
  BY <1>1, <1>3, <1>6, <1>7, <1>8, SameDirectory, ThreadMoves

LEMMA BeginsStep ==
  ASSUME Inv, NEW t \in Threads, BeginMatch(t) \/ BeginCheck(t) \/ BeginRebuild(t)
  PROVE  Inv'
<1>1. /\ cache \in [Procs -> KeyMaps \cup {None}] /\ ProcOf[t] \in Procs
      /\ \A p \in Procs : cache[p] # None => Lawful(cache[p])
      /\ None \in Programs \cup {None} /\ None \in Deltas \cup {None}
  BY RegistryAssumption DEF Inv, Shape, Registry
<1>2. CASE BeginMatch(t)
  <2>1. PICK program \in Programs, delta \in Deltas :
          Begin(t, Job("match", {}, NoKeys, program, delta)) /\ UNCHANGED cache
    BY <1>2 DEF BeginMatch
  <2>2. {} \in SUBSET Keyed /\ program \in Programs \cup {None} /\ delta \in Deltas \cup {None}
    OBVIOUS
  <2>3. /\ cache' \in [Procs -> KeyMaps \cup {None}]
        /\ \A p \in Procs : cache'[p] # None => Lawful(cache'[p])
    BY <1>1, <2>1
  <2> QED
    BY <2>1, <2>2, <2>3, NoKeysFacts, BeginStep
<1>3. CASE BeginCheck(t)
  <2> DEFINE loaded == Loaded(ProcOf[t])
  <2>1. /\ Begin(t, Job("check", Keyed, loaded, None, None))
        /\ cache' = [cache EXCEPT ![ProcOf[t]] = loaded]
    BY <1>3 DEF BeginCheck
  <2>2. loaded \in KeyMaps /\ Lawful(loaded)
    BY <1>1, LoadedFacts
  <2> HIDE DEF loaded
  <2>3. /\ cache' \in [Procs -> KeyMaps \cup {None}]
        /\ \A p \in Procs : cache'[p] # None => Lawful(cache'[p])
    BY <1>1, <2>1, <2>2
  <2> QED
    BY <1>1, <2>1, <2>2, <2>3, BeginStep
<1>4. CASE BeginRebuild(t)
  <2>1. Begin(t, Job("rebuild", Keyed, NoKeys, None, None)) /\ UNCHANGED cache
    BY <1>4 DEF BeginRebuild
  <2>2. /\ cache' \in [Procs -> KeyMaps \cup {None}]
        /\ \A p \in Procs : cache'[p] # None => Lawful(cache'[p])
    BY <1>1, <2>1
  <2> QED
    BY <1>1, <2>1, <2>2, NoKeysFacts, BeginStep
<1> QED
  BY <1>2, <1>3, <1>4

LEMMA DieStep ==
  ASSUME Inv, NEW t \in Threads, DieWriting(t)
  PROVE  Inv'
<1> DEFINE p == ProcOf[t]
<1>1. /\ cache' = [cache EXCEPT ![p] = None] /\ cwd' = [cwd EXCEPT ![p] = Home]
      /\ lock' = [lock EXCEPT ![p] = Free]
      /\ job' = [u \in Threads |-> IF ProcOf[u] = p THEN Idle ELSE job[u]]
      /\ UNCHANGED <<repro, stored, published, hit>> /\ p \in Procs
  BY RegistryAssumption DEF DieWriting
<1>2. \A keys : Lawful(keys)' <=> Lawful(keys)
  BY <1>1 DEF Lawful
<1>3. /\ cache' \in [Procs -> KeyMaps \cup {None}]
      /\ \A q \in Procs : cache'[q] # None => Lawful(cache'[q])
      /\ cwd' \in [Procs -> Programs \cup {Home}] /\ lock' \in [Procs -> Threads \cup {Free}]
      /\ \A q \in Procs : q # p => cwd'[q] = cwd[q] /\ lock'[q] = lock[q]
      /\ cwd'[p] = Home
  BY <1>1 DEF Inv, Shape, TypeOK, Registry
<1>4. Registry' /\ Directory'
  BY <1>1, <1>2, <1>3 DEF Inv, Registry, Directory, HitsAreCopies
<1>5. /\ job' \in [Threads -> {Idle} \cup JobRecord]
      /\ \A u \in Threads : job'[u] # Idle => job'[u] = job[u] /\ ProcOf[u] # p
  BY <1>1 DEF Inv, Shape
<1>6. \A u \in Threads : job'[u] = Idle \/ job'[u].key \in Keys \cup {None}
  <2>1. \A u \in Threads : job'[u] # Idle => job'[u] \in JobRecord
    BY <1>5
  <2> QED
    BY <2>1 DEF JobRecord
<1>7. TypeOK'
  BY <1>1, <1>3, <1>6 DEF Inv, Shape, TypeOK
<1>8. ASSUME NEW u \in Threads, job'[u] # Idle  PROVE Facts(u)'
  <2>1. job'[u] = job[u] /\ job[u] # Idle /\ ProcOf[u] # p /\ ProcOf[u] \in Procs
    BY <1>5, <1>8, RegistryAssumption
  <2> QED
    BY <1>1, <1>3, <2>1, KeepFacts
<1> QED
  BY <1>3, <1>4, <1>5, <1>7, <1>8 DEF Inv, Shape

LEMMA EditStep ==
  ASSUME Inv, Edit
  PROVE  Inv'
<1>1. PICK i0 \in Keyed, program \in Programs :
        /\ repro' = [repro EXCEPT ![Gaps[i0]] = program]
        /\ published' = published \cup {<<Gaps[i0], program>>}
        /\ job' = [t \in Threads |-> IF job[t] = Idle THEN Idle ELSE [job[t] EXCEPT !.edited = TRUE]]
        /\ UNCHANGED <<stored, cache, cwd, lock, hit>>
  BY DEF Edit
<1> DEFINE g == Gaps[i0]
<1>2. g \in GapSet /\ g \in ToSet(Gaps)
  BY GapsFacts DEF GapSet
<1>3. \A keys : Lawful(keys) => Lawful(keys)'
  BY <1>1 DEF Lawful
<1>4. /\ repro \in [GapSet -> Programs] /\ repro' \in [GapSet -> Programs]
      /\ \A h \in GapSet : repro'[h] = IF h = g THEN program ELSE repro[h]
  BY <1>1, <1>2 DEF Inv, Shape, TypeOK, GapSet
<1>5. Registry'
  <2>1. \A i \in Keyed : <<Gaps[i], repro'[Gaps[i]]>> \in published'
    BY <1>1, <1>4, GapsFacts DEF Inv, Registry
  <2>2. HitsAreCopies'
    BY <1>1 DEF Inv, Registry, HitsAreCopies
  <2> QED
    BY <1>1, <1>3, <2>1, <2>2 DEF Inv, Registry
<1>6. ASSUME NEW t \in Threads, job[t] # Idle
      PROVE  /\ job'[t] \in JobRecord /\ job'[t].edited
             /\ job'[t].kind = job[t].kind /\ job'[t].pc = job[t].pc
             /\ job'[t].todo = job[t].todo /\ job'[t].keys = job[t].keys
             /\ job'[t].found = job[t].found /\ job'[t].program = job[t].program
             /\ job'[t].delta = job[t].delta /\ job'[t].back = job[t].back
             /\ job'[t].key = job[t].key
  <2>1. job[t] \in JobRecord
    BY <1>6 DEF Inv, Shape
  <2>2. job'[t] = [job[t] EXCEPT !.edited = TRUE]
    BY <1>1, <1>6
  <2> QED
    BY <2>1, <2>2 DEF JobRecord
<1>7. \A t \in Threads : job[t] = Idle => job'[t] = Idle
  BY <1>1
<1>8. Shape'
  <2>1. job' \in [Threads -> {Idle} \cup JobRecord]
    <3>1. \A t \in Threads : job'[t] \in {Idle} \cup JobRecord
      BY <1>6, <1>7
    <3>2. job' = [t \in Threads |-> job'[t]]
      BY <1>1
    <3> QED
      BY <3>1, <3>2
  <2>2. \A t \in Threads : job'[t] = Idle \/ job'[t].key \in Keys \cup {None}
    BY <1>6, <1>7 DEF JobRecord
  <2>3. TypeOK'
    BY <1>1, <1>2, <1>4, <2>2 DEF Inv, Shape, TypeOK, GapSet
  <2> QED
    BY <1>1, <2>1, <2>3 DEF Inv, Shape
<1>9. Directory'
  BY <1>1 DEF Inv, Directory
<1>10. ASSUME NEW t \in Threads, job'[t] # Idle  PROVE Facts(t)'
  <2>1. job[t] # Idle /\ Facts(t)
    BY <1>7, <1>10 DEF Inv
  <2>2. Gap(t)' = Gap(t) /\ Delta(t)' = Delta(t)
    BY <1>6, <2>1 DEF Gap, Delta
  <2>3. Placed(t)'
    BY <1>3, <1>6, <2>1 DEF Facts, Placed
  <2>4. Deriving(t)'
    BY <1>1, <1>6, <2>1 DEF Facts, Deriving, Derives
  <2>5. Derived(t)'
    BY <1>1, <1>6, <2>1, <2>2, SMTT(30) DEF Facts, Derived
  <2>6. Compared(t)'
    BY <1>6, <2>1 DEF Compared
  <2> QED
    BY <2>3, <2>4, <2>5, <2>6 DEF Facts
<1> QED
  BY <1>5, <1>8, <1>9, <1>10 DEF Inv

-----------------------------------------------------------------------------
(* The invariant. *)

LEMMA InvInit == Init => Inv
<1> SUFFICES ASSUME Init PROVE Inv
  OBVIOUS
<1>1. /\ repro = ReproOf /\ cwd = [p \in Procs |-> Home] /\ lock = [p \in Procs |-> Free]
      /\ cache = [p \in Procs |-> None] /\ job = [t \in Threads |-> Idle] /\ hit = None
      /\ published = {<<g, ReproOf[g]>> : g \in GapSet \ NoRepro}
      /\ stored = [g \in GapSet |->
                     IF g \in NoRepro THEN None
                     ELSE Key(DeltaOf[g], IF ReproOf[g] \in Rejected THEN "parse" ELSE "full",
                              ReproOf[g])]
  BY DEF Init, GapSet
<1>2. /\ ReproOf \in [GapSet -> Programs] /\ DeltaOf \in [GapSet -> Deltas]
  BY RegistryAssumption DEF GapSet
<1>3. ASSUME NEW g \in GapSet
      PROVE  /\ stored[g] \in Keys \cup {None}
             /\ stored[g] # None => stored[g][1] = DeltaOf[g] /\ <<g, stored[g][3]>> \in published
  <2>1. CASE g \in NoRepro
    BY <1>1, <2>1
  <2>2. CASE g \notin NoRepro
    <3> DEFINE mode == IF ReproOf[g] \in Rejected THEN "parse" ELSE "full"
    <3>1. stored[g] = Key(DeltaOf[g], mode, ReproOf[g]) /\ mode \in {"full", "parse"}
      BY <1>1, <2>2
    <3>2. DeltaOf[g] \in Deltas /\ ReproOf[g] \in Programs
      BY <1>2
    <3> HIDE DEF mode
    <3>3. stored[g] \in Keys /\ stored[g][1] = DeltaOf[g] /\ stored[g][3] = ReproOf[g]
      BY <3>1, <3>2, KeyFacts
    <3> QED
      BY <1>1, <2>2, <3>3
  <2> QED
    BY <2>1, <2>2
<1>4. stored \in KeyMaps /\ Lawful(stored)
  <2>1. stored = [g \in GapSet |-> stored[g]]
    BY <1>1
  <2> QED
    BY <1>3, <2>1 DEF KeyMaps, GapSet, Lawful
<1>5. \A i \in Keyed : <<Gaps[i], repro[Gaps[i]]>> \in published
  BY <1>1, GapsFacts
<1>6. Registry
  BY <1>1, <1>4, <1>5 DEF Registry, HitsAreCopies
<1>7. published \subseteq GapSet \X Programs
  BY <1>1, <1>2
<1>8. Shape
  BY <1>1, <1>2, <1>4, <1>7 DEF Shape, TypeOK, GapSet
<1>9. Directory
  BY <1>1 DEF Directory
<1> QED
  BY <1>1, <1>6, <1>8, <1>9 DEF Inv

LEMMA InvStep == Inv /\ [Next]_vars => Inv'
<1> SUFFICES ASSUME Inv, [Next]_vars PROVE Inv'
  OBVIOUS
<1>1. ASSUME NEW t \in Threads, Step(t)  PROVE Inv'
  <2>1. CASE Enter(t)
    BY <2>1, EnterStep
  <2>2. CASE Analyze(t)
    BY <2>2, AnalyzeStep
  <2>3. CASE Parse(t)
    BY <2>3, ParseStep
  <2>4. CASE Leave(t)
    BY <2>4, LeaveStep
  <2>5. CASE Match(t)
    BY <2>5, MatchStep
  <2>6. CASE Advance(t)
    BY <2>6, AdvanceStep
  <2>7. CASE EndCheck(t)
    BY <2>7, ToIdleStep DEF EndCheck, Same
  <2>8. CASE Truncate(t)
    BY <2>8, TruncateStep
  <2>9. CASE Write(t)
    BY <2>9, WriteStep
  <2> QED
    BY <1>1, <2>1, <2>2, <2>3, <2>4, <2>5, <2>6, <2>7, <2>8, <2>9 DEF Step
<1>2. CASE UNCHANGED vars
  <2>1. /\ UNCHANGED <<repro, stored, cache, published, hit>> /\ UNCHANGED <<cwd, lock, job>>
    BY <1>2 DEF vars
  <2>2. Shape'
    BY <2>1 DEF Inv, Shape, TypeOK
  <2>3. \A t \in Threads : job'[t] # Idle => Facts(t)'
    BY <2>1, KeepFacts
  <2> QED
    BY <2>1, <2>2, <2>3, SameRegistry, SameDirectory DEF Inv
<1> QED
  BY <1>1, <1>2, EditStep, DieStep, BeginsStep DEF Next

-----------------------------------------------------------------------------
(* A submission that is marked a duplicate is the repro some open gap has or had,
   in the same delta class, whatever was edited, rebuilt, cached or torn. *)
THEOREM DuplicatesAreCopies == Spec => []HitsAreCopies
<1>1. Inv => HitsAreCopies
  BY DEF Inv, Registry
<1> QED
  BY <1>1, InvInit, InvStep, PTL DEF Spec

(* Keys are derived as if each thread were alone, and who asks for a path while
   no key is derived finds its process where it was started (_CHDIR_LOCK). *)
THEOREM DerivationsApart == Spec => []DerivationsAreApart
<1>1. ASSUME Inv  PROVE DerivationsAreApart
  <2>1. TypeOK /\ Directory
    BY <1>1 DEF Inv, Shape
  <2>2. \A t \in Threads : job[t] # Idle => Derived(t)
    BY <1>1 DEF Inv, Facts
  <2> QED
    BY <2>1, <2>2 DEF DerivationsAreApart, Derived, Directory
<1> QED
  BY <1>1, InvInit, InvStep, PTL DEF Spec

(* A check that reports nothing compared every gap's stored key with the right
   one, if nothing failed and nothing was edited while it ran. *)
THEOREM CleanChecks == Spec => []CleanCheckIsRight
<1>1. ASSUME Inv  PROVE CleanCheckIsRight
  <2>1. SUFFICES ASSUME NEW t \in Threads, At(t, "end"), job[t].kind = "check",
                        job[t].problems = {}, ~job[t].edited, ~job[t].faulty,
                        NEW i \in Keyed
                 PROVE  job[t].keys[Gaps[i]] = ProperKey(DeltaOf[Gaps[i]], repro[Gaps[i]])
    BY DEF CleanCheckIsRight
  <2>2. Placed(t) /\ Compared(t) /\ job[t].pc = "end"
    BY <1>1, <2>1 DEF Inv, Facts, At
  <2>3. job[t].todo = {}
    BY <2>1, <2>2 DEF Placed
  <2> QED
    BY <2>1, <2>2, <2>3 DEF Compared
<1> QED
  BY <1>1, InvInit, InvStep, PTL DEF Spec

-----------------------------------------------------------------------------
(* The replay of a pool.                                                   *)

Item(i) == ReplayAgainstReference(pool[i])
ClassOf(i) == Bucket(Item(i))

(* A class has its members in their order, and every item that has a class is
   in it. *)
Lists(filed) == \A k \in DOMAIN filed : filed[k] \in Seq(Ids) /\ Len(filed[k]) >= 1
Members(filed, n) ==
  \A k \in DOMAIN filed : \A m \in 1 .. Len(filed[k]) :
    \E i \in 1 .. n : filed[k][m] = pool[i].id /\ ClassOf(i) = k /\ k # <<>>
Complete(filed, n) ==
  \A i \in 1 .. n : ClassOf(i) # <<>> =>
    /\ ClassOf(i) \in DOMAIN filed
    /\ \E m \in 1 .. Len(filed[ClassOf(i)]) : filed[ClassOf(i)][m] = pool[i].id
InOrder(filed, n) ==
  \A k \in DOMAIN filed : \A m1, m2 \in 1 .. Len(filed[k]) : \A i, j \in 1 .. n :
    m1 < m2 /\ filed[k][m1] = pool[i].id /\ filed[k][m2] = pool[j].id => i < j
Filed(filed, n) == Lists(filed) /\ Members(filed, n) /\ Complete(filed, n) /\ InOrder(filed, n)

BatchInv ==
  /\ IsPool(pool)
  /\ items \in Seq({ReplayAgainstReference(s) : s \in Submission})
  /\ Len(items) <= Len(pool) /\ \A i \in 1 .. Len(items) : items[i] = Item(i)
  /\ collapsed \in 0 .. Len(items)
  /\ Filed(classes, collapsed)
  /\ \A report \in printed :
       Len(items) = Len(pool) /\ collapsed = Len(pool) /\ report = SummarizeBatch

(* What a replay keeps of its submission (replay_against_reference). *)
LEMMA ReplayClass ==
  ASSUME NEW s \in Submission
  PROVE  LET item == ReplayAgainstReference(s)
         IN /\ item.id = s.id
            /\ item.class \in {"not-in-pool", "inconclusive", "duplicate", "novel", "shifted"}
            /\ Bucket(item) =
                 IF item.class \in {"duplicate", "not-in-pool"} THEN <<>>
                 ELSE IF item.class = "inconclusive" THEN <<"review", s.id>> ELSE <<"finding", item.key>>
<1> DEFINE e0 == Report(s, CurrentDefects, s.e0)
           e1 == IF Qualifies(e0) THEN Report(s, ReferenceDefects, s.e1) ELSE e0
           key == IF Qualifies(e1) THEN e1.key ELSE e0.key
           item == ReplayAgainstReference(s)
<1>1. item = [id |-> s.id, class |-> ClassifyDedup(e0, e1), key |-> key]
  BY DEF ReplayAgainstReference
<1> HIDE DEF e0, e1, key
<1>2. ClassifyDedup(e0, e1) \in {"not-in-pool", "inconclusive", "duplicate", "novel", "shifted"}
  BY DEF ClassifyDedup
<1> QED
  BY <1>1, <1>2 DEF Bucket

(* A duplicate is closed (classify_dedup). *)
LEMMA DuplicateClosed ==
  ASSUME NEW s \in Submission, ReplayAgainstReference(s).class = "duplicate"
  PROVE  /\ Trips(s, ReferenceDefects) = {} \/ (s.lane = "over_accept" /\ s.e1 # "none")
         /\ Trips(s, CurrentDefects) # {} \/ s.e0 = "killed"
  BY DEF ReplayAgainstReference, ClassifyDedup, Qualifies, IsInconclusive,
    Report, Submission

LEMMA SurvivorKept ==
  ASSUME NEW s \in Submission, Untroubled(s),
         Trips(s, CurrentDefects \cap ReferenceDefects) # {}
  PROVE  ReplayAgainstReference(s).class \in {"novel", "shifted"}
<1>1. Trips(s, CurrentDefects) # {} /\ Trips(s, ReferenceDefects) # {}
  BY DEF Trips
<1> QED
  BY <1>1 DEF ReplayAgainstReference, ClassifyDedup, Qualifies, IsInconclusive,
    Report, Submission, Untroubled

LEMMA TimeoutReviewed ==
  ASSUME NEW s \in Submission, s.lane # "over_accept", s.e0 = "none", s.e1 = "timeout",
         Trips(s, CurrentDefects) # {}
  PROVE  ReplayAgainstReference(s).class = "inconclusive"
  BY DEF ReplayAgainstReference, ClassifyDedup, Qualifies, IsInconclusive,
    Report, Submission

LEMMA CopiesAlike ==
  ASSUME NEW s \in Submission, NEW t \in Submission,
         Untroubled(s), Untroubled(t),
         s.lane = t.lane, s.defects = t.defects, s.feature = t.feature
  PROVE  /\ ReplayAgainstReference(s).class = ReplayAgainstReference(t).class
         /\ ReplayAgainstReference(s).key = ReplayAgainstReference(t).key
<1>1. \A engine : Trips(s, engine) = Trips(t, engine)
  BY DEF Trips
<1>2. \A engine : Differing(s, engine) = Differing(t, engine)
  <2> SUFFICES ASSUME NEW engine PROVE Differing(s, engine) = Differing(t, engine)
    OBVIOUS
  <2> DEFINE First(T) == Component[CHOOSE d \in T : \A e \in T : d <= e]
  <2>1. Differing(s, engine) = First(Trips(s, engine))
    BY DEF Differing
  <2>2. Differing(t, engine) = First(Trips(t, engine))
    BY DEF Differing
  <2> HIDE DEF First
  <2> QED
    BY <1>1, <2>1, <2>2
<1>3. \A engine : Report(s, engine, "none") = Report(t, engine, "none")
  BY <1>1, <1>2 DEF Report, FingerprintKey, SoundnessFingerprint
<1> QED
  BY <1>3 DEF ReplayAgainstReference, Untroubled

(* Filing the next item keeps the classes what they are (collapse_classes). *)
LEMMA JoinFiles ==
  ASSUME BatchInv, Collapse
  PROVE  Filed(classes', collapsed + 1)
<1> DEFINE n == collapsed + 1
           b == ClassOf(n)
           id == pool[n].id
<1>1. /\ n \in 1 .. Len(pool) /\ collapsed \in Nat /\ n = collapsed + 1
      /\ 1 .. n = (1 .. collapsed) \cup {n} /\ id \in Ids
  <2>1. Len(pool) \in Nat /\ DOMAIN pool = 1 .. Len(pool) /\ pool \in Seq(Submission)
    BY DEF BatchInv, IsPool
  <2>2. n \in 1 .. Len(pool) /\ collapsed \in Nat
    BY <2>1 DEF BatchInv, Collapse
  <2>3. pool[n] \in Submission
    BY <2>1, <2>2
  <2>4. pool[n].id \in Ids
    BY <2>3 DEF Submission
  <2> QED
    BY <2>2, <2>4
<1>2. classes' = IF b = <<>> THEN classes ELSE Join(b, id)
  <2>1. items[n] = Item(n)
    BY DEF BatchInv, Collapse, IsPool
  <2>2. pool[n] \in Submission
    BY <1>1 DEF BatchInv, IsPool
  <2>3. items[n].id = id
    BY <2>1, <2>2, ReplayClass DEF Item
  <2> QED
    BY <2>1, <2>3 DEF Collapse, ClassOf
<1>3. \A i, j \in 1 .. n : pool[i].id = pool[j].id => i = j
  BY <1>1 DEF BatchInv, IsPool
<1>4. Lists(classes) /\ Members(classes, collapsed) /\ Complete(classes, collapsed) /\ InOrder(classes, collapsed)
  BY DEF BatchInv, Filed
<1>5. b = ClassOf(n)
  OBVIOUS
<1> HIDE DEF b, n
<1>6. CASE b = <<>>
  <2>1. classes' = classes
    BY <1>2, <1>6
  <2>2. Members(classes, n)
    BY <1>1, <1>4 DEF Members
  <2>3. Complete(classes, n)
    BY <1>1, <1>4, <1>5, <1>6 DEF Complete
  <2>4. InOrder(classes, n)
    BY <1>1, <1>3, <1>4 DEF InOrder, Members
  <2> QED
    BY <1>4, <2>1, <2>2, <2>3, <2>4 DEF Filed, n
<1>7. CASE b # <<>>
  <2> DEFINE old == IF b \in DOMAIN classes THEN classes[b] ELSE <<>>
  <2>1. /\ DOMAIN classes' = DOMAIN classes \cup {b}
        /\ \A k \in DOMAIN classes : k # b => classes'[k] = classes[k]
        /\ classes'[b] = IF b \in DOMAIN classes THEN Append(classes[b], id) ELSE <<id>>
    BY <1>2, <1>7 DEF Join
  <2>2. old \in Seq(Ids)
    BY <1>4 DEF Lists
  <2>3. classes'[b] = Append(old, id)
    <3>1. CASE b \in DOMAIN classes
      BY <2>1, <3>1
    <3>2. CASE b \notin DOMAIN classes
      <4>1. Append(<<>>, id) = <<id>>
        OBVIOUS
      <4> QED
        BY <2>1, <3>2, <4>1
    <3> QED
      BY <3>1, <3>2
  <2>4. \A m \in 1 .. Len(old) : \E i \in 1 .. collapsed : old[m] = pool[i].id /\ ClassOf(i) = b
    BY <1>4 DEF Members
  <2>5. \A i \in 1 .. collapsed : ClassOf(i) = b => \E m \in 1 .. Len(old) : old[m] = pool[i].id
    BY <1>4, <1>7 DEF Complete
  <2>6. \A m1, m2 \in 1 .. Len(old) : \A i, j \in 1 .. collapsed :
          m1 < m2 /\ old[m1] = pool[i].id /\ old[m2] = pool[j].id => i < j
    BY <1>4 DEF InOrder
  <2> HIDE DEF old
  <2>7. /\ classes'[b] \in Seq(Ids) /\ Len(classes'[b]) = Len(old) + 1 /\ Len(old) \in Nat
        /\ \A m \in 1 .. Len(old) : classes'[b][m] = old[m]
        /\ classes'[b][Len(old) + 1] = id
    BY <1>1, <2>2, <2>3
  <2>8. Lists(classes')
    <3> SUFFICES ASSUME NEW k \in DOMAIN classes'
                 PROVE  classes'[k] \in Seq(Ids) /\ Len(classes'[k]) >= 1
      BY DEF Lists
    <3>1. CASE k = b
      BY <2>7, <3>1
    <3>2. CASE k # b
      BY <1>4, <2>1, <3>2 DEF Lists
    <3> QED
      BY <3>1, <3>2
  <2>9. Members(classes', n)
    <3> SUFFICES ASSUME NEW k \in DOMAIN classes', NEW m \in 1 .. Len(classes'[k])
                 PROVE  \E i \in 1 .. n : classes'[k][m] = pool[i].id /\ ClassOf(i) = k /\ k # <<>>
      BY DEF Members
    <3>1. CASE k # b
      BY <1>1, <1>4, <2>1, <3>1 DEF Members
    <3>2. CASE k = b /\ m = Len(old) + 1
      BY <1>1, <1>5, <1>7, <2>7, <3>2
    <3>3. CASE k = b /\ m # Len(old) + 1
      <4>1. m \in 1 .. Len(old) /\ classes'[k][m] = old[m]
        BY <2>7, <3>3
      <4> QED
        BY <1>1, <1>7, <2>4, <3>3, <4>1
    <3> QED
      BY <3>1, <3>2, <3>3
  <2>10. Complete(classes', n)
    <3> SUFFICES ASSUME NEW i \in 1 .. n, ClassOf(i) # <<>>
                 PROVE  /\ ClassOf(i) \in DOMAIN classes'
                        /\ \E m \in 1 .. Len(classes'[ClassOf(i)]) : classes'[ClassOf(i)][m] = pool[i].id
      BY DEF Complete
    <3>1. CASE i = n
      BY <1>5, <2>1, <2>7, <3>1
    <3>2. CASE i # n /\ ClassOf(i) = b
      <4>1. PICK m \in 1 .. Len(old) : old[m] = pool[i].id
        BY <1>1, <2>5, <3>2
      <4>2. m \in 1 .. Len(classes'[b]) /\ classes'[b][m] = pool[i].id
        BY <2>7, <4>1
      <4> QED
        BY <2>1, <3>2, <4>2
    <3>3. CASE i # n /\ ClassOf(i) # b
      <4>1. i \in 1 .. collapsed
        BY <1>1, <3>3
      <4>2. /\ ClassOf(i) \in DOMAIN classes
            /\ \E m \in 1 .. Len(classes[ClassOf(i)]) : classes[ClassOf(i)][m] = pool[i].id
        BY <1>4, <4>1 DEF Complete
      <4> QED
        BY <2>1, <3>3, <4>2
    <3> QED
      BY <3>1, <3>2, <3>3
  <2>11. InOrder(classes', n)
    <3> SUFFICES ASSUME NEW k \in DOMAIN classes', NEW m1 \in 1 .. Len(classes'[k]),
                        NEW m2 \in 1 .. Len(classes'[k]), NEW i \in 1 .. n, NEW j \in 1 .. n,
                        m1 < m2, classes'[k][m1] = pool[i].id, classes'[k][m2] = pool[j].id
                 PROVE  i < j
      BY DEF InOrder
    <3>1. CASE k # b
      <4>1. /\ k \in DOMAIN classes /\ m1 \in 1 .. Len(classes[k]) /\ m2 \in 1 .. Len(classes[k])
            /\ classes[k][m1] = pool[i].id /\ classes[k][m2] = pool[j].id
        BY <2>1, <3>1
      <4>2. PICK i1 \in 1 .. collapsed : classes[k][m1] = pool[i1].id
        BY <1>4, <4>1 DEF Members
      <4>3. PICK j1 \in 1 .. collapsed : classes[k][m2] = pool[j1].id
        BY <1>4, <4>1 DEF Members
      <4>4. i \in 1 .. collapsed /\ j \in 1 .. collapsed
        BY <1>1, <1>3, <4>1, <4>2, <4>3
      <4> QED
        BY <1>4, <4>1, <4>4 DEF InOrder
    <3>2. CASE k = b /\ m2 # Len(old) + 1
      <4>1. m1 \in 1 .. Len(old) /\ m2 \in 1 .. Len(old) /\ old[m1] = pool[i].id /\ old[m2] = pool[j].id
        BY <2>7, <3>2
      <4>2. PICK i1 \in 1 .. collapsed : old[m1] = pool[i1].id
        BY <2>4, <4>1
      <4>3. PICK j1 \in 1 .. collapsed : old[m2] = pool[j1].id
        BY <2>4, <4>1
      <4>4. i \in 1 .. collapsed /\ j \in 1 .. collapsed
        BY <1>1, <1>3, <4>1, <4>2, <4>3
      <4> QED
        BY <2>6, <4>1, <4>4
    <3>3. CASE k = b /\ m2 = Len(old) + 1
      <4>1. m1 \in 1 .. Len(old) /\ old[m1] = pool[i].id
        BY <2>7, <3>3
      <4>2. PICK i1 \in 1 .. collapsed : old[m1] = pool[i1].id
        BY <2>4, <4>1
      <4>3. i \in 1 .. collapsed
        BY <1>1, <1>3, <4>1, <4>2
      <4>4. j = n
        BY <1>1, <1>3, <2>7, <3>3
      <4> QED
        BY <1>1, <4>3, <4>4
    <3> QED
      BY <3>1, <3>2, <3>3
  <2> QED
    BY <2>8, <2>9, <2>10, <2>11 DEF Filed, n
<1> QED
  BY <1>6, <1>7

(* What is said of the classes is said of the pool and them only. *)
LEMMA FiledStays ==
  ASSUME pool' = pool, Filed(classes', collapsed')
  PROVE  Filed(classes, collapsed)' /\ \A i : Item(i)' = Item(i)
<1>1. \A i : Item(i)' = Item(i) /\ ClassOf(i)' = ClassOf(i)
  BY DEF Item, ClassOf
<1>2. /\ Lists(classes)' /\ Members(classes, collapsed)' /\ Complete(classes, collapsed)'
      /\ InOrder(classes, collapsed)'
  BY <1>1 DEF Filed, Lists, Members, Complete, InOrder
<1> QED
  BY <1>1, <1>2 DEF Filed

LEMMA BatchInvariant == BatchSpec => []BatchInv
<1>1. BatchInit => BatchInv
  <2> SUFFICES ASSUME BatchInit PROVE BatchInv
    OBVIOUS
  <2>1. /\ pool = <<>> /\ items = <<>> /\ classes = [key \in {} |-> <<>>]
        /\ collapsed = 0 /\ printed = {}
    BY DEF BatchInit
  <2>2. Filed(classes, 0)
    BY <2>1 DEF Filed, Lists, Members, Complete, InOrder
  <2>3. IsPool(pool) /\ Len(pool) \in Nat
    BY <2>1 DEF IsPool
  <2> QED
    BY <2>1, <2>2, <2>3 DEF BatchInv
<1>2. BatchInv /\ [BatchNext]_batchVars => BatchInv'
  <2> SUFFICES ASSUME BatchInv, [BatchNext]_batchVars PROVE BatchInv'
    OBVIOUS
  <2>1. CASE Replay
    <3> DEFINE n == Len(items) + 1
               replays == {ReplayAgainstReference(s) : s \in Submission}
    <3>1. pool' = pool /\ classes' = classes /\ collapsed' = collapsed /\ printed' = printed
          /\ items' = Append(items, Item(n)) /\ Len(items) < Len(pool)
      BY <2>1 DEF Replay, Item
    <3>2. /\ items \in Seq(replays) /\ Len(items) \in Nat /\ Len(pool) \in Nat /\ n \in DOMAIN pool
          /\ pool \in Seq(Submission)
      BY <3>1 DEF BatchInv, IsPool
    <3>3. Item(n) \in replays
      <4>1. pool[n] \in Submission
        BY <3>2
      <4> QED
        BY <4>1 DEF Item
    <3> HIDE DEF replays
    <3>4. items' \in Seq(replays) /\ Len(items') = n
      BY <3>1, <3>2, <3>3
    <3>5. \A i \in 1 .. n : items'[i] = Item(i)
      BY <3>1, <3>2, <3>3 DEF BatchInv
    <3>6. printed = {}
      BY <3>1, <3>2 DEF BatchInv
    <3>7. Filed(classes, collapsed)' /\ \A i : Item(i)' = Item(i)
      BY <3>1, FiledStays DEF BatchInv
    <3>8. collapsed \in 0 .. n /\ n <= Len(pool)
      BY <3>1, <3>2 DEF BatchInv
    <3> QED
      BY <3>1, <3>4, <3>5, <3>6, <3>7, <3>8 DEF BatchInv, replays
  <2>2. CASE Collapse
    <3>1. /\ pool' = pool /\ items' = items /\ printed' = printed /\ collapsed' = collapsed + 1
          /\ Len(items) = Len(pool) /\ collapsed < Len(items)
      BY <2>2 DEF Collapse
    <3>2. Filed(classes', collapsed + 1)
      BY <2>2, JoinFiles
    <3>3. Filed(classes, collapsed)' /\ \A i : Item(i)' = Item(i)
      BY <3>1, <3>2, FiledStays
    <3>4. printed = {} /\ collapsed + 1 \in 0 .. Len(items)
      BY <3>1 DEF BatchInv
    <3> QED
      BY <3>1, <3>3, <3>4 DEF BatchInv
  <2>3. CASE PrintReport
    <3>1. /\ pool' = pool /\ items' = items /\ classes' = classes /\ collapsed' = collapsed
          /\ Len(items) = Len(pool) /\ collapsed = Len(items) /\ printed' = {SummarizeBatch}
      BY <2>3 DEF PrintReport
    <3>2. SummarizeBatch' = SummarizeBatch
      BY <3>1 DEF SummarizeBatch, IdsOf
    <3>3. Filed(classes, collapsed)' /\ \A i : Item(i)' = Item(i)
      BY <3>1, FiledStays DEF BatchInv
    <3> QED
      BY <3>1, <3>2, <3>3 DEF BatchInv
  <2>4. CASE DiscoverPool
    <3>1. /\ pool = <<>> /\ printed = {} /\ IsPool(pool') /\ Len(pool') \in Nat
          /\ items' = items /\ classes' = classes /\ collapsed' = collapsed /\ printed' = printed
      BY <2>4 DEF DiscoverPool, IsPool
    <3>2. Len(items) = 0 /\ collapsed = 0 /\ Lists(classes) /\ Members(classes, 0)
      BY <3>1 DEF BatchInv, Filed
    <3>3. DOMAIN classes = {}
      <4> SUFFICES ASSUME NEW k \in DOMAIN classes PROVE FALSE
        OBVIOUS
      <4>1. 1 \in 1 .. Len(classes[k])
        BY <3>2 DEF Lists
      <4> QED
        BY <3>2, <4>1 DEF Members
    <3>4. Filed(classes, collapsed)'
      <4>1. DOMAIN classes' = {} /\ collapsed' = 0
        BY <3>1, <3>2, <3>3
      <4> QED
        BY <4>1 DEF Filed, Lists, Members, Complete, InOrder
    <3> QED
      BY <3>1, <3>2, <3>4 DEF BatchInv
  <2>5. CASE UNCHANGED batchVars
    <3>1. /\ pool' = pool /\ items' = items /\ classes' = classes /\ collapsed' = collapsed
          /\ printed' = printed
      BY <2>5 DEF batchVars
    <3>2. SummarizeBatch' = SummarizeBatch
      BY <3>1 DEF SummarizeBatch, IdsOf
    <3>3. Filed(classes, collapsed)' /\ \A i : Item(i)' = Item(i)
      BY <3>1, FiledStays DEF BatchInv
    <3> QED
      BY <3>1, <3>2, <3>3 DEF BatchInv
  <2> QED
    BY <2>1, <2>2, <2>3, <2>4, <2>5 DEF BatchNext
<1> QED
  BY <1>1, <1>2, PTL DEF BatchSpec

(* What the report says of the submission at a position (summarize_batch). *)
LEMMA Listing ==
  ASSUME BatchInv, NEW report \in printed
  PROVE  /\ report = SummarizeBatch
         /\ \A i \in DOMAIN pool : pool[i] \in Submission
         /\ \A i, j \in DOMAIN pool : pool[i].id = pool[j].id => i = j
         /\ \A i \in DOMAIN pool : \A of : pool[i].id \in IdsOf(of) <=> Item(i).class \in of
         /\ DOMAIN pool = 1 .. Len(pool) /\ Len(pool) \in Nat
         /\ Filed(classes, Len(pool))
<1>1. /\ report = SummarizeBatch /\ Filed(classes, Len(pool)) /\ Len(items) = Len(pool)
      /\ pool \in Seq(Submission) /\ \A i \in 1 .. Len(items) : items[i] = Item(i)
      /\ \A i, j \in DOMAIN pool : pool[i].id = pool[j].id => i = j
  BY DEF BatchInv, IsPool
<1>2. /\ \A i \in DOMAIN pool : pool[i] \in Submission
      /\ DOMAIN pool = 1 .. Len(pool) /\ Len(pool) \in Nat /\ DOMAIN items = 1 .. Len(pool)
  BY <1>1 DEF BatchInv
<1>3. \A i \in DOMAIN pool : Item(i).id = pool[i].id
  BY <1>2, ReplayClass DEF Item
<1>4. ASSUME NEW i \in DOMAIN pool, NEW of
      PROVE  pool[i].id \in IdsOf(of) <=> Item(i).class \in of
  BY <1>1, <1>2, <1>3 DEF IdsOf
<1> QED
  BY <1>1, <1>2, <1>4

(* Only a defect that the reference closes makes a duplicate, for every pool and
   every pair of engines (classify_dedup). *)
THEOREM DuplicatesClosed == BatchSpec => []DuplicatesAreClosed
<1>1. BatchInv => DuplicatesAreClosed
  <2> SUFFICES ASSUME BatchInv, NEW report \in printed, NEW i \in DOMAIN pool,
                      pool[i].id \in report.duplicates
               PROVE  /\ \/ Trips(pool[i], ReferenceDefects) = {}
                         \/ pool[i].lane = "over_accept" /\ pool[i].e1 # "none"
                      /\ Trips(pool[i], CurrentDefects) # {} \/ pool[i].e0 = "killed"
    BY DEF DuplicatesAreClosed
  <2>1. report.duplicates = IdsOf({"duplicate"})
    BY Listing DEF SummarizeBatch
  <2>2. Item(i).class = "duplicate" /\ pool[i] \in Submission
    BY <2>1, Listing
  <2> QED
    BY <2>2, DuplicateClosed DEF Item
<1> QED
  BY <1>1, BatchInvariant, PTL

(* Of a class of the report, the first member is found and the others are
   reskins; both come from items with this key (collapse_classes). *)
LEMMA Uniques ==
  ASSUME BatchInv, NEW report \in printed
  PROVE  /\ \A u \in report.unique : \E k \in DOMAIN classes :
              /\ k[1] # "review" /\ Len(classes[k]) \in Nat /\ Len(classes[k]) >= 1
              /\ u.representative = classes[k][1]
              /\ u.reskins = {classes[k][m] : m \in 2 .. Len(classes[k])}
         /\ \A k \in DOMAIN classes : k[1] # "review" =>
              \E u \in report.unique :
                /\ u.representative = classes[k][1]
                /\ u.reskins = {classes[k][m] : m \in 2 .. Len(classes[k])}
<1> DEFINE Of(key) == [key |-> key[2], representative |-> classes[key][1],
                       reskins |-> {classes[key][m] : m \in 2 .. Len(classes[key])}]
<1>1. report.unique = {Of(key) : key \in {k \in DOMAIN classes : k[1] # "review"}}
  BY Listing DEF SummarizeBatch
<1>2. \A k \in DOMAIN classes : Len(classes[k]) \in Nat /\ Len(classes[k]) >= 1
  BY Listing DEF Filed, Lists
<1>3. \A key : /\ Of(key).representative = classes[key][1]
               /\ Of(key).reskins = {classes[key][m] : m \in 2 .. Len(classes[key])}
  OBVIOUS
<1> HIDE DEF Of
<1> QED
  BY <1>1, <1>2, <1>3

(* Whose item has a class of findings, and only that, is in the report's classes. *)
LEMMA ListedIffFiled ==
  ASSUME BatchInv, NEW report \in printed, NEW i \in DOMAIN pool
  PROVE  /\ pool[i].id \in Found(report) \cup Reskins(report)
              <=> Item(i).class \in {"novel", "shifted"}
         /\ \A k \in DOMAIN classes : \A m \in 1 .. Len(classes[k]) :
              classes[k][m] = pool[i].id => ClassOf(i) = k
<1>1. \A k \in DOMAIN classes : \A m \in 1 .. Len(classes[k]) :
        classes[k][m] = pool[i].id => ClassOf(i) = k
  BY Listing DEF Filed, Members
<1>2. /\ Item(i).class \in {"not-in-pool", "inconclusive", "duplicate", "novel", "shifted"}
      /\ ClassOf(i) = IF Item(i).class \in {"duplicate", "not-in-pool"} THEN <<>>
                      ELSE IF Item(i).class = "inconclusive" THEN <<"review", pool[i].id>>
                      ELSE <<"finding", Item(i).key>>
  BY Listing, ReplayClass DEF ClassOf, Item
<1>3. ASSUME pool[i].id \in Found(report) \cup Reskins(report)
      PROVE  Item(i).class \in {"novel", "shifted"}
  <2>1. PICK u \in report.unique : pool[i].id = u.representative \/ pool[i].id \in u.reskins
    BY <1>3 DEF Found, Reskins
  <2>2. PICK k \in DOMAIN classes :
          /\ k[1] # "review" /\ Len(classes[k]) \in Nat /\ Len(classes[k]) >= 1
          /\ u.representative = classes[k][1]
          /\ u.reskins = {classes[k][m] : m \in 2 .. Len(classes[k])}
    BY <2>1, Uniques
  <2>3. PICK m \in 1 .. Len(classes[k]) : pool[i].id = classes[k][m]
    BY <2>1, <2>2
  <2>4. ClassOf(i) = k /\ k # <<>>
    BY <1>1, <2>3, Listing DEF Filed, Members
  <2> QED
    BY <1>2, <2>2, <2>4
<1>4. ASSUME Item(i).class \in {"novel", "shifted"}
      PROVE  pool[i].id \in Found(report) \cup Reskins(report)
  <2>1. ClassOf(i)[1] # "review" /\ ClassOf(i) # <<>>
    BY <1>2, <1>4
  <2>2. /\ ClassOf(i) \in DOMAIN classes
        /\ \E m \in 1 .. Len(classes[ClassOf(i)]) : classes[ClassOf(i)][m] = pool[i].id
    BY <2>1, Listing DEF Filed, Complete
  <2>3. PICK u \in report.unique :
          /\ u.representative = classes[ClassOf(i)][1]
          /\ u.reskins = {classes[ClassOf(i)][m] : m \in 2 .. Len(classes[ClassOf(i)])}
    BY <2>1, <2>2, Uniques
  <2>4. PICK m \in 1 .. Len(classes[ClassOf(i)]) : classes[ClassOf(i)][m] = pool[i].id
    BY <2>2
  <2>5. Len(classes[ClassOf(i)]) \in Nat
    BY <2>2, Listing DEF Filed, Lists
  <2>6. CASE m = 1
    BY <2>3, <2>4, <2>6 DEF Found
  <2>7. CASE m # 1
    <3>1. pool[i].id \in u.reskins
      BY <2>3, <2>4, <2>5, <2>7
    <3> QED
      BY <3>1 DEF Reskins
  <2> QED
    BY <2>6, <2>7
<1> QED
  BY <1>1, <1>3, <1>4


THEOREM SubmissionsAccountedFor == BatchSpec => []EverySubmissionIsAccountedFor
<1>1. ASSUME BatchInv, NEW report \in printed
      PROVE  LET listed == Found(report) \cup Reskins(report)
                 closed == report.duplicates \cup report.notInPool
             IN /\ \A i \in DOMAIN pool :
                     LET s == pool[i]
                     IN /\ Untroubled(s) /\ Trips(s, CurrentDefects \cap ReferenceDefects) # {}
                             => s.id \in listed
                        /\ (/\ s.lane # "over_accept" /\ s.e0 = "none" /\ s.e1 = "timeout"
                            /\ Trips(s, CurrentDefects) # {}) => s.id \in report.needsReview \ listed
                        /\ s.id \in listed \cup closed \cup report.needsReview
                /\ \A u \in report.unique : \A i, j \in DOMAIN pool :
                     pool[i].id = u.representative /\ pool[j].id \in u.reskins => i < j
                /\ Found(report) \cap Reskins(report) = {}
                /\ listed \cap closed = {}
                /\ NeedsAttention(report) \/ \A i \in DOMAIN pool : pool[i].id \in closed
  <2> DEFINE listed == Found(report) \cup Reskins(report)
             closed == report.duplicates \cup report.notInPool
  <2>1. /\ report.duplicates = IdsOf({"duplicate"}) /\ report.notInPool = IdsOf({"not-in-pool"})
        /\ report.needsReview = IdsOf({"shifted", "inconclusive"})
    BY <1>1, Listing DEF SummarizeBatch
  <2>2. \A i \in DOMAIN pool :
          /\ pool[i] \in Submission
          /\ Item(i).class \in {"not-in-pool", "inconclusive", "duplicate", "novel", "shifted"}
          /\ pool[i].id \in report.duplicates <=> Item(i).class = "duplicate"
          /\ pool[i].id \in report.notInPool <=> Item(i).class = "not-in-pool"
          /\ pool[i].id \in report.needsReview <=> Item(i).class \in {"shifted", "inconclusive"}
          /\ pool[i].id \in listed <=> Item(i).class \in {"novel", "shifted"}
    <3> SUFFICES ASSUME NEW i \in DOMAIN pool
                 PROVE  /\ pool[i] \in Submission
                        /\ Item(i).class \in {"not-in-pool", "inconclusive", "duplicate", "novel", "shifted"}
                        /\ pool[i].id \in report.duplicates <=> Item(i).class = "duplicate"
                        /\ pool[i].id \in report.notInPool <=> Item(i).class = "not-in-pool"
                        /\ pool[i].id \in report.needsReview <=> Item(i).class \in {"shifted", "inconclusive"}
                        /\ pool[i].id \in listed <=> Item(i).class \in {"novel", "shifted"}
      OBVIOUS
    <3>1. pool[i] \in Submission /\ \A of : pool[i].id \in IdsOf(of) <=> Item(i).class \in of
      BY <1>1, Listing
    <3>2. Item(i).class \in {"not-in-pool", "inconclusive", "duplicate", "novel", "shifted"}
      BY <3>1, ReplayClass DEF Item
    <3>3. pool[i].id \in listed <=> Item(i).class \in {"novel", "shifted"}
      BY <1>1, ListedIffFiled
    <3> QED
      BY <2>1, <3>1, <3>2, <3>3
  <2>3. \A id \in listed \cup closed : \E i \in DOMAIN pool : id = pool[i].id
    <3> SUFFICES ASSUME NEW id \in listed \cup closed
                 PROVE  \E i \in DOMAIN pool : id = pool[i].id
      OBVIOUS
    <3>1. CASE id \in closed
      <4>1. /\ DOMAIN items = DOMAIN pool /\ \A i \in DOMAIN pool : items[i] = Item(i) /\ Item(i).id = pool[i].id
        <5>1. DOMAIN items = DOMAIN pool /\ \A i \in DOMAIN pool : items[i] = Item(i)
          BY <1>1 DEF BatchInv, IsPool
        <5>2. \A i \in DOMAIN pool : Item(i).id = pool[i].id
          BY <2>2, ReplayClass DEF Item
        <5> QED
          BY <5>1, <5>2
      <4> QED
        BY <2>1, <3>1, <4>1 DEF IdsOf
    <3>2. CASE id \in listed
      <4>1. PICK u \in report.unique : id = u.representative \/ id \in u.reskins
        BY <3>2 DEF Found, Reskins
      <4>2. PICK k \in DOMAIN classes :
              /\ Len(classes[k]) \in Nat /\ Len(classes[k]) >= 1
              /\ u.representative = classes[k][1]
              /\ u.reskins = {classes[k][m] : m \in 2 .. Len(classes[k])}
        BY <1>1, <4>1, Uniques
      <4>3. PICK m \in 1 .. Len(classes[k]) : id = classes[k][m]
        BY <4>1, <4>2
      <4> QED
        BY <1>1, <4>3, Listing DEF Filed, Members
    <3> QED
      BY <3>1, <3>2
  <2>4. ASSUME NEW i \in DOMAIN pool
        PROVE  LET s == pool[i]
               IN /\ Untroubled(s) /\ Trips(s, CurrentDefects \cap ReferenceDefects) # {}
                       => s.id \in listed
                  /\ (/\ s.lane # "over_accept" /\ s.e0 = "none" /\ s.e1 = "timeout"
                      /\ Trips(s, CurrentDefects) # {}) => s.id \in report.needsReview \ listed
                  /\ s.id \in listed \cup closed \cup report.needsReview
    <3> HIDE DEF listed
    <3>1. Untroubled(pool[i]) /\ Trips(pool[i], CurrentDefects \cap ReferenceDefects) # {}
            => Item(i).class \in {"novel", "shifted"}
      BY <2>2, <2>4, SurvivorKept DEF Item
    <3>2. (/\ pool[i].lane # "over_accept" /\ pool[i].e0 = "none" /\ pool[i].e1 = "timeout"
           /\ Trips(pool[i], CurrentDefects) # {}) => Item(i).class = "inconclusive"
      BY <2>2, <2>4, TimeoutReviewed DEF Item
    <3> QED
      BY <2>2, <2>4, <3>1, <3>2
  <2>5. ASSUME NEW u \in report.unique, NEW i \in DOMAIN pool, NEW j \in DOMAIN pool,
               pool[i].id = u.representative, pool[j].id \in u.reskins
        PROVE  i < j
    <3>1. PICK k \in DOMAIN classes :
            /\ Len(classes[k]) \in Nat /\ Len(classes[k]) >= 1
            /\ u.representative = classes[k][1]
            /\ u.reskins = {classes[k][m] : m \in 2 .. Len(classes[k])}
      BY <1>1, <2>5, Uniques
    <3>2. PICK m \in 2 .. Len(classes[k]) : pool[j].id = classes[k][m]
      BY <2>5, <3>1
    <3>3. InOrder(classes, Len(pool)) /\ DOMAIN pool = 1 .. Len(pool)
      BY <1>1, Listing DEF Filed
    <3>4. 1 \in 1 .. Len(classes[k]) /\ m \in 1 .. Len(classes[k]) /\ 1 < m
      BY <3>1, <3>2
    <3> QED
      BY <2>5, <3>1, <3>2, <3>3, <3>4 DEF InOrder
  <2>6. Found(report) \cap Reskins(report) = {}
    <3> SUFFICES ASSUME NEW id \in Found(report), id \in Reskins(report) PROVE FALSE
      OBVIOUS
    <3>1. PICK i \in DOMAIN pool : id = pool[i].id
      BY <2>3
    <3>2. PICK u \in report.unique : id = u.representative
      BY DEF Found
    <3>3. PICK v \in report.unique : id \in v.reskins
      BY DEF Reskins
    <3>4. PICK k \in DOMAIN classes :
            Len(classes[k]) \in Nat /\ Len(classes[k]) >= 1 /\ u.representative = classes[k][1]
      BY <1>1, <3>2, Uniques
    <3>5. PICK l \in DOMAIN classes :
            Len(classes[l]) \in Nat /\ v.reskins = {classes[l][m] : m \in 2 .. Len(classes[l])}
      BY <1>1, <3>3, Uniques
    <3>6. PICK m \in 2 .. Len(classes[l]) : id = classes[l][m]
      BY <3>3, <3>5
    <3>7. m \in 1 .. Len(classes[l]) /\ 1 \in 1 .. Len(classes[k]) /\ 1 < m
      BY <3>4, <3>5, <3>6
    <3>8. ClassOf(i) = k /\ ClassOf(i) = l
      BY <1>1, <3>1, <3>2, <3>4, <3>6, <3>7, ListedIffFiled
    <3>9. InOrder(classes, Len(pool)) /\ DOMAIN pool = 1 .. Len(pool) /\ Len(pool) \in Nat
      BY <1>1, Listing DEF Filed
    <3>10. /\ classes[k][1] = pool[i].id /\ classes[k][m] = pool[i].id
           /\ m \in 1 .. Len(classes[k]) /\ i \in 1 .. Len(pool)
      BY <3>1, <3>2, <3>4, <3>6, <3>7, <3>8, <3>9
    <3>11. i < i
      BY <3>7, <3>9, <3>10 DEF InOrder
    <3> QED
      BY <3>9, <3>11
  <2>7. listed \cap closed = {}
    <3> HIDE DEF listed
    <3> QED
      BY <2>2, <2>3
  <2>8. NeedsAttention(report) \/ \A i \in DOMAIN pool : pool[i].id \in closed
    <3>1. SUFFICES ASSUME ~NeedsAttention(report), NEW i \in DOMAIN pool
                   PROVE  pool[i].id \in closed
      OBVIOUS
    <3>2. report.unique = {} /\ report.needsReview = {}
      BY <3>1 DEF NeedsAttention
    <3>3. listed = {}
      BY <3>2 DEF Found, Reskins
    <3> HIDE DEF listed
    <3> QED
      BY <2>2, <3>2, <3>3
  <2> QED
    BY <2>4, <2>5, <2>6, <2>7, <2>8
<1>2. BatchInv => EverySubmissionIsAccountedFor
  BY <1>1 DEF EverySubmissionIsAccountedFor
<1> QED
  BY <1>2, BatchInvariant, PTL

(* Submissions of one program and one claimed feature are one finding, in every
   pool (collapse_classes). *)
THEOREM CopiesAreOneFinding == BatchSpec => []CopiesFold
<1>1. BatchInv => CopiesFold
  <2> SUFFICES ASSUME BatchInv, NEW report \in printed, NEW i \in DOMAIN pool, NEW j \in DOMAIN pool,
                      Untroubled(pool[i]), Untroubled(pool[j]), pool[i].lane = pool[j].lane,
                      pool[i].defects = pool[j].defects, pool[i].feature = pool[j].feature,
                      {pool[i].id, pool[j].id} \subseteq Found(report)
               PROVE  i = j
    BY DEF CopiesFold
  <2>1. /\ pool[i] \in Submission /\ pool[j] \in Submission
        /\ \A a, b \in DOMAIN pool : pool[a].id = pool[b].id => a = b
    BY Listing
  <2>2. Item(i).class = Item(j).class /\ Item(i).key = Item(j).key
    BY <2>1, CopiesAlike DEF Item
  <2>3. /\ Item(i).class \in {"novel", "shifted"}
        /\ Item(j).class \in {"novel", "shifted"}
    BY ListedIffFiled
  <2>4. ClassOf(i) = ClassOf(j)
    BY <2>1, <2>2, <2>3 DEF ClassOf, Bucket
  <2>5. PICK k \in DOMAIN classes : /\ Len(classes[k]) \in Nat /\ Len(classes[k]) >= 1
                                   /\ pool[i].id = classes[k][1]
    BY Uniques DEF Found
  <2>6. PICK l \in DOMAIN classes : /\ Len(classes[l]) \in Nat /\ Len(classes[l]) >= 1
                                   /\ pool[j].id = classes[l][1]
    BY Uniques DEF Found
  <2>7. 1 \in 1 .. Len(classes[k]) /\ 1 \in 1 .. Len(classes[l])
    BY <2>5, <2>6
  <2>8. ClassOf(i) = k /\ ClassOf(j) = l
    BY <2>5, <2>6, <2>7, ListedIffFiled
  <2> QED
    BY <2>1, <2>4, <2>5, <2>6, <2>8
<1> QED
  BY <1>1, BatchInvariant, PTL

(* What the report of a pool says of its submissions, for every pool and every
   two engines (replay_against_reference, collapse_classes, summarize_batch). *)
THEOREM PoolsAreClassed == BatchSpec => []SubmissionsAreClassed
  BY DuplicatesClosed, SubmissionsAccountedFor, CopiesAreOneFinding, PTL DEF SubmissionsAreClassed
=============================================================================
