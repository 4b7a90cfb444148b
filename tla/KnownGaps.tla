----------------------------- MODULE KnownGaps -----------------------------
(***************************************************************************)
(* The registry of known gaps (contest/known_gaps.py): the key of a gap is *)
(* derived from its repro by the fingerprinter and kept in a file; a       *)
(* submission is a duplicate when its own key is the key of an open gap.   *)
(* Threads of a process derive keys for submissions and for the check of   *)
(* the registry; solc resolves imports from the working directory, which   *)
(* the process has only one of (contest/fingerprint.py).  A maintainer     *)
(* edits repros and rebuilds the file from another process.  What a key    *)
(* says of a program is Fingerprint.tla; here a key is the delta, the mode *)
(* and the program.                                                        *)
(***************************************************************************)
EXTENDS Integers, Sequences, FiniteSets, SequencesExt

CONSTANTS
  Threads, Procs, ProcOf,  \* the process of each thread
  Maintainers, Checkers,   \* the threads that rebuild and check; the others match
  Programs,
  Rejected,                \* the programs solc does not accept
  Importing,               \* those that import a sibling file
  Gaps,                    \* the gaps, open ones first, as a sequence
  Open,                    \* the open gaps
  NoRepro,                 \* the gaps whose repro could not be recovered
  DeltaOf, ReproOf,        \* delta class and first repro of each gap
  Deltas, Home, Free, None, Torn,
  Tasks, Edits, Faults     \* bounds

ASSUME RegistryAssumption ==
  /\ Rejected \subseteq Programs /\ Importing \subseteq Programs
  /\ Open \cup NoRepro \subseteq ToSet(Gaps)
  /\ Maintainers \cup Checkers \subseteq Threads /\ ProcOf \in [Threads -> Procs]
  /\ DeltaOf \in [ToSet(Gaps) -> Deltas] /\ ReproOf \in [ToSet(Gaps) -> Programs]
  /\ Gaps \in Seq(ToSet(Gaps)) /\ Free \notin Threads

VARIABLES
  repro,     \* the program in each gap's repro directory
  stored,    \* the file of derived keys, Torn while it is being written
  cache,     \* the keys a process has loaded (None before it first asks)
  cwd, lock, \* of each process
  job,       \* what each thread does
  published, \* every <<gap, program>> the registry has had
  hit,       \* the last hit: gap, program and delta of the submission
  spent      \* [tasks, edits, faults]

vars == <<repro, stored, cache, cwd, lock, job, published, hit, spent>>

(* the places, in the list of the gaps, of those that have a key *)
Keyed == {i \in DOMAIN Gaps : Gaps[i] \notin NoRepro}
Key(delta, mode, program) == <<delta, mode, program>>
NoKeys == [g \in ToSet(Gaps) |-> None]

Idle == [kind |-> "idle"]
Job(kind, todo, keys, program, delta) ==
  [kind |-> kind, pc |-> IF kind # "match" /\ todo = {} THEN "end" ELSE "lock",
   todo |-> todo, keys |-> keys, program |-> program, delta |-> delta,
   back |-> Home, key |-> None, found |-> NoKeys, problems |-> {},
   edited |-> FALSE, faulty |-> FALSE]

(* the sources the job derives a key of now *)
Gap(t) == Gaps[Min(job[t].todo)]
Subject(t) == IF job[t].kind = "match" THEN job[t].program ELSE repro[Gap(t)]
Delta(t) == IF job[t].kind = "match" THEN job[t].delta ELSE DeltaOf[Gap(t)]

Init ==
  /\ repro = ReproOf
  /\ stored = [g \in ToSet(Gaps) |->
                 IF g \in NoRepro THEN None
                 ELSE Key(DeltaOf[g], IF ReproOf[g] \in Rejected THEN "parse" ELSE "full", ReproOf[g])]
  /\ cache = [p \in Procs |-> None]
  /\ cwd = [p \in Procs |-> Home] /\ lock = [p \in Procs |-> Free]
  /\ job = [t \in Threads |-> Idle]
  /\ published = {<<g, ReproOf[g]>> : g \in ToSet(Gaps) \ NoRepro}
  /\ hit = None /\ spent = [tasks |-> 0, edits |-> 0, faults |-> 0]

Begin(t, new) ==
  /\ job[t] = Idle /\ spent.tasks < Tasks
  /\ job' = [job EXCEPT ![t] = new]
  /\ spent' = [spent EXCEPT !.tasks = @ + 1]
  /\ UNCHANGED <<repro, stored, cwd, lock, published, hit>>

BeginMatch(t) ==
  \E program \in Programs, delta \in Deltas :
    /\ Begin(t, Job("match", {}, NoKeys, program, delta))
    /\ UNCHANGED cache

(* an unreadable file is an empty one *)
Loaded(p) == IF cache[p] # None THEN cache[p] ELSE IF stored = Torn THEN NoKeys ELSE stored

(* the check reads the stored keys first, once for the process *)
BeginCheck(t) ==
  /\ Begin(t, Job("check", Keyed, Loaded(ProcOf[t]), None, None))
  /\ cache' = [cache EXCEPT ![ProcOf[t]] = Loaded(ProcOf[t])]

BeginRebuild(t) ==
  /\ Begin(t, Job("rebuild", Keyed, NoKeys, None, None))
  /\ UNCHANGED cache

(* A maintainer replaces the repro of a gap.                               *)
Edit ==
  \E g \in {Gaps[i] : i \in Keyed} : \E program \in Programs \ {repro[g]} :
    /\ spent.edits < Edits
    /\ repro' = [repro EXCEPT ![g] = program]
    /\ published' = published \cup {<<g, program>>}
    /\ spent' = [spent EXCEPT !.edits = @ + 1]
    /\ job' = [t \in Threads |-> IF job[t] = Idle THEN Idle ELSE [job[t] EXCEPT !.edited = TRUE]]
    /\ UNCHANGED <<stored, cache, cwd, lock, hit>>

-----------------------------------------------------------------------------
(* Deriving one key.                                                       *)
At(t, pc) == job[t] # Idle /\ job[t].pc = pc
Same == UNCHANGED <<repro, stored, cache, published, hit>>

(* with the lock held, into the directory of the sources *)
EnterUnlocked(t) ==
  /\ At(t, "lock")
  /\ cwd' = [cwd EXCEPT ![ProcOf[t]] = Subject(t)]
  /\ job' = [job EXCEPT ![t] = [@ EXCEPT !.pc = "analyze", !.back = cwd[ProcOf[t]]]]
  /\ Same /\ UNCHANGED <<lock, spent>>
Enter(t) ==
  /\ At(t, "lock") /\ lock[ProcOf[t]] = Free
  /\ lock' = [lock EXCEPT ![ProcOf[t]] = t]
  /\ cwd' = [cwd EXCEPT ![ProcOf[t]] = Subject(t)]
  /\ job' = [job EXCEPT ![t] = [@ EXCEPT !.pc = "analyze", !.back = cwd[ProcOf[t]]]]
  /\ Same /\ UNCHANGED spent

Fault(t) ==
  /\ spent.faults < Faults
  /\ spent' = [spent EXCEPT !.faults = @ + 1]

(* imports are resolved from the working directory *)
Analyzable(t) ==
  /\ Subject(t) \notin Rejected
  /\ Subject(t) \in Importing => cwd[ProcOf[t]] = Subject(t)
Analyze(t) ==
  /\ At(t, "analyze")
  /\ \/ /\ Analyzable(t)
        /\ job' = [job EXCEPT ![t] =
             [@ EXCEPT !.pc = "leave", !.key = Key(Delta(t), "full", Subject(t))]]
        /\ UNCHANGED spent
     \/ /\ ~Analyzable(t)
        /\ job' = [job EXCEPT ![t] = [@ EXCEPT !.pc = "parse"]]
        /\ UNCHANGED spent
     \/ /\ Fault(t)
        /\ job' = [job EXCEPT ![t] = [@ EXCEPT !.pc = "parse", !.faulty = TRUE]]
  /\ Same /\ UNCHANGED <<cwd, lock>>

Parse(t) ==
  /\ At(t, "parse")
  /\ \/ /\ job' = [job EXCEPT ![t] =
             [@ EXCEPT !.pc = "leave", !.key = Key(Delta(t), "parse", Subject(t))]]
        /\ UNCHANGED spent
     \/ /\ Fault(t)
        /\ job' = [job EXCEPT ![t] = [@ EXCEPT !.pc = "leave", !.key = None, !.faulty = TRUE]]
  /\ Same /\ UNCHANGED <<cwd, lock>>

(* finally: the directory goes back, then the lock, with a key or without *)
LeaveWithKey(t) ==
  /\ At(t, "leave")
  /\ cwd' = IF job[t].key = None THEN cwd ELSE [cwd EXCEPT ![ProcOf[t]] = job[t].back]
  /\ lock' = [lock EXCEPT ![ProcOf[t]] = Free]
  /\ job' = [job EXCEPT ![t] = [@ EXCEPT !.pc = "derived"]]
  /\ Same /\ UNCHANGED spent
LeaveLocked(t) ==
  /\ At(t, "leave")
  /\ cwd' = [cwd EXCEPT ![ProcOf[t]] = job[t].back]
  /\ lock' = IF job[t].key = None THEN lock ELSE [lock EXCEPT ![ProcOf[t]] = Free]
  /\ job' = [job EXCEPT ![t] = [@ EXCEPT !.pc = "derived"]]
  /\ Same /\ UNCHANGED spent
Leave(t) ==
  /\ At(t, "leave")
  /\ cwd' = [cwd EXCEPT ![ProcOf[t]] = job[t].back]
  /\ lock' = [lock EXCEPT ![ProcOf[t]] = Free]
  /\ job' = [job EXCEPT ![t] = [@ EXCEPT !.pc = "derived"]]
  /\ Same /\ UNCHANGED spent

-----------------------------------------------------------------------------
(* What a derived key is for.                                              *)
MatchByDelta(keys, key) ==
  {i \in DOMAIN Gaps : /\ Gaps[i] \in Open /\ keys[Gaps[i]] # None
                        /\ keys[Gaps[i]][1] = key[1]}
Matches(keys, key) ==
  {i \in DOMAIN Gaps : /\ Gaps[i] \in Open /\ keys[Gaps[i]] # None
                        /\ keys[Gaps[i]] = key}

(* An exception is no match; otherwise the first open gap with the key.    *)
Match(t) ==
  LET p == ProcOf[t] 
      found == Matches(Loaded(p), job[t].key)
  IN /\ At(t, "derived") /\ job[t].kind = "match"
     /\ IF job[t].key = None THEN UNCHANGED <<cache, hit>>
        ELSE /\ cache' = [cache EXCEPT ![p] = Loaded(p)]
             /\ hit' = IF found = {} THEN hit
                        ELSE <<Gaps[Min(found)], job[t].program, job[t].delta>>
     /\ job' = [job EXCEPT ![t] = Idle]
     /\ UNCHANGED <<repro, stored, cwd, lock, published, spent>>

DriftsOfKnown(g, keys, key) == keys[g] # None /\ keys[g] # key
Drifts(g, keys, key) == keys[g] = None \/ keys[g] # key

(* The next gap; an exception ends the check and the rebuild.              *)
Proceed(t) ==
  LET g == Gap(t)  rest == job[t].todo \ {Min(job[t].todo)}
      drifted == job[t].kind = "check" /\ Drifts(g, job[t].keys, job[t].key)
  IN [job[t] EXCEPT !.todo = rest, !.found = [@ EXCEPT ![g] = job[t].key],
                    !.problems = IF drifted THEN @ \cup {g} ELSE @,
                    !.pc = IF rest = {} THEN "end" ELSE "lock"]
Advance(t) ==
  /\ At(t, "derived") /\ job[t].kind # "match"
  /\ job' = [job EXCEPT ![t] = IF job[t].key = None THEN Idle ELSE Proceed(t)]
  /\ Same /\ UNCHANGED <<cwd, lock, spent>>

EndCheck(t) ==
  /\ At(t, "end") /\ job[t].kind = "check"
  /\ job' = [job EXCEPT ![t] = Idle]
  /\ Same /\ UNCHANGED <<cwd, lock, spent>>

(* The file is truncated and then written; a process may die in between.   *)
Truncate(t) ==
  /\ At(t, "end") /\ job[t].kind = "rebuild"
  /\ stored' = Torn
  /\ job' = [job EXCEPT ![t] = [@ EXCEPT !.pc = "write"]]
  /\ UNCHANGED <<repro, cache, cwd, lock, published, hit, spent>>
Write(t) ==
  /\ At(t, "write")
  /\ stored' = job[t].found
  /\ cache' = [cache EXCEPT ![ProcOf[t]] = job[t].found]
  /\ job' = [job EXCEPT ![t] = Idle]
  /\ UNCHANGED <<repro, cwd, lock, published, hit, spent>>
DieWriting(t) ==
  /\ At(t, "write") /\ Fault(t)
  /\ cache' = [cache EXCEPT ![ProcOf[t]] = None]
  /\ cwd' = [cwd EXCEPT ![ProcOf[t]] = Home] /\ lock' = [lock EXCEPT ![ProcOf[t]] = Free]
  /\ job' = [u \in Threads |-> IF ProcOf[u] = ProcOf[t] THEN Idle ELSE job[u]]
  /\ UNCHANGED <<repro, stored, published, hit>>

Step(t) ==
  \/ Enter(t) \/ Analyze(t) \/ Parse(t) \/ Leave(t)
  \/ Match(t) \/ Advance(t) \/ EndCheck(t) \/ Truncate(t) \/ Write(t)
Next ==
  \/ Edit
  \/ \E t \in Threads :
       \/ Step(t) \/ DieWriting(t)
       \/ t \in Maintainers /\ BeginRebuild(t)
       \/ t \in Checkers /\ BeginCheck(t)
       \/ t \notin Maintainers \cup Checkers /\ BeginMatch(t)

Spec ==
  /\ Init /\ [][Next]_vars
  /\ \A t \in Threads : WF_vars(Step(t))

-----------------------------------------------------------------------------
Keys == Deltas \X {"full", "parse"} \X Programs
KeyMaps == [ToSet(Gaps) -> Keys \cup {None}]

(* The registry, the directories, the lock and the jobs have their types.  *)
TypeOK ==
  /\ repro \in [ToSet(Gaps) -> Programs]
  /\ stored = Torn \/ stored \in KeyMaps
  /\ \A p \in Procs : cache[p] = None \/ cache[p] \in KeyMaps
  /\ cwd \in [Procs -> Programs \cup {Home}] /\ lock \in [Procs -> Threads \cup {Free}]
  /\ \A t \in Threads : job[t] = Idle \/ job[t].key \in Keys \cup {None}
  /\ published \subseteq ToSet(Gaps) \X Programs

(* A submission that is marked a duplicate is the repro some open gap has  *)
(* or had, in the same delta class: whatever was edited, rebuilt, cached   *)
(* or torn since, no other program is denied credit.                       *)
HitsAreCopies ==
  hit # None =>
    /\ hit[1] \in Open /\ hit[3] = DeltaOf[hit[1]]
    /\ <<hit[1], hit[2]>> \in published

ProperKey(delta, program) ==
  Key(delta, IF program \in Rejected THEN "parse" ELSE "full", program)

(* Threads of one process derive keys as if each were alone: unless solc   *)
(* fails, the key of a program is derived from the analyzed AST whenever   *)
(* solc accepts the program, and whoever asks for a path while no key is   *)
(* derived finds the process where it was started, also after derivations  *)
(* that raised an exception.                                               *)
DerivationsAreApart ==
  /\ TypeOK
  /\ \A t \in Threads :
       job[t] # Idle /\ job[t].pc \in {"leave", "derived"} =>
         job[t].faulty \/ job[t].edited \/ job[t].key = ProperKey(Delta(t), Subject(t))
  /\ \A p \in Procs : lock[p] = Free => cwd[p] = Home

(* A check that reports nothing, with no fault and no edit while it ran,   *)
(* has compared with the right key of every gap: a rebuild that stored a   *)
(* parse-only key after a fault, or a torn file, is reported.              *)
CleanCheckIsRight ==
  \A t \in Threads :
    At(t, "end") /\ job[t].kind = "check" /\ job[t].problems = {} =>
      \/ job[t].edited \/ job[t].faulty
      \/ \A i \in Keyed :
           job[t].keys[Gaps[i]] = ProperKey(DeltaOf[Gaps[i]], repro[Gaps[i]])

(* Every derivation, check and rebuild ends, whatever fails in it: the     *)
(* lock is always given back.                                              *)
JobsEnd == \A t \in Threads : job[t] # Idle ~> job[t] = Idle
=============================================================================
