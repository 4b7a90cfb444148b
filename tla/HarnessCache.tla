---------------------------- MODULE HarnessCache ----------------------------
(***************************************************************************)
(* The harness's result cache (scripts/harness_cache.py): a dictionary per *)
(* process, shared by its threads under a lock, and a directory shared by  *)
(* all processes, without any lock.  One worker is one thread.  It makes   *)
(* calls of cached(compute): derive the key, look in the memory, look on   *)
(* the disk, compute, publish to the memory, publish to the disk.          *)
(*                                                                         *)
(* A key is what was hashed: the input, and the tool that was installed    *)
(* when the key was derived.  A value is what was computed: by the tool    *)
(* installed when the computation ran.  Bounds: Calls, Upgrades, Crashes,  *)
(* Tears.                                                                  *)
(***************************************************************************)
EXTENDS Integers, FiniteSets, SequencesExt, FiniteSetsExt

CONSTANTS
  Procs, Workers, ProcOf,  \* ProcOf[w] is the process of worker w
  Inputs, SizeOf,          \* SizeOf[i] is the length of i's encoded result
  MaxEntry,                \* _MAX_ENTRY
  MaxEntries,              \* 64
  Persistent,              \* CONTEST_CACHE_DIR is set
  Calls, Upgrades, Crashes, Tears,
  NoKey, NoAnswer, Failed, Absent, Torn

ASSUME HarnessCacheAssumption ==
  /\ ProcOf \in [Workers -> Procs] /\ SizeOf \in [Inputs -> Nat]
  /\ MaxEntry \in Nat /\ MaxEntries \in Nat \ {0} /\ Persistent \in BOOLEAN
  /\ {Calls, Upgrades, Crashes, Tears} \subseteq Nat
  /\ NoKey \notin Inputs \X (0 .. Upgrades)
  /\ {NoAnswer, Failed, Absent, Torn} \cap (Inputs \X (0 .. Upgrades)) = {}
  /\ Absent # Torn

Keys == Inputs \X (0 .. Upgrades)
Values == Keys
Size(k) == SizeOf[k[1]]

VARIABLES
  pc, key, value,  \* per worker: where it stands, its key, what it computed
  answer,          \* per worker: what its last call answered
  memory, bytes,   \* per process: _MEMORY oldest first, _MEMORY_BYTES
  disk,            \* per key: the entry's payload, Torn or Absent
  calls,           \* calls made
  tool,            \* the tool installed now
  crashes, tears,
  computed         \* history: <<key, value>> for each computation that returned

private == <<pc, key, value, answer>>
shared == <<memory, bytes>>
world == <<calls, tool, crashes, tears>>
vars == <<private, shared, disk, world, computed>>

PCs == {"idle", "memory", "disk", "compute", "publish", "open", "write",
        "replace", "unlink"}
Goto(w, l) == pc' = [pc EXCEPT ![w] = l]

(* The call is over.  Nothing of it is kept but the answer. *)
AnswerWith(w, v) ==
  /\ Goto(w, "idle") /\ answer' = [answer EXCEPT ![w] = v]
  /\ key' = [key EXCEPT ![w] = NoKey] /\ value' = [value EXCEPT ![w] = NoAnswer]

-----------------------------------------------------------------------------
(* The dictionary: a sequence of <<key, value>>, oldest first *)

Stored(m, k) == {m[i][2] : i \in {i \in DOMAIN m : m[i][1] = k}}
Position(m, k) == CHOOSE i \in DOMAIN m : m[i][1] = k
Without(m, k) == IF Stored(m, k) = {} THEN m ELSE RemoveAt(m, Position(m, k))
MoveToEnd(m, k) == Append(Without(m, k), m[Position(m, k)])
Bytes(m) ==
  LET sum[i \in 0 .. Len(m)] ==
        IF i = 0 THEN 0 ELSE sum[i - 1] + Size(m[i][1])
  IN  sum[Len(m)]

TooLarge(k) == Size(k) > MaxEntry \div 2
(* Mutant: the replaced entry's bytes are not given back. *)
LeftAfterPopStale(m, b, k) == b
LeftAfterPop(m, b, k) == IF Stored(m, k) = {} THEN b ELSE b - Size(k)

(* Mutant: no entry is dropped. *)
FirstKeptAll(m, b) == 1
(* Drop oldest entries until what is left fits. *)
FirstKept(m, b) ==
  Min({i \in 1 .. (Len(m) + 1) :
         /\ Len(m) - i + 1 <= MaxEntries
         /\ b - Bytes(SubSeq(m, 1, i - 1)) <= MaxEntry
            \/ i = Len(m) + 1})
(* Mutant: popitem() takes the newest. *)
PutInMemoryNewestFirst(p, k, v) ==
  LET m == Append(Without(memory[p], k), <<k, v>>)
      b == LeftAfterPop(memory[p], bytes[p], k) + Size(k)
      kept == Len(m) - FirstKept(Reverse(m), b) + 1
  IN  /\ memory' = [memory EXCEPT ![p] = SubSeq(m, 1, kept)]
      /\ bytes' = [bytes EXCEPT ![p] = b - Bytes(SubSeq(m, kept + 1, Len(m)))]
PutInMemory(p, k, v) ==
  LET m == Append(Without(memory[p], k), <<k, v>>)
      b == LeftAfterPop(memory[p], bytes[p], k) + Size(k)
      i == FirstKept(m, b)
  IN  /\ memory' = [memory EXCEPT ![p] = SubSeq(m, i, Len(m))]
      /\ bytes' = [bytes EXCEPT ![p] = b - Bytes(SubSeq(m, 1, i - 1))]

-----------------------------------------------------------------------------
Init ==
  /\ pc = [w \in Workers |-> "idle"] /\ key = [w \in Workers |-> NoKey]
  /\ value = [w \in Workers |-> NoAnswer] /\ answer = [w \in Workers |-> NoAnswer]
  /\ memory = [p \in Procs |-> << >>] /\ bytes = [p \in Procs |-> 0]
  /\ disk = [k \in Keys |-> Absent]
  /\ calls = 0 /\ tool = 0 /\ crashes = 0 /\ tears = 0 /\ computed = {}

(* key_for(inputs): the tool's identity is read here *)
Call(w, i) ==
  /\ pc[w] = "idle" /\ calls < Calls
  /\ Goto(w, "memory") /\ calls' = calls + 1
  /\ key' = [key EXCEPT ![w] = <<i, tool>>]
  /\ answer' = [answer EXCEPT ![w] = NoAnswer]
  /\ UNCHANGED <<value, shared, disk, tool, crashes, tears, computed>>

LookInMemory(w) ==
  LET p == ProcOf[w]  k == key[w] IN
  /\ pc[w] = "memory"
  /\ IF Stored(memory[p], k) = {}
     THEN Goto(w, "disk") /\ UNCHANGED <<key, value, answer, memory>>
     ELSE /\ \E v \in Stored(memory[p], k) : AnswerWith(w, v)
          /\ memory' = [memory EXCEPT ![p] = MoveToEnd(@, k)]
  /\ UNCHANGED <<bytes, disk, world, computed>>

(* Mutant: what is in the file is not checked. *)
AcceptsAnything(k) == disk[k] # Absent
(* schema, key and checksum: a torn entry has none that fits *)
Accepts(k) == disk[k] \notin {Absent, Torn}

(* Mutant: a file that cannot be read is tried again. *)
LookOnDiskAgain(w) ==
  /\ pc[w] = "disk"
  /\ \/ Persistent /\ Accepts(key[w]) /\ AnswerWith(w, disk[key[w]])
     \/ disk[key[w]] = Absent /\ Goto(w, "compute") /\ UNCHANGED <<key, value, answer>>
     \/ disk[key[w]] = Torn /\ Goto(w, "memory") /\ UNCHANGED <<key, value, answer>>
  /\ UNCHANGED <<shared, disk, world, computed>>
(* A read may also fail with OSError, which is a miss. A hit on the disk is
   not put in the memory. *)
LookOnDisk(w) ==
  /\ pc[w] = "disk"
  /\ \/ Persistent /\ Accepts(key[w]) /\ AnswerWith(w, disk[key[w]])
     \/ Goto(w, "compute") /\ UNCHANGED <<key, value, answer>>
  /\ UNCHANGED <<shared, disk, world, computed>>

Compute(w) ==
  LET v == <<key[w][1], tool>> IN
  /\ pc[w] = "compute" /\ Goto(w, "publish")
  /\ value' = [value EXCEPT ![w] = v]
  /\ computed' = computed \cup {<<key[w], v>>}
  /\ UNCHANGED <<key, answer, shared, disk, world>>

(* compute() raises: the exception passes through cached *)
Raise(w) ==
  /\ pc[w] = "compute" /\ AnswerWith(w, Failed)
  /\ UNCHANGED <<shared, disk, world, computed>>

(* put, under the lock *)
Publish(w) ==
  /\ pc[w] = "publish"
  /\ IF TooLarge(key[w])
     THEN AnswerWith(w, value[w]) /\ UNCHANGED shared
     ELSE /\ PutInMemory(ProcOf[w], key[w], value[w])
          /\ IF Persistent
             THEN Goto(w, "open") /\ UNCHANGED <<key, value, answer>>
             ELSE AnswerWith(w, value[w])
  /\ UNCHANGED <<disk, world, computed>>

(* Mutant: the entry is written where readers look. *)
OpenInPlace(w) ==
  /\ pc[w] = "open" /\ Goto(w, "write")
  /\ disk' = [disk EXCEPT ![key[w]] = Torn]
  /\ UNCHANGED <<key, value, answer, shared, world, computed>>
(* mkdir, and a temporary file under another name; OSError gives up *)
Open(w) ==
  /\ pc[w] = "open"
  /\ \/ Goto(w, "write") /\ UNCHANGED <<key, value, answer>>
     \/ AnswerWith(w, value[w])
  /\ UNCHANGED <<shared, disk, world, computed>>

(* Fill and close the temporary file; OSError goes to the finally clause. *)
WriteTemp(w) ==
  /\ pc[w] = "write" /\ (Goto(w, "replace") \/ Goto(w, "unlink"))
  /\ UNCHANGED <<key, value, answer, shared, disk, world, computed>>

(* os.replace: readers see the old entry or the new one *)
Replace(w) ==
  /\ pc[w] = "replace" /\ Goto(w, "unlink")
  /\ \/ disk' = [disk EXCEPT ![key[w]] = value[w]]
     \/ UNCHANGED disk
  /\ UNCHANGED <<key, value, answer, shared, world, computed>>

(* The temporary file goes, or it stays and nobody reads it. *)
Unlink(w) ==
  /\ pc[w] = "unlink" /\ AnswerWith(w, value[w])
  /\ UNCHANGED <<shared, disk, world, computed>>

Step(w) ==
  \/ LookInMemory(w) \/ LookOnDisk(w) \/ Compute(w) \/ Raise(w)
  \/ Publish(w) \/ Open(w) \/ WriteTemp(w) \/ Replace(w) \/ Unlink(w)

-----------------------------------------------------------------------------
(* The world outside *)

(* A process stops and starts again. *)
Crash(p) ==
  LET Reset(f, x) == [w \in Workers |-> IF ProcOf[w] = p THEN x ELSE f[w]] IN
  /\ crashes < Crashes /\ crashes' = crashes + 1
  /\ pc' = Reset(pc, "idle") /\ key' = Reset(key, NoKey)
  /\ value' = Reset(value, NoAnswer) /\ answer' = Reset(answer, NoAnswer)
  /\ memory' = [memory EXCEPT ![p] = << >>] /\ bytes' = [bytes EXCEPT ![p] = 0]
  /\ UNCHANGED <<disk, calls, tool, tears, computed>>

(* The machine loses power, or somebody edits the file: a broken entry. *)
Tear(k) ==
  /\ tears < Tears /\ disk[k] \notin {Absent, Torn} /\ tears' = tears + 1
  /\ disk' = [disk EXCEPT ![k] = Torn]
  /\ UNCHANGED <<private, shared, calls, tool, crashes, computed>>

(* Another solc or forge is installed under the same name. *)
Upgrade ==
  /\ tool < Upgrades /\ tool' = tool + 1
  /\ UNCHANGED <<private, shared, disk, calls, crashes, tears, computed>>

Next ==
  \/ \E w \in Workers : Step(w) \/ \E i \in Inputs : Call(w, i)
  \/ \E p \in Procs : Crash(p)
  \/ \E k \in Keys : Tear(k)
  \/ Upgrade

(* No step waits for another worker beyond the lock, which every holder
   releases in the same step: each thread is scheduled in the end. *)
Fairness == \A w \in Workers : WF_vars(Step(w))
Spec == Init /\ [][Next]_vars /\ Fairness

-----------------------------------------------------------------------------
(* Properties *)

(* Every variable stays in its type. *)
TypeOK ==
  /\ pc \in [Workers -> PCs] /\ key \in [Workers -> Keys \cup {NoKey}]
  /\ value \in [Workers -> Values \cup {NoAnswer}]
  /\ answer \in [Workers -> Values \cup {NoAnswer, Failed}]
  /\ memory \in [Procs -> Seq(Keys \X Values)] /\ bytes \in [Procs -> Nat]
  /\ disk \in [Keys -> Values \cup {Absent, Torn}]
  /\ calls \in 0 .. Calls /\ tool \in 0 .. Upgrades
  /\ crashes \in 0 .. Crashes /\ tears \in 0 .. Tears
  /\ computed \subseteq Keys \X Values

(* "Memory caches are bounded": _MEMORY_BYTES is the size of what is stored,
   no key is stored twice, and neither bound is passed between two puts. *)
MemoryIsBounded ==
  /\ TypeOK
  /\ \A p \in Procs :
       /\ bytes[p] = Bytes(memory[p]) /\ bytes[p] <= MaxEntry
       /\ Len(memory[p]) <= MaxEntries
       /\ IsInjective([i \in DOMAIN memory[p] |-> memory[p][i][1]])

(* put keeps what it was given, however full the memory is: what goes to make
   room is older. *)
NewestSurvives ==
  [][\A w \in Workers :
       pc[w] = "publish" /\ pc'[w] # "publish" /\ ~TooLarge(key[w])
         /\ crashes' = crashes
       => value[w] \in Stored(memory'[ProcOf[w]], key[w])]_vars

(* "Entries use atomic replacement": whatever fails or stops half way, a good
   entry is only ever replaced by a good one. *)
GoodEntriesStay ==
  [][tears' = tears =>
       \A k \in Keys : /\ disk[k] \in Values => disk'[k] \in Values
                       /\ disk[k] = Absent => disk'[k] # Torn]_vars

(* "Failures are never stored", a torn entry is a miss, and no key is ever
   answered with what was computed for another one. *)
Memo == INSTANCE HarnessMemo WITH asked <- key
Implements == Memo!Spec

(* Every call ends, whatever the disk does: as calls are bounded, in the end no
   thread is in one. *)
CallsEnd == <>[](\A w \in Workers : pc[w] = "idle")
=============================================================================
