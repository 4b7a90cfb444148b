----------------------- MODULE WorldAdoption_proofs -----------------------
(* Theorems about WorldAdoption for every value of its constants.           *)
EXTENDS WorldAdoption, Recursion, SequenceTheorems, TLAPS

USE DEF AddWord, FlooredSub

(* Accounts and worlds are closed under the open-world operations. *)

LEMMA MemoryFacts == ZeroMemory \in Memory /\ DefaultAccount \in Account
BY OpenWorldAssumption DEF ZeroMemory, Memory, DefaultAccount, Account, Word

LEMMA AccountOfType ==
  ASSUME NEW w \in World, NEW a \in Addrs
  PROVE  AccountOf(w, a) \in Account
BY MemoryFacts DEF AccountOf, World

LEMMA PutAccountFacts ==
  ASSUME NEW w \in World, NEW a \in Addrs, NEW account \in Account
  PROVE  /\ PutAccount(w, a, account) \in World
         /\ AccountOf(PutAccount(w, a, account), a) = account
BY NoAccountAssumption DEF PutAccount, AccountOf, World

LEMMA SetBalanceType ==
  ASSUME NEW w \in World, NEW a \in Addrs, NEW amount \in Word
  PROVE  SetBalance(w, a, amount) \in World
<1>1. [AccountOf(w, a) EXCEPT !.bal = amount] \in Account
  BY AccountOfType DEF Account
<1>2. QED  BY <1>1, PutAccountFacts DEF SetBalance

LEMMA WordFacts ==
  ASSUME NEW x \in Word, NEW y \in Word
  PROVE  AddWord(x, y) \in Word /\ FlooredSub(x, y) \in Word /\ 0 \in Word
BY OpenWorldAssumption DEF Word

LEMMA DebitType ==
  ASSUME NEW w \in World, NEW amount \in Word
  PROVE  Debit(w, amount) \in World
<1>1. AccountOf(w, Self).bal \in Word
  BY AccountOfType, OpenWorldAssumption DEF Account
<1>2. QED  BY <1>1, WordFacts, SetBalanceType, OpenWorldAssumption DEF Debit

LEMMA SweepType ==
  ASSUME NEW w \in World, NEW to \in Addrs
  PROVE  Sweep(w, to) \in World
<1>1. /\ AccountOf(w, Self).bal \in Word /\ AccountOf(w, to).bal \in Word
      /\ Self \in Addrs
  BY AccountOfType, OpenWorldAssumption DEF Account
<1>2. Credit(w, to, AccountOf(w, Self).bal) \in World
  BY <1>1, WordFacts, SetBalanceType DEF Credit
<1>3. QED  BY <1>1, <1>2, WordFacts, SetBalanceType DEF Sweep

LEMMA OverMemoryType ==
  ASSUME NEW new \in [Slots -> OptWord], NEW old \in Memory
  PROVE  OverMemory(new, old) \in Memory
BY DEF OverMemory, Over, OptWord, Memory

LEMMA ApplyToSelfType ==
  ASSUME NEW d \in Delta, NEW account \in Account
  PROVE  ApplyToSelf(d, account) \in Account
<1>1. /\ OverMemory(d.sto, account.sto) \in Memory
      /\ OverMemory(d.tr, account.tr) \in Memory
  BY OverMemoryType DEF Delta, Account
<1>2. Over(d.bal, account.bal) \in Word /\ Over(d.nonce, account.nonce) \in Word
  BY DEF Over, OptWord, Delta, Account
<1>3. QED  BY <1>1, <1>2 DEF ApplyToSelf, Account

LEMMA ApplyFactsType ==
  ASSUME NEW f \in Facts, NEW account \in Account
  PROVE  ApplyFacts(f, account) \in Account
<1>1. Over(f.bal, account.bal) \in Word /\ Over(f.code, account.code) \in Codes
  BY DEF Over, OptWord, Facts, Account
<1>2. QED  BY <1>1 DEF ApplyFacts, Account

LEMMA ApplyDeltaType ==
  ASSUME NEW d \in Delta, NEW w \in World
  PROVE  ApplyDelta(d, w) \in World
<1> DEFINE self == ApplyToSelf(d, AccountOf(w, Self))
           v == PutAccount(w, Self, self)
           acct == [a \in Addrs |->
                     IF a \in DOMAIN d.others
                     THEN ApplyFacts(d.others[a], AccountOf(v, a))
                     ELSE v.acct[a]]
<1>1. self \in Account
  BY AccountOfType, ApplyToSelfType, OpenWorldAssumption
<1>2. v \in World
  BY <1>1, PutAccountFacts, OpenWorldAssumption
<1> HIDE DEF v
<1>3. ASSUME NEW a \in Addrs, a \in DOMAIN d.others
      PROVE  ApplyFacts(d.others[a], AccountOf(v, a)) \in Account
  <2>1. d.others[a] \in Facts
    BY <1>3 DEF Delta
  <2>2. QED  BY <1>2, <2>1, AccountOfType, ApplyFactsType
<1>4. acct \in [Addrs -> Account \cup {NoAccount}]
  BY <1>2, <1>3 DEF World
<1> HIDE DEF acct
<1>5. v.logs \o d.logs \in Seq(Log) /\ v.created \cup d.created \in SUBSET Addrs
  BY <1>2 DEF World, Delta
<1>6. ApplyDelta(d, w) = [v EXCEPT !.acct = acct, !.logs = @ \o d.logs,
                                   !.created = @ \cup d.created]
  BY DEF ApplyDelta, v, acct
<1>7. QED  BY <1>2, <1>4, <1>5, <1>6 DEF World

LEMMA AnswerWorldType ==
  ASSUME NEW w \in World, NEW amount \in Word,
         NEW post \in Delta \cup {NoDelta}
  PROVE  AnswerWorld(w, amount, post) \in World
BY DebitType, ApplyDeltaType DEF AnswerWorld

-----------------------------------------------------------------------------
(* What a State sends out. *)

LEMMA CanonicalLogsFacts ==
  ASSUME NEW s \in SolState, s.evCount <= Len(s.evs)
  PROVE  /\ CanonicalLogs(s) \in Seq(Log)
         /\ s.evCount = Len(s.evs) => CanonicalLogs(s) = s.prefix
<1> DEFINE n == Len(s.evs) - s.evCount
           tail == [i \in 1 .. n |-> LogEntry(s.evs[s.evCount + i])]
<1>1. n \in Nat /\ s.evs \in Seq(Events) /\ s.prefix \in Seq(Log)
  BY DEF SolState
<1>2. ASSUME NEW i \in 1 .. n  PROVE LogEntry(s.evs[s.evCount + i]) \in Log
  <2>1. s.evCount + i \in 1 .. Len(s.evs)
    BY <1>1, <1>2 DEF SolState
  <2>2. s.evs[s.evCount + i] \in Events
    BY <1>1, <2>1
  <2>3. QED  BY <2>2, OpenWorldAssumption DEF LogEntry, Log
<1>3. tail \in Seq(Log) /\ (n = 0 => tail = << >>)
  BY <1>1, <1>2
<1> HIDE DEF tail
<1>4. CanonicalLogs(s) = s.prefix \o tail
  BY DEF CanonicalLogs, tail
<1>5. QED  BY <1>1, <1>3, <1>4 DEF SolState

LEMMA DestroyedFacts ==
  ASSUME NEW s \in SolState, NEW n \in Nat
  PROVE  /\ DestroyedSince(s, n) \in SUBSET Addrs
         /\ n = Len(s.sds) => DestroyedSince(s, n) = {}
<1>1. s.sds \in Seq(Destruction)
  BY DEF SolState
<1>2. ASSUME NEW i \in (n + 1) .. Len(s.sds)  PROVE s.sds[i].from \in Addrs
  <2>1. s.sds[i] \in Destruction
    BY <1>1, <1>2
  <2>2. QED  BY <2>1 DEF Destruction
<1>3. QED  BY <1>1, <1>2 DEF DestroyedSince

LEMMA SnapshotSelfType ==
  ASSUME NEW s \in SolState
  PROVE  SnapshotSelf(s) \in Account
<1>1. s.env # NoWorld => AccountOf(s.env, Self) \in Account
  BY AccountOfType, OpenWorldAssumption DEF SolState
<1>2. QED
  BY <1>1, OpenWorldAssumption, WorldAdoptionAssumption
     DEF SnapshotSelf, SolState, Account

(* The world sent out by a State that does not trust its dirty flag. *)
Full(s, created) ==
  IF s.env = NoWorld THEN SnapshotSeed(s, created) ELSE Overlay(s)

LEMMA SeedAccountType ==
  ASSUME NEW a \in Addrs
  PROVE  SeedAccount(a) \in Account
BY MemoryFacts, WorldAdoptionAssumption DEF SeedAccount, Account

LEMMA FullFacts ==
  ASSUME NEW s \in SolState, s.evCount <= Len(s.evs), NEW created \in SUBSET Addrs
  PROVE  /\ Full(s, created) \in World
         /\ AccountOf(Full(s, created), Self) = SnapshotSelf(s)
         /\ Full(s, created).logs = CanonicalLogs(s)
<1>1. /\ CanonicalLogs(s) \in Seq(Log) /\ SnapshotSelf(s) \in Account
      /\ DestroyedSince(s, 0) \in SUBSET Addrs
      /\ DestroyedSince(s, s.sdCount) \in SUBSET Addrs
      /\ Self \in Addrs /\ SnapshotSelf(s) # NoAccount
  BY CanonicalLogsFacts, SnapshotSelfType, DestroyedFacts, OpenWorldAssumption,
     NoAccountAssumption DEF SolState
<1>2. CASE s.env = NoWorld
  <2>1. Full(s, created) = SnapshotSeed(s, created)
    BY <1>2 DEF Full
  <2>2. SnapshotSeed(s, created) \in World
    BY <1>1, SeedAccountType DEF SnapshotSeed, World
  <2>3. QED  BY <1>1, <2>1, <2>2 DEF SnapshotSeed, AccountOf
<1>3. CASE s.env # NoWorld
  <2> DEFINE v == PutAccount(s.env, Self, SnapshotSelf(s))
  <2>1. v \in World /\ AccountOf(v, Self) = SnapshotSelf(s)
    BY <1>1, <1>3, PutAccountFacts DEF SolState
  <2> HIDE DEF v
  <2>2. Full(s, created) = [v EXCEPT !.sds = @ \cup DestroyedSince(s, s.sdCount),
                                     !.logs = CanonicalLogs(s)]
    BY <1>3 DEF Full, Overlay, v
  <2>3. QED  BY <1>1, <2>1, <2>2 DEF World, AccountOf
<1>4. QED  BY <1>2, <1>3

(* Worlds are equal when they agree on every field. *)
LEMMA WorldExt ==
  ASSUME NEW u \in World, NEW v \in World,
         u.sds = v.sds, u.logs = v.logs, u.created = v.created,
         \A a \in Addrs : u.acct[a] = v.acct[a]
  PROVE  u = v
<1>1. u.acct = v.acct
  BY DEF World
<1>2. QED  BY <1>1 DEF World

LEMMA PutFields ==
  ASSUME NEW w \in World, NEW a \in Addrs, NEW account \in Account
  PROVE  /\ PutAccount(w, a, account).acct = [w.acct EXCEPT ![a] = account]
         /\ PutAccount(w, a, account).sds = w.sds
         /\ PutAccount(w, a, account).logs = w.logs
         /\ PutAccount(w, a, account).created = w.created
BY DEF PutAccount, World

(* The other accounts of the world sent out: seeds, then adopted facts. *)
Other(s, a) ==
  IF s.env # NoWorld THEN s.env.acct[a]
  ELSE IF a \in SeedKnown THEN SeedAccount(a) ELSE NoAccount

LEMMA FullFields ==
  ASSUME NEW s \in SolState, s.evCount <= Len(s.evs), NEW created \in SUBSET Addrs
  PROVE  /\ \A a \in Addrs : Full(s, created).acct[a] =
                                IF a = Self THEN SnapshotSelf(s) ELSE Other(s, a)
         /\ Full(s, created).logs = CanonicalLogs(s)
         /\ Full(s, created).sds =
              IF s.env = NoWorld THEN DestroyedSince(s, 0)
              ELSE s.env.sds \cup DestroyedSince(s, s.sdCount)
         /\ Full(s, created).created = EnvCreated(s, created)
<1>1. CASE s.env = NoWorld
  BY <1>1 DEF Full, SnapshotSeed, Other, EnvCreated
<1>2. CASE s.env # NoWorld
  <2>1. /\ s.env \in World /\ SnapshotSelf(s) \in Account /\ Self \in Addrs
    BY <1>2, SnapshotSelfType, OpenWorldAssumption DEF SolState
  <2> DEFINE u == PutAccount(s.env, Self, SnapshotSelf(s))
  <2>2. /\ u.acct = [s.env.acct EXCEPT ![Self] = SnapshotSelf(s)]
        /\ u.sds = s.env.sds /\ u.logs = s.env.logs /\ u.created = s.env.created
        /\ u \in World
    BY <2>1, PutFields, PutAccountFacts
  <2>3. Full(s, created) = [u EXCEPT !.sds = @ \cup DestroyedSince(s, s.sdCount),
                                     !.logs = CanonicalLogs(s)]
    BY <1>2 DEF Full, Overlay
  <2> HIDE DEF u
  <2>4. QED  BY <1>2, <2>1, <2>2, <2>3 DEF World, Other, EnvCreated
<1>3. QED  BY <1>1, <1>2

(* Sending the adopted world verbatim from a clean State loses nothing: the
   full snapshot only materialises the self account. *)
LEMMA SnapshotFacts ==
  ASSUME NEW s \in SolState, Exact(s), NEW created \in SUBSET Addrs
  PROVE  /\ Snapshot(s, created) \in World
         /\ AccountOf(Snapshot(s, created), Self) = SnapshotSelf(s)
         /\ Snapshot(s, created).logs = CanonicalLogs(s)
         /\ Full(s, created) = PutAccount(Snapshot(s, created), Self, SnapshotSelf(s))
<1>1. s.evCount <= Len(s.evs) /\ s.evCount \in Nat /\ s.sdCount \in Nat
      /\ Self \in Addrs
  BY OpenWorldAssumption DEF Exact, SolState
<1>2. CASE s.env = NoWorld \/ s.dirty
  <2>1. Snapshot(s, created) = Full(s, created)
    BY <1>2 DEF Snapshot, Full
  <2>2. SnapshotSelf(s) # NoAccount
    BY SnapshotSelfType, NoAccountAssumption
  <2>3. Full(s, created).acct[Self] = SnapshotSelf(s)
    <3>1. CASE s.env = NoWorld
      BY <1>1, <3>1 DEF Full, SnapshotSeed
    <3>2. CASE s.env # NoWorld
      BY <1>1, <3>2 DEF Full, Overlay, PutAccount, SolState, World
    <3>3. QED  BY <3>1, <3>2
  <2>4. Full(s, created) = PutAccount(Full(s, created), Self, SnapshotSelf(s))
    BY <1>1, <2>3, FullFacts DEF PutAccount, World
  <2>5. QED  BY <1>1, <2>1, <2>4, FullFacts
<1>3. CASE s.env # NoWorld /\ ~s.dirty
  <2>1. /\ Snapshot(s, created) = s.env /\ s.env \in World
        /\ Full(s, created) = Overlay(s)
    BY <1>3 DEF Snapshot, Full, SolState
  <2>2. /\ AccountOf(s.env, Self) = SnapshotSelf(s)
        /\ s.env.logs = CanonicalLogs(s)
        /\ DestroyedSince(s, s.sdCount) = {}
    BY <1>1, <1>3, CanonicalLogsFacts, DestroyedFacts DEF Exact
  <2> DEFINE v == PutAccount(s.env, Self, SnapshotSelf(s))
  <2>3. v \in World /\ v.logs = s.env.logs
    BY <1>1, <2>1, PutAccountFacts, SnapshotSelfType DEF PutAccount, World
  <2> HIDE DEF v
  <2>4. Overlay(s) = v
    <3>1. Overlay(s) = [v EXCEPT !.sds = @ \cup {}, !.logs = v.logs]
      BY <2>2, <2>3 DEF Overlay, v
    <3>2. QED  BY <2>3, <3>1 DEF World
  <2>5. QED  BY <2>1, <2>2, <2>4 DEF v
<1>4. QED  BY <1>2, <1>3

-----------------------------------------------------------------------------
(* The operations of a State, seen through the world it sends out. *)

LEMMA PutTwice ==
  ASSUME NEW w \in World, NEW a \in Addrs, NEW x \in Account, NEW y \in Account
  PROVE  PutAccount(PutAccount(w, a, x), a, y) = PutAccount(w, a, y)
BY DEF PutAccount, World

(* A write to the self account that marks the State dirty is that write on
   the world. *)
LEMMA SelfWriteFacts ==
  ASSUME NEW s \in SolState, Exact(s), NEW t \in SolState, t.dirty,
         NEW created \in SUBSET Addrs,
         t.env = s.env, t.evs = s.evs, t.sds = s.sds, t.prefix = s.prefix,
         t.evCount = s.evCount, t.sdCount = s.sdCount
  PROVE  /\ Exact(t)
         /\ Snapshot(t, created) =
              PutAccount(Snapshot(s, created), Self, SnapshotSelf(t))
<1>1. Exact(t)
  BY DEF Exact
<1>2. Snapshot(t, created) = Full(t, created)
  BY DEF Snapshot, Full
<1>3. /\ CanonicalLogs(t) = CanonicalLogs(s)
      /\ \A n : DestroyedSince(t, n) = DestroyedSince(s, n)
  BY DEF CanonicalLogs, DestroyedSince
<1>4. /\ SnapshotSelf(s) \in Account /\ SnapshotSelf(t) \in Account
      /\ Self \in Addrs /\ s.evCount <= Len(s.evs)
      /\ Full(s, created) \in World
  BY SnapshotSelfType, OpenWorldAssumption, FullFacts DEF Exact
<1>5. Full(t, created) = PutAccount(Full(s, created), Self, SnapshotSelf(t))
  <2> DEFINE u == Full(t, created)
             v == PutAccount(Full(s, created), Self, SnapshotSelf(t))
  <2>1. u \in World /\ v \in World
    BY <1>1, <1>4, FullFacts, PutAccountFacts DEF Exact
  <2>2. /\ v.sds = Full(s, created).sds /\ v.logs = Full(s, created).logs
        /\ v.created = Full(s, created).created
        /\ v.acct = [Full(s, created).acct EXCEPT ![Self] = SnapshotSelf(t)]
    BY <1>4, PutFields
  <2>2a. \A a : Other(s, a) = Other(t, a)
    BY DEF Other
  <2>2b. t.evCount <= Len(t.evs)
    BY <1>1 DEF Exact
  <2>3. u.sds = v.sds /\ u.logs = v.logs /\ u.created = v.created
    <3>1. /\ Full(s, created).logs = CanonicalLogs(s)
          /\ Full(s, created).sds = IF s.env = NoWorld THEN DestroyedSince(s, 0)
               ELSE s.env.sds \cup DestroyedSince(s, s.sdCount)
          /\ Full(s, created).created = EnvCreated(s, created)
      BY <1>4, FullFields
    <3>2. /\ u.logs = CanonicalLogs(t)
          /\ u.sds = IF t.env = NoWorld THEN DestroyedSince(t, 0)
               ELSE t.env.sds \cup DestroyedSince(t, t.sdCount)
          /\ u.created = EnvCreated(t, created)
      BY <2>2b, FullFields
    <3>3. EnvCreated(s, created) = EnvCreated(t, created)
      BY DEF EnvCreated
    <3>4. /\ DestroyedSince(t, 0) = DestroyedSince(s, 0)
          /\ DestroyedSince(t, t.sdCount) = DestroyedSince(s, s.sdCount)
      BY <1>3
    <3> HIDE DEF u, v
    <3>5. QED  BY <1>3, <2>2, <3>1, <3>2, <3>3, <3>4
  <2>4. ASSUME NEW a \in Addrs  PROVE u.acct[a] = v.acct[a]
    <3>1. /\ u.acct[a] = IF a = Self THEN SnapshotSelf(t) ELSE Other(s, a)
          /\ Full(s, created).acct[a] = IF a = Self THEN SnapshotSelf(s) ELSE Other(s, a)
      BY <1>4, <2>2a, <2>2b, FullFields
    <3>2. a \in DOMAIN Full(s, created).acct
      BY <1>4 DEF World
    <3> HIDE DEF u, v
    <3>3. QED  BY <2>2, <3>1, <3>2
  <2> HIDE DEF u, v
  <2>5. QED  BY <2>1, <2>3, <2>4, WorldExt DEF u, v
<1>5a. Full(s, created) = PutAccount(Snapshot(s, created), Self, SnapshotSelf(s))
       /\ Snapshot(s, created) \in World
  BY SnapshotFacts
<1>6. QED  BY <1>1, <1>2, <1>4, <1>5, <1>5a, PutTwice

LEMMA ConcatAppend ==
  ASSUME NEW S, NEW a \in Seq(S), NEW b \in Seq(S), NEW x \in S
  PROVE  a \o Append(b, x) = Append(a \o b, x)
<1> DEFINE c == <<x>>
<1>1. a \o b \in Seq(S) /\ c \in Seq(S)
  BY ConcatProperties
<1>2. Append(b, x) = b \o c /\ Append(a \o b, x) = (a \o b) \o c
  BY <1>1, AppendIsConcat
<1> HIDE DEF c
<1>3. (a \o b) \o c = a \o (b \o c)
  BY <1>1, ConcatAssociative
<1>4. QED  BY <1>2, <1>3

LEMMA EmitFacts ==
  ASSUME NEW s \in SolState, Exact(s), NEW e \in Events,
         NEW created \in SUBSET Addrs
  PROVE  /\ EmitEvent(s, e) \in SolState /\ Exact(EmitEvent(s, e))
         /\ Snapshot(EmitEvent(s, e), created) =
              [PutAccount(Snapshot(s, created), Self, SnapshotSelf(s)) EXCEPT
                 !.logs = Append(@, LogEntry(e))]
<1> DEFINE t == EmitEvent(s, e)
<1>1. /\ t \in SolState /\ t.evs = Append(s.evs, e) /\ t.dirty
      /\ t.env = s.env /\ t.sds = s.sds /\ t.prefix = s.prefix
      /\ t.evCount = s.evCount /\ t.sdCount = s.sdCount
      /\ SnapshotSelf(t) = SnapshotSelf(s)
  <2>1. s.evs \in Seq(Events) /\ Append(s.evs, e) \in Seq(Events)
    BY DEF SolState
  <2>2. t \in SolState /\ t.evs = Append(s.evs, e) /\ t.dirty
    BY <2>1 DEF EmitEvent, SolState
  <2>3. /\ t.env = s.env /\ t.sds = s.sds /\ t.prefix = s.prefix
        /\ t.evCount = s.evCount /\ t.sdCount = s.sdCount
        /\ t.nonce = s.nonce /\ t.bal = s.bal /\ t.sto = s.sto /\ t.tr = s.tr
    BY DEF EmitEvent, SolState
  <2> HIDE DEF t
  <2>4. QED  BY <2>2, <2>3 DEF SnapshotSelf
<1> HIDE DEF t
<1>2. /\ s.evs \in Seq(Events) /\ Len(s.evs) \in Nat /\ s.evCount \in Nat
      /\ s.prefix \in Seq(Log) /\ s.evCount <= Len(s.evs)
      /\ Len(t.evs) = Len(s.evs) + 1
  BY <1>1 DEF SolState, Exact
<1>3. Exact(t)
  BY <1>1, <1>2 DEF Exact
<1>4. Snapshot(t, created) = Full(t, created)
  BY <1>1 DEF Snapshot, Full
<1>5. CanonicalLogs(t) = Append(CanonicalLogs(s), LogEntry(e))
  <2> DEFINE n == Len(s.evs) - s.evCount
             tail == [i \in 1 .. n |-> LogEntry(s.evs[s.evCount + i])]
             tail2 == [i \in 1 .. (n + 1) |-> LogEntry(t.evs[s.evCount + i])]
  <2>1. n \in Nat
    BY <1>2
  <2>2. ASSUME NEW i \in 1 .. n  PROVE LogEntry(s.evs[s.evCount + i]) \in Log
    <3>1. s.evCount + i \in 1 .. Len(s.evs)
      BY <1>2, <2>2
    <3>2. QED  BY <1>2, <3>1, OpenWorldAssumption DEF LogEntry, Log
  <2>3. LogEntry(e) \in Log
    BY OpenWorldAssumption DEF LogEntry, Log
  <2>4. tail \in Seq(Log) /\ Len(tail) = n
    BY <2>1, <2>2
  <2>5. ASSUME NEW i \in 1 .. (n + 1)
        PROVE  t.evs[s.evCount + i] = IF i = n + 1 THEN e ELSE s.evs[s.evCount + i]
    <3>1. s.evCount + i \in 1 .. (Len(s.evs) + 1)
      BY <1>2, <2>5
    <3>2. (s.evCount + i = Len(s.evs) + 1) <=> (i = n + 1)
      BY <1>2, <2>5
    <3>3. QED  BY <1>1, <1>2, <3>1, <3>2, AppendProperties
  <2>6. tail2 = Append(tail, LogEntry(e))
    <3>1. Append(tail, LogEntry(e)) =
            [i \in 1 .. (n + 1) |-> IF i = n + 1 THEN LogEntry(e) ELSE tail[i]]
      BY <2>1, <2>3, <2>4
    <3>2. \A i \in 1 .. (n + 1) :
            LogEntry(t.evs[s.evCount + i]) = IF i = n + 1 THEN LogEntry(e) ELSE tail[i]
      BY <2>1, <2>5
    <3> HIDE DEF tail
    <3>3. QED  BY <3>1, <3>2
  <2>7. CanonicalLogs(s) = s.prefix \o tail /\ CanonicalLogs(t) = s.prefix \o tail2
    <3>1. Len(t.evs) - t.evCount = n + 1
      BY <1>1, <1>2
    <3>2. QED  BY <1>1, <3>1 DEF CanonicalLogs
  <2> HIDE DEF tail, tail2
  <2>8. s.prefix \o Append(tail, LogEntry(e)) = Append(s.prefix \o tail, LogEntry(e))
    <3> HIDE DEF tail
    <3>1. s.prefix \in Seq(Log) /\ tail \in Seq(Log)
      BY <1>2, <2>4
    <3>2. \A a \in Seq(Log), b \in Seq(Log), x \in Log :
            a \o Append(b, x) = Append(a \o b, x)
      BY ConcatAppend
    <3> DEFINE l == LogEntry(e)
    <3> HIDE DEF l
    <3>3. l \in Log
      BY <2>3 DEF l
    <3>4. s.prefix \o Append(tail, l) = Append(s.prefix \o tail, l)
      BY <3>1, <3>2, <3>3
    <3>5. QED  BY <3>4 DEF l
  <2>9. QED  BY <2>6, <2>7, <2>8
<1>6. \A m : DestroyedSince(t, m) = DestroyedSince(s, m)
  BY <1>1 DEF DestroyedSince
<1>7. Full(t, created) = [Full(s, created) EXCEPT !.logs = Append(@, LogEntry(e))]
  <2> DEFINE v == Full(s, created)
             u == [v EXCEPT !.logs = CanonicalLogs(t)]
  <2>1. v \in World /\ v.logs = CanonicalLogs(s) /\ Full(t, created) \in World
    BY <1>1, <1>2, <1>3, FullFacts DEF Exact
  <2>2. CanonicalLogs(t) \in Seq(Log)
    BY <1>1, <1>3, CanonicalLogsFacts DEF Exact
  <2>3. /\ Full(t, created).sds = v.sds /\ Full(t, created).created = v.created
        /\ \A a \in Addrs : Full(t, created).acct[a] = v.acct[a]
        /\ Full(t, created).logs = CanonicalLogs(t)
    <3>1. t.evCount <= Len(t.evs)
      BY <1>3 DEF Exact
    <3>2. /\ v.sds = IF s.env = NoWorld THEN DestroyedSince(s, 0)
               ELSE s.env.sds \cup DestroyedSince(s, s.sdCount)
          /\ v.created = EnvCreated(s, created)
          /\ \A a \in Addrs : v.acct[a] = IF a = Self THEN SnapshotSelf(s) ELSE Other(s, a)
      BY <1>2, FullFields
    <3>3. /\ Full(t, created).sds = IF t.env = NoWorld THEN DestroyedSince(t, 0)
               ELSE t.env.sds \cup DestroyedSince(t, t.sdCount)
          /\ Full(t, created).created = EnvCreated(t, created)
          /\ Full(t, created).logs = CanonicalLogs(t)
          /\ \A a \in Addrs : Full(t, created).acct[a] =
                              IF a = Self THEN SnapshotSelf(t) ELSE Other(t, a)
      BY <1>1, <3>1, FullFields
    <3>4. /\ EnvCreated(s, created) = EnvCreated(t, created)
          /\ \A a : Other(s, a) = Other(t, a)
          /\ DestroyedSince(t, 0) = DestroyedSince(s, 0)
          /\ DestroyedSince(t, t.sdCount) = DestroyedSince(s, s.sdCount)
      BY <1>1, <1>6 DEF EnvCreated, Other
    <3> HIDE DEF v
    <3>5. QED  BY <1>1, <3>2, <3>3, <3>4
  <2> HIDE DEF v
  <2>4. /\ u \in World /\ u.sds = v.sds /\ u.created = v.created
        /\ u.acct = v.acct /\ u.logs = CanonicalLogs(t)
    BY <2>1, <2>2 DEF World
  <2> HIDE DEF u
  <2>5. Full(t, created) = u
    BY <2>1, <2>3, <2>4, WorldExt
  <2>6. QED  BY <1>5, <2>1, <2>5 DEF u, v
<1>8. QED  BY <1>1, <1>3, <1>4, <1>7, SnapshotFacts DEF t

(* Adoption: the next snapshot is the adopted world, exactly. *)
LEMMA AdoptFacts ==
  ASSUME NEW s \in SolState, NEW w \in World, NEW created \in SUBSET Addrs
  PROVE  /\ Adopt(w, s) \in SolState /\ Exact(Adopt(w, s))
         /\ Snapshot(Adopt(w, s), created) = w
<1> DEFINE t == Adopt(w, s)
           self == AccountOf(w, Self)
<1>1. /\ self \in Account /\ w \in World /\ w # NoWorld /\ w.logs \in Seq(Log)
      /\ Len(s.evs) \in Nat /\ Len(s.sds) \in Nat
  <2>1. w # NoWorld
    BY WorldAdoptionAssumption
  <2>2. w.logs \in Seq(Log)
    BY DEF World
  <2>3. Len(s.evs) \in Nat /\ Len(s.sds) \in Nat
    BY DEF SolState
  <2>4. QED  BY <2>1, <2>2, <2>3, AccountOfType, OpenWorldAssumption
<1> HIDE DEF self
<1>2. t = [s EXCEPT !.sto = self.sto, !.tr = self.tr, !.bal = self.bal,
                    !.nonce = self.nonce, !.env = w, !.dirty = FALSE,
                    !.prefix = w.logs, !.evCount = Len(s.evs),
                    !.sdCount = Len(s.sds)]
  BY DEF Adopt, self
<1>3. t \in SolState
  <2>1. self.sto \in Memory /\ self.tr \in Memory /\ self.bal \in Word /\ self.nonce \in Word
    BY <1>1 DEF Account
  <2>2. w \in World \cup {NoWorld} /\ FALSE \in BOOLEAN
    BY <1>1
  <2>3. t = [sto |-> self.sto, tr |-> self.tr, bal |-> self.bal, nonce |-> self.nonce,
             evs |-> s.evs, sds |-> s.sds, ext |-> s.ext, env |-> w, dirty |-> FALSE,
             prefix |-> w.logs, evCount |-> Len(s.evs), sdCount |-> Len(s.sds)]
    BY <1>2, ZenonT(30) DEF SolState
  <2>4. s.evs \in Seq(Events) /\ s.sds \in Seq(Destruction) /\ s.ext \in Seq(Interaction)
    BY DEF SolState
  <2> HIDE DEF t
  <2> QED
    BY <1>1, <2>1, <2>2, <2>3, <2>4 DEF SolState
<1>4. /\ t.env = w /\ t.dirty = FALSE /\ t.prefix = w.logs
      /\ t.evs = s.evs /\ t.evCount = Len(s.evs)
      /\ t.sds = s.sds /\ t.sdCount = Len(s.sds)
      /\ t.sto = self.sto /\ t.tr = self.tr /\ t.bal = self.bal
      /\ t.nonce = self.nonce
  BY <1>2 DEF SolState
<1> HIDE DEF t
<1>5. SnapshotSelf(t) = self
  BY <1>1, <1>4 DEF SnapshotSelf, Account, self
<1>6. Exact(t)
  BY <1>1, <1>4, <1>5 DEF Exact, self
<1>7. Snapshot(t, created) = w
  BY <1>1, <1>4 DEF Snapshot
<1>8. QED  BY <1>3, <1>6, <1>7 DEF t

LEMMA SweepSelf ==
  ASSUME NEW w \in World, NEW to \in Addrs
  PROVE  /\ AccountOf(Sweep(w, to), Self) = [AccountOf(w, Self) EXCEPT !.bal = 0]
         /\ Sweep(w, to).sds = w.sds /\ Sweep(w, to).logs = w.logs
         /\ Sweep(w, to).acct[Self] # NoAccount
<1> DEFINE amount == AccountOf(w, Self).bal
           v == Credit(w, to, amount)
           x == [AccountOf(v, Self) EXCEPT !.bal = 0]
<1>1. /\ amount \in Word /\ AccountOf(w, to) \in Account /\ Self \in Addrs
      /\ AccountOf(w, Self) \in Account /\ 0 \in Word
  BY AccountOfType, OpenWorldAssumption DEF Account, Word
<1>2. CASE amount = 0
  <2>1. v = w
    BY <1>2 DEF Credit
  <2>2. x \in Account /\ x = [AccountOf(w, Self) EXCEPT !.bal = 0]
    BY <1>1, <2>1 DEF Account
  <2>3. Sweep(w, to) = PutAccount(w, Self, x)
    BY <2>1 DEF Sweep, SetBalance
  <2> HIDE DEF x
  <2>4. QED
    <3>1. /\ AccountOf(PutAccount(w, Self, x), Self) = x
          /\ PutAccount(w, Self, x).sds = w.sds
          /\ PutAccount(w, Self, x).logs = w.logs
          /\ PutAccount(w, Self, x).acct = [w.acct EXCEPT ![Self] = x]
      BY <1>1, <2>2, PutAccountFacts, PutFields
    <3>2. Self \in DOMAIN w.acct /\ x # NoAccount
      BY <1>1, <2>2, NoAccountAssumption DEF World
    <3>3. QED  BY <2>2, <2>3, <3>1, <3>2
<1>3. CASE amount # 0
  <2> DEFINE y == [AccountOf(w, to) EXCEPT !.bal = AddWord(AccountOf(w, to).bal, amount)]
  <2>1. y \in Account
    <3>1. AddWord(AccountOf(w, to).bal, amount) \in Word
      BY <1>1, WordFacts DEF Account
    <3>2. QED  BY <1>1, <3>1 DEF Account
  <2>2. v = PutAccount(w, to, y)
    BY <1>3 DEF Credit, SetBalance
  <2>3. /\ v \in World /\ AccountOf(v, to) = y /\ v.sds = w.sds /\ v.logs = w.logs
        /\ v.acct = [w.acct EXCEPT ![to] = y]
    <3> HIDE DEF y, v
    <3>1. QED  BY <2>1, <2>2, PutAccountFacts, PutFields
  <2>4. x = [AccountOf(w, Self) EXCEPT !.bal = 0]
    <3>1. CASE to = Self
      <4>1. AccountOf(v, Self) = [AccountOf(w, Self) EXCEPT
                                    !.bal = AddWord(AccountOf(w, to).bal, amount)]
        BY <2>3, <3>1
      <4> HIDE DEF v
      <4>2. QED  BY <1>1, <4>1 DEF Account
    <3>2. CASE to # Self
      <4>1. AccountOf(v, Self) = AccountOf(w, Self)
        BY <1>1, <2>3, <3>2 DEF AccountOf, World
      <4>2. QED  BY <4>1
    <3>3. QED  BY <3>1, <3>2
  <2>5. x \in Account
    BY <1>1, <2>4 DEF Account
  <2>6. Sweep(w, to) = PutAccount(v, Self, x)
    BY DEF Sweep, SetBalance
  <2> HIDE DEF x, v, y
  <2>7. QED
    <3>1. /\ AccountOf(PutAccount(v, Self, x), Self) = x
          /\ PutAccount(v, Self, x).sds = w.sds
          /\ PutAccount(v, Self, x).logs = w.logs
          /\ PutAccount(v, Self, x).acct = [v.acct EXCEPT ![Self] = x]
      <4>1. Self \in Addrs /\ v \in World /\ v.sds = w.sds /\ v.logs = w.logs
        BY <1>1, <2>3
      <4>2. QED  BY <2>5, <4>1, PutAccountFacts, PutFields
    <3>2. Self \in DOMAIN v.acct /\ x # NoAccount
      BY <1>1, <2>3, <2>5, NoAccountAssumption DEF World
    <3>3. QED  BY <2>4, <2>6, <3>1, <3>2
<1>4. QED  BY <1>2, <1>3

LEMMA DestroyedSent ==
  ASSUME NEW s \in SolState, Exact(s), NEW created \in SUBSET Addrs
  PROVE  DestroyedSince(s, s.sdCount) \subseteq Snapshot(s, created).sds
<1>1. s.evCount <= Len(s.evs) /\ s.sdCount \in Nat
  BY DEF Exact, SolState
<1>2. CASE s.env = NoWorld \/ s.dirty
  <2>1. Snapshot(s, created) = Full(s, created)
    BY <1>2 DEF Snapshot, Full
  <2>2. s.env = NoWorld => s.sdCount = 0
    BY DEF Exact
  <2>3. QED  BY <1>1, <2>1, <2>2, FullFields
<1>3. CASE s.env # NoWorld /\ ~s.dirty
  <2>1. DestroyedSince(s, s.sdCount) = {}
    BY <1>1, <1>3, DestroyedFacts DEF Exact
  <2>2. QED  BY <2>1
<1>4. QED  BY <1>2, <1>3

(* SELFDESTRUCT is the sweep on the world, plus one member of the
   selfdestruct set; the log series survives although its split point does
   not move. *)
LEMMA DestroyFacts ==
  ASSUME NEW s \in SolState, Exact(s), NEW created \in SUBSET Addrs,
         NEW to \in Addrs, NEW c \in SUBSET Addrs
  PROVE  LET t == RecordSelfdestruct(SelfdestructTransfer(s, created, to), c, to)
         IN  /\ t \in SolState /\ Exact(t)
             /\ Snapshot(t, created) =
                  [Sweep(Snapshot(s, created), to) EXCEPT !.sds = @ \cup {Self}]
<1> DEFINE w == Snapshot(s, created)
           v == Sweep(w, to)
           r == [from |-> Self, to |-> to, deletes |-> ~CancunOrLater \/ Self \in c]
           t == RecordSelfdestruct(SelfdestructTransfer(s, created, to), c, to)
           u == [v EXCEPT !.sds = @ \cup {Self}]
<1>1. /\ w \in World /\ AccountOf(w, Self) = SnapshotSelf(s)
      /\ w.logs = CanonicalLogs(s)
  BY SnapshotFacts
<1>2. /\ v \in World /\ v # NoWorld /\ v.sds = w.sds /\ v.logs = w.logs
      /\ v.acct[Self] = [SnapshotSelf(s) EXCEPT !.bal = 0]
      /\ AccountOf(v, Self) = v.acct[Self]
  <2>1. v \in World
    BY <1>1, SweepType
  <2>2. v # NoWorld
    BY <2>1, WorldAdoptionAssumption
  <2>3. /\ AccountOf(v, Self) = [SnapshotSelf(s) EXCEPT !.bal = 0]
        /\ v.sds = w.sds /\ v.logs = w.logs /\ v.acct[Self] # NoAccount
    BY <1>1, SweepSelf
  <2> HIDE DEF v, w
  <2>4. QED  BY <2>1, <2>2, <2>3 DEF AccountOf
<1>3. r \in Destruction /\ s.sds \in Seq(Destruction) /\ Append(s.sds, r) \in Seq(Destruction)
  BY OpenWorldAssumption, WorldAdoptionAssumption DEF Destruction, SolState
<1> HIDE DEF r, v, w
<1>4. t = [s EXCEPT !.bal = 0, !.dirty = TRUE, !.env = v, !.sds = Append(s.sds, r)]
  BY DEF RecordSelfdestruct, SelfdestructTransfer, SolState, r, v, w
<1>5. t \in SolState
  <2>1. 0 \in Word /\ v \in World \cup {NoWorld} /\ TRUE \in BOOLEAN
    BY <1>2, OpenWorldAssumption DEF Word
  <2> HIDE DEF t
  <2>2. QED  BY <1>3, <1>4, <2>1 DEF SolState
<1>6. /\ t.bal = 0 /\ t.dirty /\ t.env = v /\ t.sds = Append(s.sds, r)
      /\ t.sto = s.sto /\ t.tr = s.tr /\ t.nonce = s.nonce /\ t.evs = s.evs
      /\ t.prefix = s.prefix /\ t.evCount = s.evCount /\ t.sdCount = s.sdCount
  BY <1>4 DEF SolState
<1> HIDE DEF t
<1>7. Exact(t)
  <2>1. s.sdCount \in Nat /\ Len(t.sds) = Len(s.sds) + 1 /\ Len(s.sds) \in Nat
    BY <1>3, <1>6 DEF SolState
  <2>2. QED  BY <1>2, <1>6, <2>1 DEF Exact
<1>8. SnapshotSelf(t) = v.acct[Self]
  BY <1>2, <1>6 DEF SnapshotSelf
<1>9. DestroyedSince(t, t.sdCount) = DestroyedSince(s, s.sdCount) \cup {Self}
  <2> DEFINE n == Len(s.sds)
             k == s.sdCount
  <2>1. n \in Nat /\ k \in Nat /\ k <= n /\ Len(t.sds) = n + 1
    BY <1>3, <1>6 DEF Exact, SolState
  <2>2. /\ \A i \in 1 .. n : t.sds[i] = s.sds[i]
        /\ t.sds[n + 1] = r /\ r.from = Self
    BY <1>3, <1>6, AppendProperties DEF r
  <2> HIDE DEF n
  <2>3. {t.sds[i].from : i \in (k + 1) .. (n + 1)} =
          {s.sds[i].from : i \in (k + 1) .. n} \cup {Self}
    <3>1. (k + 1) .. (n + 1) = ((k + 1) .. n) \cup {n + 1}
      BY <2>1
    <3>2. \A i \in (k + 1) .. n : t.sds[i].from = s.sds[i].from
      BY <2>1, <2>2
    <3>3. QED  BY <2>2, <3>1, <3>2
  <2>4. QED  BY <1>6, <2>1, <2>3 DEF DestroyedSince, n
<1>10. Snapshot(t, created) = u
  <2>1. u \in World /\ u.acct = v.acct /\ u.logs = v.logs /\ u.created = v.created
        /\ u.sds = v.sds \cup {Self}
    BY <1>2, OpenWorldAssumption DEF World
  <2> HIDE DEF u
  <2>2. Snapshot(t, created) = Full(t, created)
    BY <1>6 DEF Snapshot, Full
  <2>3. t.evCount <= Len(t.evs)
    BY <1>7 DEF Exact
  <2>4. Full(t, created) \in World
    BY <1>5, <2>3, FullFacts
  <2>5. /\ \A a \in Addrs : Full(t, created).acct[a] =
                 IF a = Self THEN SnapshotSelf(t) ELSE Other(t, a)
        /\ Full(t, created).logs = CanonicalLogs(t)
        /\ Full(t, created).sds = IF t.env = NoWorld THEN DestroyedSince(t, 0)
             ELSE t.env.sds \cup DestroyedSince(t, t.sdCount)
        /\ Full(t, created).created = EnvCreated(t, created)
    BY <1>5, <2>3, FullFields
  <2>6. CanonicalLogs(t) = CanonicalLogs(s)
    BY <1>6 DEF CanonicalLogs
  <2>7. /\ EnvCreated(t, created) = v.created
        /\ \A a \in Addrs : Other(t, a) = v.acct[a]
    BY <1>2, <1>6 DEF EnvCreated, Other
  <2>8. DestroyedSince(s, s.sdCount) \subseteq v.sds
    BY <1>2, DestroyedSent DEF w
  <2>9. Full(t, created).sds = u.sds
    BY <1>2, <1>6, <1>9, <2>1, <2>5, <2>8
  <2>10. \A a \in Addrs : Full(t, created).acct[a] = u.acct[a]
    BY <1>8, <2>1, <2>5, <2>7
  <2>11. Full(t, created).logs = u.logs /\ Full(t, created).created = u.created
    BY <1>1, <1>2, <2>1, <2>5, <2>6, <2>7
  <2>12. QED  BY <2>1, <2>2, <2>4, <2>9, <2>10, <2>11, WorldExt
<1>11. QED  BY <1>5, <1>7, <1>10 DEF t, v, w

(* The writes a body makes, each as a write on the world it would send. *)
LEMMA StoreFacts ==
  ASSUME NEW s \in SolState, Exact(s), NEW created \in SUBSET Addrs,
         NEW m \in Memory, NEW t, t = [s EXCEPT !.sto = m, !.dirty = TRUE]
  PROVE  /\ t \in SolState /\ Exact(t)
         /\ Snapshot(t, created) =
           PutAccount(Snapshot(s, created), Self,
             [AccountOf(Snapshot(s, created), Self) EXCEPT !.sto = m])
<1>1. t \in SolState
  BY DEF SolState
<1>2. /\ t.dirty /\ t.env = s.env /\ t.evs = s.evs /\ t.sds = s.sds
      /\ t.prefix = s.prefix /\ t.evCount = s.evCount /\ t.sdCount = s.sdCount
      /\ t.sto = m /\ t.tr = s.tr /\ t.bal = s.bal /\ t.nonce = s.nonce
  BY DEF SolState
<1>3. SnapshotSelf(t) = [SnapshotSelf(s) EXCEPT !.sto = m]
  BY <1>2 DEF SnapshotSelf
<1>4. /\ Exact(t)
      /\ Snapshot(t, created) = PutAccount(Snapshot(s, created), Self, SnapshotSelf(t))
  BY <1>1, <1>2, SelfWriteFacts
<1>5. AccountOf(Snapshot(s, created), Self) = SnapshotSelf(s)
  BY SnapshotFacts
<1>6. QED  BY <1>1, <1>3, <1>4, <1>5

LEMMA TransientFacts ==
  ASSUME NEW s \in SolState, Exact(s), NEW created \in SUBSET Addrs,
         NEW m \in Memory, NEW t, t = [s EXCEPT !.tr = m, !.dirty = TRUE]
  PROVE  /\ t \in SolState /\ Exact(t)
         /\ Snapshot(t, created) =
           PutAccount(Snapshot(s, created), Self,
             [AccountOf(Snapshot(s, created), Self) EXCEPT !.tr = m])
<1>1. t \in SolState
  BY DEF SolState
<1>2. /\ t.dirty /\ t.env = s.env /\ t.evs = s.evs /\ t.sds = s.sds
      /\ t.prefix = s.prefix /\ t.evCount = s.evCount /\ t.sdCount = s.sdCount
      /\ t.sto = s.sto /\ t.tr = m /\ t.bal = s.bal /\ t.nonce = s.nonce
  BY DEF SolState
<1>3. SnapshotSelf(t) = [SnapshotSelf(s) EXCEPT !.tr = m]
  BY <1>2 DEF SnapshotSelf
<1>4. /\ Exact(t)
      /\ Snapshot(t, created) = PutAccount(Snapshot(s, created), Self, SnapshotSelf(t))
  BY <1>1, <1>2, SelfWriteFacts
<1>5. AccountOf(Snapshot(s, created), Self) = SnapshotSelf(s)
  BY SnapshotFacts
<1>6. QED  BY <1>1, <1>3, <1>4, <1>5

LEMMA BalanceFacts ==
  ASSUME NEW s \in SolState, Exact(s), NEW created \in SUBSET Addrs,
         NEW b \in Word, NEW t, t = [s EXCEPT !.bal = b, !.dirty = TRUE]
  PROVE  /\ t \in SolState /\ Exact(t)
         /\ Snapshot(t, created) =
           SetBalance(Snapshot(s, created), Self, b)
<1>1. t \in SolState
  BY DEF SolState
<1>2. /\ t.dirty /\ t.env = s.env /\ t.evs = s.evs /\ t.sds = s.sds
      /\ t.prefix = s.prefix /\ t.evCount = s.evCount /\ t.sdCount = s.sdCount
      /\ t.sto = s.sto /\ t.tr = s.tr /\ t.bal = b /\ t.nonce = s.nonce
  BY DEF SolState
<1>3. SnapshotSelf(t) = [SnapshotSelf(s) EXCEPT !.bal = b]
  BY <1>2 DEF SnapshotSelf
<1>4. /\ Exact(t)
      /\ Snapshot(t, created) = PutAccount(Snapshot(s, created), Self, SnapshotSelf(t))
  BY <1>1, <1>2, SelfWriteFacts
<1>5. AccountOf(Snapshot(s, created), Self) = SnapshotSelf(s)
  BY SnapshotFacts
<1>6. QED  BY <1>1, <1>3, <1>4, <1>5 DEF SetBalance

(* The transcript is not part of the world. *)
LEMMA RecordFacts ==
  ASSUME NEW s \in SolState, Exact(s), NEW created \in SUBSET Addrs,
         NEW i \in Interaction
  PROVE  LET t == RecordInteraction(s, i)
         IN  /\ t \in SolState /\ Exact(t)
             /\ Snapshot(t, created) = Snapshot(s, created)
<1> DEFINE t == RecordInteraction(s, i)
<1>1. /\ t \in SolState /\ t.dirty = s.dirty /\ t.env = s.env /\ t.evs = s.evs
      /\ t.sds = s.sds /\ t.prefix = s.prefix /\ t.evCount = s.evCount
      /\ t.sdCount = s.sdCount
      /\ SnapshotSelf(t) = SnapshotSelf(s)
  <2>1. Append(s.ext, i) \in Seq(Interaction)
    BY DEF SolState
  <2>2. QED  BY <2>1 DEF RecordInteraction, SolState, SnapshotSelf
<1> HIDE DEF t
<1>2. CanonicalLogs(t) = CanonicalLogs(s) /\ \A n : DestroyedSince(t, n) = DestroyedSince(s, n)
  BY <1>1 DEF CanonicalLogs, DestroyedSince
<1>3. Exact(t)
  BY <1>1 DEF Exact
<1>4. Snapshot(t, created) = Snapshot(s, created)
  <2>1. DestroyedSince(t, 0) = DestroyedSince(s, 0)
        /\ DestroyedSince(t, t.sdCount) = DestroyedSince(s, s.sdCount)
    BY <1>1, <1>2
  <2>2. SnapshotSeed(t, created) = SnapshotSeed(s, created)
    BY <1>1, <1>2, <2>1 DEF SnapshotSeed
  <2>3. Overlay(t) = Overlay(s)
    BY <1>1, <1>2, <2>1 DEF Overlay
  <2>4. QED  BY <1>1, <2>2, <2>3 DEF Snapshot
<1>5. QED  BY <1>1, <1>3, <1>4 DEF t

(* A Context matters to the world only through its created set, and only
   before the first adoption. *)
LEMMA ReseedFacts ==
  ASSUME NEW s \in SolState, Exact(s),
         NEW c \in SUBSET Addrs, NEW d \in SUBSET Addrs
  PROVE  /\ EnvCreated(s, d) \in SUBSET Addrs
         /\ Snapshot(s, d) = [Snapshot(s, c) EXCEPT !.created = EnvCreated(s, d)]
<1>1. CASE s.env = NoWorld
  <2>1. EnvCreated(s, d) = d
    BY <1>1 DEF EnvCreated
  <2>2. SnapshotSeed(s, d) = [SnapshotSeed(s, c) EXCEPT !.created = d]
    <3> DEFINE A == SnapshotSeed(s, c).acct
               S == SnapshotSeed(s, c).sds
               L == SnapshotSeed(s, c).logs
    <3>1. /\ SnapshotSeed(s, c) = [acct |-> A, sds |-> S, logs |-> L, created |-> c]
          /\ SnapshotSeed(s, d) = [acct |-> A, sds |-> S, logs |-> L, created |-> d]
      BY DEF SnapshotSeed
    <3> HIDE DEF A, S, L
    <3>2. QED  BY <3>1
  <2>3. QED  BY <1>1, <2>1, <2>2 DEF Snapshot
<1>2. CASE s.env # NoWorld
  <2>1. Snapshot(s, d) = Snapshot(s, c) /\ Snapshot(s, c) \in World
    BY <1>2, SnapshotFacts DEF Snapshot
  <2>2. Snapshot(s, c).created = s.env.created /\ s.env \in World
    <3>1. s.env \in World
      BY <1>2 DEF SolState
    <3>2. CASE s.dirty
      <4>1. Snapshot(s, c) = Full(s, c) /\ s.evCount <= Len(s.evs)
        BY <1>2, <3>2 DEF Snapshot, Full, Exact
      <4>2. QED  BY <1>2, <3>1, <4>1, FullFields DEF EnvCreated
    <3>3. CASE ~s.dirty
      BY <1>2, <3>1, <3>3 DEF Snapshot
    <3>4. QED  BY <3>1, <3>2, <3>3
  <2>3. QED  BY <1>2, <2>1, <2>2 DEF EnvCreated, World
<1>3. QED  BY <1>1, <1>2

-----------------------------------------------------------------------------
(* The inductive invariant. *)

Inv == TypeOK /\ CleanIsExact
Good(s) == s \in SolState /\ Exact(s)

LEMMA InitialGood == Good(InitialState)
<1>1. InitialState \in SolState
  BY MemoryFacts, OpenWorldAssumption DEF InitialState, SolState, Word
<1>2. Exact(InitialState)
  BY DEF InitialState, Exact
<1>3. QED  BY <1>1, <1>2 DEF Good

LEMMA EndingFacts ==
  ASSUME NEW s, Good(s), NEW kind, NEW created \in SUBSET Addrs
  PROVE  /\ Good(Ending(s, kind))
         /\ \/ Snapshot(Ending(s, kind), created) = Snapshot(s, created)
            \/ Snapshot(Ending(s, kind), created) =
                 PutAccount(Snapshot(s, created), Self,
                   [AccountOf(Snapshot(s, created), Self) EXCEPT !.tr = ZeroMemory])
<1>1. CASE kind = "transaction"
  <2>1. Ending(s, kind) = [s EXCEPT !.tr = ZeroMemory, !.dirty = TRUE]
    BY <1>1 DEF Ending, ClearTransient
  <2>2. s \in SolState /\ Exact(s) /\ ZeroMemory \in Memory
    BY MemoryFacts DEF Good
  <2> DEFINE t == Ending(s, kind)
             m == ZeroMemory
  <2> HIDE DEF t, m
  <2>2a. t = [s EXCEPT !.tr = m, !.dirty = TRUE] /\ m \in Memory
    BY <2>1, <2>2 DEF t, m
  <2>3. /\ t \in SolState /\ Exact(t)
        /\ Snapshot(t, created) =
             PutAccount(Snapshot(s, created), Self,
               [AccountOf(Snapshot(s, created), Self) EXCEPT !.tr = m])
    BY <2>2, <2>2a, TransientFacts
  <2>4. QED  BY <2>3 DEF Good, t, m
<1>2. CASE kind # "transaction"
  BY <1>2 DEF Ending
<1>3. QED  BY <1>1, <1>2

(* What one step of the machine does to the current and the saved State. *)
LEMMA RebaseFacts ==
  ASSUME NEW s, Good(s), NEW value \in Values, NEW created \in SUBSET Addrs
  PROVE  /\ Good(Rebase(s, value))
         /\ \E b \in Word : Snapshot(Rebase(s, value), created) =
                              SetBalance(Snapshot(s, created), Self, b)
<1> DEFINE b == AddWord(IF Self \in SeedKnown THEN SeedBalance[Self] ELSE 0, value)
<1>1. b \in Word
  <2>1. (IF Self \in SeedKnown THEN SeedBalance[Self] ELSE 0) \in Word
    BY OpenWorldAssumption, WorldAdoptionAssumption DEF Word
  <2>2. value \in Word
    BY WorldAdoptionAssumption
  <2>3. QED  BY <2>1, <2>2, WordFacts
<1>2. Rebase(s, value) = [s EXCEPT !.bal = b, !.dirty = TRUE]
  BY DEF Rebase
<1> HIDE DEF b
<1>3. s \in SolState /\ Exact(s)
  BY DEF Good
<1> DEFINE t == Rebase(s, value)
<1> HIDE DEF t
<1>4. /\ t \in SolState /\ Exact(t)
      /\ Snapshot(t, created) = SetBalance(Snapshot(s, created), Self, b)
  BY <1>1, <1>2, <1>3, BalanceFacts, ZenonT(30) DEF t
<1>5. QED  BY <1>1, <1>4 DEF Good, t

LEMMA ResumeFacts ==
  ASSUME TypeOK, Good(st), phase = "asked", NEW w \in World,
         NEW success \in BOOLEAN, NEW created \in SUBSET Addrs
  PROVE  LET i == [kind |-> query.kind, value |-> query.value, success |-> success]
             t == RecordInteraction(Adopt(w, st), i)
         IN  Good(t) /\ Snapshot(t, created) = w
<1> DEFINE i == [kind |-> query.kind, value |-> query.value, success |-> success]
<1>1. i \in Interaction
  BY WorldAdoptionAssumption DEF TypeOK, Queries, Interaction
<1>2. Adopt(w, st) \in SolState /\ Exact(Adopt(w, st)) /\ Snapshot(Adopt(w, st), created) = w
  BY AdoptFacts DEF Good
<1> HIDE DEF i
<1>3. QED  BY <1>1, <1>2, RecordFacts DEF Good, i

LEMMA AnswerRowWorld ==
  ASSUME TypeOK, Good(st), phase = "asked", NEW row \in Rows
  PROVE  LET debit == SelfBalanceDebit([kind |-> query.kind, value |-> query.value,
                                        success |-> row.success])
         IN  debit \in Word /\ AnswerWorld(Sent, debit, row.post) \in World
<1> DEFINE debit == SelfBalanceDebit([kind |-> query.kind, value |-> query.value,
                                      success |-> row.success])
<1>1. debit \in Word
  <2>1. query \in Queries
    BY DEF TypeOK
  <2>2. query.value \in Word /\ 0 \in Word
    BY <2>1, WordFacts, WorldAdoptionAssumption DEF Queries
  <2>3. QED  BY <2>2 DEF SelfBalanceDebit
<1>2. row.post \in Delta \cup {NoDelta}
  BY RowAssumption DEF Row
<1>3. Sent \in World
  BY SnapshotFacts DEF TypeOK, Context, Good, Sent
<1> HIDE DEF debit
<1>4. QED  BY <1>1, <1>2, <1>3, AnswerWorldType DEF debit

(* A write of the body, and the end of a call, as each action uses them. *)
LEMMA BodyWrites ==
  ASSUME Inv, NEW created \in SUBSET Addrs
  PROVE  /\ \A k \in Slots, v \in Values :
              /\ Good(StoreSlot(st, k, v)) /\ Good(StoreTransientSlot(st, k, v))
              /\ \E m \in Memory :
                   Snapshot(StoreSlot(st, k, v), created) =
                     PutAccount(Snapshot(st, created), Self,
                       [AccountOf(Snapshot(st, created), Self) EXCEPT !.sto = m])
              /\ \E m \in Memory :
                   Snapshot(StoreTransientSlot(st, k, v), created) =
                     PutAccount(Snapshot(st, created), Self,
                       [AccountOf(Snapshot(st, created), Self) EXCEPT !.tr = m])
         /\ \A e \in Events :
              /\ Good(EmitEvent(st, e))
              /\ Snapshot(EmitEvent(st, e), created) =
                   [PutAccount(Snapshot(st, created), Self,
                               AccountOf(Snapshot(st, created), Self)) EXCEPT
                      !.logs = Append(@, LogEntry(e))]
<1>1. st \in SolState /\ Exact(st)
  BY DEF Inv, TypeOK, CleanIsExact
<1>2. ASSUME NEW k \in Slots, NEW v \in Values
      PROVE  /\ Good(StoreSlot(st, k, v))
             /\ \E m \in Memory :
                  Snapshot(StoreSlot(st, k, v), created) =
                    PutAccount(Snapshot(st, created), Self,
                      [AccountOf(Snapshot(st, created), Self) EXCEPT !.sto = m])
  <2> DEFINE m == [st.sto EXCEPT ![k] = v]
             t == StoreSlot(st, k, v)
  <2>1. m \in Memory /\ t = [st EXCEPT !.sto = m, !.dirty = TRUE]
    BY <1>1, WorldAdoptionAssumption DEF SolState, Memory, StoreSlot
  <2> HIDE DEF m, t
  <2>2. /\ t \in SolState /\ Exact(t)
        /\ Snapshot(t, created) = PutAccount(Snapshot(st, created), Self,
             [AccountOf(Snapshot(st, created), Self) EXCEPT !.sto = m])
    BY <1>1, <2>1, StoreFacts
  <2>3. QED  BY <2>1, <2>2 DEF Good, t
<1>3. ASSUME NEW k \in Slots, NEW v \in Values
      PROVE  /\ Good(StoreTransientSlot(st, k, v))
             /\ \E m \in Memory :
                  Snapshot(StoreTransientSlot(st, k, v), created) =
                    PutAccount(Snapshot(st, created), Self,
                      [AccountOf(Snapshot(st, created), Self) EXCEPT !.tr = m])
  <2> DEFINE m == [st.tr EXCEPT ![k] = v]
             t == StoreTransientSlot(st, k, v)
  <2>1. m \in Memory /\ t = [st EXCEPT !.tr = m, !.dirty = TRUE]
    BY <1>1, WorldAdoptionAssumption DEF SolState, Memory, StoreTransientSlot
  <2> HIDE DEF m, t
  <2>2. /\ t \in SolState /\ Exact(t)
        /\ Snapshot(t, created) = PutAccount(Snapshot(st, created), Self,
             [AccountOf(Snapshot(st, created), Self) EXCEPT !.tr = m])
    BY <1>1, <2>1, TransientFacts
  <2>3. QED  BY <2>1, <2>2 DEF Good, t
<1>4. AccountOf(Snapshot(st, created), Self) = SnapshotSelf(st)
  BY <1>1, SnapshotFacts
<1>5. QED  BY <1>1, <1>2, <1>3, <1>4, EmitFacts DEF Good

LEMMA DestroyGood ==
  ASSUME Inv, NEW to \in Addrs
  PROVE  LET t == RecordSelfdestruct(SelfdestructTransfer(st, ctx.created, to),
                                     EnvCreated(st, ctx.created), to)
         IN  /\ Good(t)
             /\ Snapshot(t, ctx.created) = [Sweep(Sent, to) EXCEPT !.sds = @ \cup {Self}]
<1>1. st \in SolState /\ Exact(st) /\ ctx.created \in SUBSET Addrs
  BY DEF Inv, TypeOK, CleanIsExact, Context
<1>2. EnvCreated(st, ctx.created) \in SUBSET Addrs
  BY <1>1, ReseedFacts
<1>3. QED  BY <1>1, <1>2, DestroyFacts DEF Good, Sent

LEMMA FinishInv ==
  ASSUME Inv, NEW s, Good(s), Finish(s), left' \in 0 .. MaxOps
  PROVE  Inv'
<1>1. ctx.created \in SUBSET Addrs
  BY DEF Inv, TypeOK, Context
<1>2. Good(Ending(s, ctx.kind))
  BY <1>1, EndingFacts
<1>3. QED  BY <1>2 DEF Inv, TypeOK, CleanIsExact, Finish, Good

LEMMA InvStep == Inv /\ [Next]_vars => Inv'
<1> SUFFICES ASSUME Inv, [Next]_vars  PROVE Inv'
  OBVIOUS
<1>1. /\ TypeOK /\ Good(st) /\ Good(entry) /\ ctx.created \in SUBSET Addrs
      /\ left \in 0 .. MaxOps
  BY DEF Inv, TypeOK, CleanIsExact, Good, Context
<1>2. Spend => left' \in 0 .. MaxOps
  BY <1>1, WorldAdoptionAssumption DEF Spend
<1>3. ASSUME NEW kind \in {"messageCall", "transaction"}, NEW c \in SUBSET Addrs,
             NEW value \in Values, NEW payable \in BOOLEAN,
             Enter(kind, c, value, payable)
      PROVE  Inv'
  <2>1. Good(Ending(st, kind)) /\ entry' = Ending(st, kind)
    BY <1>1, <1>3, EndingFacts DEF Enter
  <2>2. Good(Rebase(entry', value)) /\ Good(Ending(entry', kind))
    BY <1>1, <2>1, RebaseFacts, EndingFacts
  <2>3. ctx' \in Context
    BY <1>3, WorldAdoptionAssumption DEF Enter, Context
  <2>4. QED
    BY <1>1, <1>2, <1>3, <2>1, <2>2, <2>3 DEF Enter, Inv, TypeOK, CleanIsExact, Good
<1>4. ASSUME NEW s, Good(s), Body(s)  PROVE Inv'
  BY <1>1, <1>2, <1>4 DEF Body, Inv, TypeOK, CleanIsExact, Good
<1>5. CASE Store \/ TransientStore \/ Emit
  BY <1>1, <1>4, <1>5, BodyWrites DEF Store, TransientStore, Emit
<1>6. ASSUME NEW q \in Queries, Ask(q)  PROVE Inv'
  BY <1>1, <1>2, <1>6 DEF Ask, Inv, TypeOK, CleanIsExact, Good
<1>7. ASSUME NEW success \in BOOLEAN, NEW w \in World, Resume(success, w)
      PROVE  Inv'
  <2> DEFINE i == [kind |-> query.kind, value |-> query.value, success |-> success]
             t == RecordInteraction(Adopt(w, st), i)
  <2>1. phase = "asked" /\ left' = left
    BY <1>7 DEF Resume
  <2>2. Good(t)
    BY <1>1, <2>1, ResumeFacts
  <2>3. CASE phase' = "body" /\ query' = NoQuery /\ st' = t /\ UNCHANGED <<entry, ctx>>
    <3> HIDE DEF t
    <3>1. QED
      BY <1>1, <2>1, <2>2, <2>3 DEF Inv, TypeOK, CleanIsExact, Good
  <2>4. CASE Finish(entry)
    BY <1>1, <2>1, <2>4, FinishInv
  <2>5. QED  BY <1>7, <2>3, <2>4 DEF Resume
<1>8. ASSUME NEW row \in Rows, AnswerRow(row)  PROVE Inv'
  <2>1. phase = "asked" /\ row.success \in BOOLEAN /\ row.zero \in BOOLEAN
    BY <1>8, RowAssumption DEF AnswerRow, Row
  <2>2. QED  BY <1>1, <1>7, <1>8, <2>1, AnswerRowWorld DEF AnswerRow
<1>9. ASSUME NEW success \in BOOLEAN, AnswerPrecompile(success)  PROVE Inv'
  <2>1. Sent \in World
    BY <1>1, SnapshotFacts DEF Sent, Good
  <2>2. QED  BY <1>7, <1>9, <2>1 DEF AnswerPrecompile
<1>10. CASE Unmatched
  BY <1>1, <1>10 DEF Unmatched, Inv, TypeOK, CleanIsExact, Good
<1>11. ASSUME NEW to \in Addrs, Selfdestruct(to)  PROVE Inv'
  BY <1>2, <1>11, DestroyGood, FinishInv DEF Selfdestruct
<1>12. CASE Return \/ Revert
  BY <1>1, <1>12, FinishInv DEF Return, Revert
<1>13. CASE UNCHANGED vars
  BY <1>13 DEF vars, Inv, TypeOK, CleanIsExact
<1>14. QED
  BY <1>1, <1>3, <1>5, <1>6, <1>8, <1>9, <1>10, <1>11, <1>12, <1>13,
     WorldAdoptionAssumption DEF Next

LEMMA InvInit == Init => Inv
BY InitialGood, WorldAdoptionAssumption, OpenWorldAssumption
   DEF Init, Inv, TypeOK, CleanIsExact, Good, Context, Word

(* The type invariant, for every value of the constants. *)
THEOREM TypeCorrect == Spec => []TypeOK
<1>1. Inv => TypeOK
  BY DEF Inv
<1>2. QED  BY InvInit, InvStep, <1>1, PTL DEF Spec

(* A State marked clean is exactly the world it adopted: returning that world
   verbatim (snapshotWorld) never loses a write, an event or a destruction. *)
THEOREM CleanStatesAreExact == Spec => []CleanIsExact
<1>1. Inv => CleanIsExact
  BY DEF Inv
<1>2. QED  BY InvInit, InvStep, <1>1, PTL DEF Spec

-----------------------------------------------------------------------------
(* Refinement.  The abstract module's copies of the open-world operators are
   these operators. *)

LEMMA AbsOperators ==
  /\ Abs!World = World /\ Abs!Memory = Memory /\ Abs!Word = Word
  /\ Abs!ZeroMemory = ZeroMemory /\ Abs!Echo = Echo
  /\ \A w, a : Abs!AccountOf(w, a) = AccountOf(w, a)
  /\ \A w, a, x : /\ Abs!PutAccount(w, a, x) = PutAccount(w, a, x)
                  /\ Abs!SetBalance(w, a, x) = SetBalance(w, a, x)
                  /\ Abs!AnswerWorld(w, a, x) = AnswerWorld(w, a, x)
  /\ \A w, a : Abs!Sweep(w, a) = Sweep(w, a)
<1>1. /\ Abs!Word = Word /\ Abs!Memory = Memory /\ Abs!ZeroMemory = ZeroMemory
      /\ Abs!Echo = Echo
  BY DEF Abs!Word, Word, Abs!Memory, Memory, Abs!ZeroMemory, ZeroMemory,
         Abs!Echo, Echo
<1>2. Abs!Account = Account /\ Abs!Log = Log /\ Abs!DefaultAccount = DefaultAccount
  BY <1>1 DEF Abs!Account, Account, Abs!Log, Log, Abs!DefaultAccount, DefaultAccount
<1>3. Abs!World = World
  BY <1>2 DEF Abs!World, World
<1>4. \A w, a : Abs!AccountOf(w, a) = AccountOf(w, a)
  BY <1>2 DEF Abs!AccountOf, AccountOf
<1>5. \A w, a, x : Abs!PutAccount(w, a, x) = PutAccount(w, a, x)
  BY DEF Abs!PutAccount, PutAccount
<1>6. \A w, a, x : Abs!SetBalance(w, a, x) = SetBalance(w, a, x)
  BY <1>4, <1>5 DEF Abs!SetBalance, SetBalance
<1>7. \A x, y : Abs!AddWord(x, y) = AddWord(x, y) /\ Abs!FlooredSub(x, y) = FlooredSub(x, y)
  BY DEF Abs!AddWord, AddWord, Abs!FlooredSub, FlooredSub
<1>8. \A w, x : Abs!Debit(w, x) = Debit(w, x)
  BY <1>4, <1>6, <1>7 DEF Abs!Debit, Debit
<1>9. \A w, a, x : Abs!Credit(w, a, x) = Credit(w, a, x)
  BY <1>4, <1>6, <1>7 DEF Abs!Credit, Credit
<1>10. \A w, a : Abs!Sweep(w, a) = Sweep(w, a)
  BY <1>4, <1>6, <1>9 DEF Abs!Sweep, Sweep
<1>11. \A d, x : /\ Abs!ApplyToSelf(d, x) = ApplyToSelf(d, x)
                 /\ Abs!ApplyFacts(d, x) = ApplyFacts(d, x)
  BY DEF Abs!ApplyToSelf, ApplyToSelf, Abs!ApplyFacts, ApplyFacts,
         Abs!OverMemory, OverMemory, Abs!Over, Over
<1>12. \A d, w : Abs!ApplyDelta(d, w) = ApplyDelta(d, w)
  BY <1>4, <1>5, <1>11, ZenonT(30) DEF Abs!ApplyDelta, ApplyDelta
<1>13. \A w, a, x : Abs!AnswerWorld(w, a, x) = AnswerWorld(w, a, x)
  BY <1>8, <1>12 DEF Abs!AnswerWorld, AnswerWorld
<1>14. QED  BY <1>1, <1>3, <1>4, <1>5, <1>6, <1>10, <1>13

Saved == Snapshot(entry, ctx.created)

(* How a call may leave the world: as it is, or with transient cleared. *)
LEMMA AbsEnding ==
  ASSUME NEW s, Good(s), NEW kind, NEW created \in SUBSET Addrs
  PROVE  Snapshot(Ending(s, kind), created) \in Abs!Endings(Snapshot(s, created))
BY EndingFacts, AbsOperators DEF Abs!Endings, Abs!ClearTransient, Abs!SelfOf

LEMMA AbsFinish ==
  ASSUME Inv, NEW s, Good(s), Finish(s)
  PROVE  /\ phase' = "idle" /\ Saved' = Saved
         /\ Sent' \in Abs!Endings(Snapshot(s, ctx.created))
<1>1. ctx.created \in SUBSET Addrs /\ ctx' = ctx /\ entry' = entry
      /\ st' = Ending(s, ctx.kind) /\ phase' = "idle"
  BY DEF Inv, TypeOK, Context, Finish
<1>2. QED  BY <1>1, AbsEnding DEF Saved, Sent

LEMMA AbsInit == Init => Abs!Init
<1> SUFFICES ASSUME Init  PROVE Abs!Init
  OBVIOUS
<1>1. /\ Good(st) /\ entry = st /\ phase = "idle" /\ ctx.created \in SUBSET Addrs
  BY InvInit DEF Init, Inv, TypeOK, CleanIsExact, Good, Context
<1>2. Sent \in World
  BY <1>1, SnapshotFacts DEF Good, Sent
<1>3. QED  BY <1>1, <1>2, AbsOperators DEF Abs!Init, Sent

(* Each step of the interpreter is a step of the abstract machine, or moves
   nothing of it. *)
LEMMA AbsEnter ==
  ASSUME Inv, NEW kind \in {"messageCall", "transaction"}, NEW c \in SUBSET Addrs,
         NEW value \in Values, NEW payable \in BOOLEAN,
         Enter(kind, c, value, payable)
  PROVE  Abs!Enter \/ Abs!Refuse
<1> DEFINE d == EnvCreated(st, c)
           w == [Sent EXCEPT !.created = d]
<1>1. /\ Good(st) /\ Exact(st) /\ st \in SolState /\ ctx.created \in SUBSET Addrs
  BY DEF Inv, TypeOK, CleanIsExact, Good, Context
<1>2. ctx'.created = c /\ entry' = Ending(st, kind) /\ phase = "idle"
  BY DEF Enter
<1>3. d \in SUBSET Addrs /\ Snapshot(st, c) = w
  BY <1>1, ReseedFacts DEF Sent
<1>4. Good(entry') /\ Saved' \in Abs!Endings(w)
  BY <1>1, <1>2, <1>3, AbsEnding, EndingFacts DEF Saved
<1>5. CASE phase' = "body" /\ st' = Rebase(entry', value)
  <2>1. PICK b \in Word : Snapshot(Rebase(entry', value), c) = SetBalance(Snapshot(entry', c), Self, b)
    BY <1>4, RebaseFacts
  <2>2. Sent' = SetBalance(Saved', Self, b)
    BY <1>2, <1>5, <2>1 DEF Sent, Saved
  <2> HIDE DEF d
  <2>3. QED  BY <1>2, <1>3, <1>4, <1>5, <2>2, AbsOperators DEF Abs!Enter, Saved
<1>6. CASE phase' = "idle" /\ st' = Ending(entry', kind)
  <2>1. Sent' \in Abs!Endings(Saved')
    BY <1>2, <1>4, <1>6, AbsEnding DEF Sent, Saved
  <2> HIDE DEF d
  <2>2. QED  BY <1>2, <1>3, <1>4, <1>6, <2>1 DEF Abs!Refuse, Saved
<1>7. QED  BY <1>5, <1>6 DEF Enter

LEMMA AbsResume ==
  ASSUME Inv, NEW success \in BOOLEAN, NEW amount \in Word, NEW row \in Rows \cup {Echo},
         AnswerWorld(Sent, amount, row.post) \in World,
         Resume(success, AnswerWorld(Sent, amount, row.post))
  PROVE  Abs!Answer \/ Abs!Revert
<1> DEFINE w == AnswerWorld(Sent, amount, row.post)
           i == [kind |-> query.kind, value |-> query.value, success |-> success]
           t == RecordInteraction(Adopt(w, st), i)
<1>1. /\ phase = "asked" /\ TypeOK /\ Good(st) /\ Good(entry)
      /\ ctx.created \in SUBSET Addrs
  BY DEF Inv, TypeOK, CleanIsExact, Good, Context, Resume
<1>2. Snapshot(t, ctx.created) = w
  BY <1>1, ResumeFacts
<1>3. CASE phase' = "body" /\ st' = t /\ UNCHANGED <<entry, ctx>>
  <2>1. Sent' = w /\ Saved' = Saved
    BY <1>2, <1>3 DEF Sent, Saved
  <2>2. QED  BY <1>1, <1>3, <2>1, AbsOperators DEF Abs!Answer, Saved
<1>4. CASE Finish(entry)
  <2>1. phase' = "idle" /\ Saved' = Saved /\ Sent' \in Abs!Endings(Saved)
    BY <1>1, <1>4, AbsFinish DEF Saved
  <2>2. QED  BY <1>1, <2>1 DEF Abs!Revert, Saved
<1>5. QED  BY <1>3, <1>4 DEF Resume

LEMMA AbsStep == Inv /\ [Next]_vars => [Abs!Next]_(Abs!vars)
<1> SUFFICES ASSUME Inv, [Next]_vars  PROVE [Abs!Next]_(Abs!vars)
  OBVIOUS
<1>1. /\ Good(st) /\ Good(entry) /\ ctx.created \in SUBSET Addrs /\ TypeOK
      /\ AccountOf(Sent, Self) \in Account /\ Sent \in World
  BY AccountOfType, OpenWorldAssumption, SnapshotFacts
     DEF Inv, TypeOK, CleanIsExact, Good, Context, Sent
<1>2. ASSUME NEW kind \in {"messageCall", "transaction"}, NEW c \in SUBSET Addrs,
             NEW value \in Values, NEW payable \in BOOLEAN,
             Enter(kind, c, value, payable)
      PROVE  Abs!Enter \/ Abs!Refuse
  BY <1>2, AbsEnter
<1>3. ASSUME NEW s, Body(s)
      PROVE  /\ phase = "body" /\ UNCHANGED <<Saved, phase>>
             /\ Sent' = Snapshot(s, ctx.created)
  BY <1>3 DEF Body, Saved, Sent
<1>4. CASE Store
  <2>1. PICK k \in Slots, v \in Values : Body(StoreSlot(st, k, v))
    BY <1>4 DEF Store
  <2>2. PICK m \in Memory :
          Snapshot(StoreSlot(st, k, v), ctx.created) =
            PutAccount(Sent, Self, [AccountOf(Sent, Self) EXCEPT !.sto = m])
    BY <1>1, BodyWrites DEF Sent
  <2>3. phase = "body" /\ UNCHANGED <<Saved, phase>>
    BY <1>3, <2>1
  <2>4. Abs!Write
    BY <1>3, <2>1, <2>2, <2>3, AbsOperators DEF Abs!Write, Abs!SelfOf, Saved
  <2>5. QED  BY <2>4 DEF Abs!Next
<1>5. CASE TransientStore
  <2>1. PICK k \in Slots, v \in Values : Body(StoreTransientSlot(st, k, v))
    BY <1>5 DEF TransientStore
  <2>2. PICK m \in Memory :
          Snapshot(StoreTransientSlot(st, k, v), ctx.created) =
            PutAccount(Sent, Self, [AccountOf(Sent, Self) EXCEPT !.tr = m])
    BY <1>1, BodyWrites DEF Sent
  <2>3. phase = "body" /\ UNCHANGED <<Saved, phase>>
    BY <1>3, <2>1
  <2>4. Abs!Write
    BY <1>3, <2>1, <2>2, <2>3, AbsOperators DEF Abs!Write, Abs!SelfOf, Saved
  <2>5. QED  BY <2>4 DEF Abs!Next
<1>6. CASE Emit
  <2>1. PICK e \in Events : Body(EmitEvent(st, e))
    BY <1>6 DEF Emit
  <2> DEFINE v == PutAccount(Sent, Self, AccountOf(Sent, Self))
  <2>2. Sent' = [v EXCEPT !.logs = Append(@, LogEntry(e))]
    BY <1>1, <1>3, <2>1, BodyWrites DEF Sent
  <2>3. v = Abs!PutAccount(Sent, Self, Abs!SelfOf(Sent))
    BY AbsOperators DEF Abs!SelfOf
  <2> HIDE DEF v
  <2>4. Abs!Emit
    BY <1>3, <2>1, <2>2, <2>3 DEF Abs!Emit, LogEntry, Saved
  <2>5. QED  BY <2>4 DEF Abs!Next
<1>7. ASSUME NEW q \in Queries, Ask(q)  PROVE Abs!Ask
  BY <1>7 DEF Ask, Abs!Ask, Saved, Sent
<1>8. ASSUME NEW row \in Rows, AnswerRow(row)  PROVE Abs!Answer \/ Abs!Revert
  <2>1. phase = "asked" /\ row.success \in BOOLEAN /\ row.zero \in BOOLEAN
    BY <1>8, RowAssumption DEF AnswerRow, Row
  <2>2. QED  BY <1>1, <1>8, <2>1, AnswerRowWorld, AbsResume DEF AnswerRow
<1>9. ASSUME NEW success \in BOOLEAN, AnswerPrecompile(success)
      PROVE  Abs!Answer \/ Abs!Revert
  <2>1. AnswerWorld(Sent, 0, Echo.post) = Sent /\ 0 \in Word
    BY OpenWorldAssumption DEF AnswerWorld, Echo, Debit, Word
  <2>2. QED  BY <1>1, <1>9, <2>1, AbsResume DEF AnswerPrecompile
<1>10. CASE Unmatched
  BY <1>10 DEF Unmatched, Abs!Next, Abs!Abort, Saved, Sent
<1>11. ASSUME NEW to \in Addrs, Selfdestruct(to)  PROVE Abs!Destroy
  <2> DEFINE t == RecordSelfdestruct(SelfdestructTransfer(st, ctx.created, to),
                                     EnvCreated(st, ctx.created), to)
             w == [Sweep(Sent, to) EXCEPT !.sds = @ \cup {Self}]
  <2>1. Good(t) /\ Snapshot(t, ctx.created) = w
    BY DestroyGood
  <2>2. phase = "body" /\ Finish(t)
    BY <1>11 DEF Selfdestruct
  <2> HIDE DEF t
  <2>3. phase' = "idle" /\ Saved' = Saved /\ Sent' \in Abs!Endings(w)
    BY <2>1, <2>2, AbsFinish
  <2>4. QED  BY <2>2, <2>3, AbsOperators DEF Abs!Destroy, Saved
<1>12. CASE Return
  BY <1>1, <1>12, AbsFinish DEF Return, Abs!Next, Abs!Return, Saved, Sent
<1>13. CASE Revert
  BY <1>1, <1>13, AbsFinish DEF Revert, Abs!Next, Abs!Revert, Saved
<1>14. CASE UNCHANGED vars
  BY <1>14 DEF vars, Abs!vars, Sent
<1>15. QED
  BY <1>1, <1>2, <1>4, <1>5, <1>6, <1>7, <1>8, <1>9, <1>10, <1>11, <1>12, <1>13,
     <1>14, WorldAdoptionAssumption DEF Next, Abs!Next

(* The interpreter behaves as if there were one world that bodies write to
   and answers replace: caching the adopted world, splitting the log series
   and overlaying self are invisible, for every contract body, every responder
   and every value of the constants. *)
THEOREM Refines == Spec => Implements
BY AbsInit, InvInit, InvStep, AbsStep, PTL DEF Spec, Implements, Abs!Spec

-----------------------------------------------------------------------------
(* What a body reads.  A State that is not clean sends out Full; a clean one
   sends the adopted world, which differs from Full at most in whether the
   record of self is materialised. *)

LEMMA SnapshotOthers ==
  ASSUME NEW s \in SolState, Exact(s), NEW created \in SUBSET Addrs
  PROVE  /\ \A a \in Addrs : a # Self => Snapshot(s, created).acct[a] = Other(s, a)
         /\ Snapshot(s, created).created = EnvCreated(s, created)
<1> DEFINE w == Snapshot(s, created)
<1>1. /\ w \in World /\ SnapshotSelf(s) \in Account /\ Self \in Addrs
      /\ s.evCount <= Len(s.evs)
      /\ Full(s, created) = PutAccount(w, Self, SnapshotSelf(s))
  BY SnapshotFacts, SnapshotSelfType, OpenWorldAssumption DEF Exact
<1> HIDE DEF w
<1>2. /\ Full(s, created).acct = [w.acct EXCEPT ![Self] = SnapshotSelf(s)]
      /\ Full(s, created).created = w.created
  BY <1>1, PutFields
<1>3. /\ \A a \in Addrs : a # Self => Full(s, created).acct[a] = Other(s, a)
      /\ Full(s, created).created = EnvCreated(s, created)
  BY <1>1, FullFields
<1>4. ASSUME NEW a \in Addrs, a # Self  PROVE w.acct[a] = Other(s, a)
  BY <1>1, <1>2, <1>3, <1>4 DEF World
<1> QED
  BY <1>2, <1>3, <1>4 DEF w

LEMMA ReadsAgree ==
  ASSUME NEW s \in SolState, Exact(s), NEW created \in SUBSET Addrs, NEW a \in Addrs
  PROVE  /\ EnvBalance(s, a) = AccountOf(Snapshot(s, created), a).bal
         /\ a # Self => EnvCode(s, a) = AccountOf(Snapshot(s, created), a).code
<1> DEFINE w == Snapshot(s, created)
<1> HIDE DEF w
<1>1. CASE a = Self
  <2>1. AccountOf(w, Self) = SnapshotSelf(s)
    BY SnapshotFacts DEF w
  <2> QED
    BY <1>1, <2>1 DEF EnvBalance, SnapshotSelf, w
<1>2. CASE a # Self
  <2>1. w.acct[a] = Other(s, a)
    BY <1>2, SnapshotOthers DEF w
  <2>2. CASE s.env # NoWorld
    <3>1. AccountOf(w, a) = AccountOf(s.env, a)
      BY <2>1, <2>2 DEF AccountOf, Other
    <3> QED
      BY <1>2, <2>2, <3>1 DEF EnvBalance, EnvCode, w
  <2>3. CASE s.env = NoWorld /\ a \in SeedKnown
    <3>1. SeedAccount(a) \in Account /\ SeedAccount(a) # NoAccount
      BY SeedAccountType, NoAccountAssumption
    <3>2. AccountOf(w, a) = SeedAccount(a)
      BY <2>1, <2>3, <3>1 DEF AccountOf, Other
    <3>3. SeedAccount(a).bal = SeedBalance[a] /\ SeedAccount(a).code = SeedCode[a]
      BY DEF SeedAccount, DefaultAccount
    <3> QED
      BY <1>2, <2>3, <3>2, <3>3 DEF EnvBalance, EnvCode, w
  <2>4. CASE s.env = NoWorld /\ a \notin SeedKnown
    <3>1. AccountOf(w, a) = DefaultAccount
      BY <2>1, <2>4 DEF AccountOf, Other
    <3> QED
      BY <1>2, <2>4, <3>1 DEF EnvBalance, EnvCode, DefaultAccount, w
  <2> QED
    BY <2>2, <2>3, <2>4
<1> QED
  BY <1>1, <1>2

(* Whatever a body reads of an account, self or another, is what the next
   request sends out, before and after any number of adoptions. *)
THEOREM ReadsAreSent == Spec => []EnvReadsAgree
<1>1. ASSUME Inv  PROVE EnvReadsAgree
  <2>1. st \in SolState /\ Exact(st) /\ ctx.created \in SUBSET Addrs
    BY <1>1 DEF Inv, TypeOK, CleanIsExact, Context
  <2> QED
    BY <2>1, ReadsAgree, SnapshotOthers DEF EnvReadsAgree, Sent
<1> QED
  BY InvInit, InvStep, <1>1, PTL DEF Spec

-----------------------------------------------------------------------------
(* What a State has logged and destroyed is in the world it sends out.  The
   Context's created set plays no part, so the invariant quantifies over it. *)

Whole(s) ==
  \A created \in SUBSET Addrs :
    /\ SentInOrder(Snapshot(s, created).logs, s.evs)
    /\ DestroyedSince(s, 0) \subseteq Snapshot(s, created).sds

(* The series, extended by an event of the contract and by foreign entries. *)
LEMMA SentInOrderAppend ==
  ASSUME NEW logs \in Seq(Log), NEW evs \in Seq(Events), NEW e \in Events,
         SentInOrder(logs, evs)
  PROVE  SentInOrder(Append(logs, LogEntry(e)), Append(evs, e))
<1>1. PICK at \in [1 .. Len(evs) -> 1 .. Len(logs)] :
        /\ \A i, j \in 1 .. Len(evs) : i < j => at[i] < at[j]
        /\ \A i \in 1 .. Len(evs) : logs[at[i]] = LogEntry(evs[i])
        /\ \A n \in 1 .. Len(logs) :
             logs[n].from = Self => \E i \in 1 .. Len(evs) : n = at[i]
  BY DEF SentInOrder
<1> DEFINE l == LogEntry(e)
           logs2 == Append(logs, l)
           evs2 == Append(evs, e)
           at2 == [i \in 1 .. Len(evs) + 1 |->
                     IF i = Len(evs) + 1 THEN Len(logs) + 1 ELSE at[i]]
<1>2. l \in Log
  BY OpenWorldAssumption DEF LogEntry, Log
<1>3. /\ Len(logs) \in Nat /\ Len(evs) \in Nat
      /\ Len(logs2) = Len(logs) + 1 /\ Len(evs2) = Len(evs) + 1
      /\ \A n \in 1 .. Len(logs) : logs2[n] = logs[n]
      /\ logs2[Len(logs) + 1] = l
      /\ \A i \in 1 .. Len(evs) : evs2[i] = evs[i]
      /\ evs2[Len(evs) + 1] = e
  BY <1>2
<1> HIDE DEF logs2, evs2
<1>4. at2 \in [1 .. Len(evs2) -> 1 .. Len(logs2)]
  BY <1>3
<1>5. ASSUME NEW i \in 1 .. Len(evs2), NEW j \in 1 .. Len(evs2), i < j
      PROVE  at2[i] < at2[j]
  <2>1. i \in 1 .. Len(evs) /\ at2[i] = at[i] /\ at[i] \in 1 .. Len(logs)
    BY <1>3, <1>5
  <2>2. CASE j = Len(evs) + 1
    <3>1. at2[j] = Len(logs) + 1
      BY <1>3, <2>2
    <3> HIDE DEF at2
    <3> QED
      BY <1>3, <2>1, <3>1
  <2>3. CASE j # Len(evs) + 1
    <3>1. j \in 1 .. Len(evs) /\ at2[j] = at[j]
      BY <1>3, <2>3
    <3> HIDE DEF at2
    <3> QED
      BY <1>1, <1>5, <2>1, <3>1
  <2> QED
    BY <2>2, <2>3
<1>6. \A i \in 1 .. Len(evs2) : logs2[at2[i]] = LogEntry(evs2[i])
  <2> SUFFICES ASSUME NEW i \in 1 .. Len(evs2)
               PROVE  logs2[at2[i]] = LogEntry(evs2[i])
    OBVIOUS
  <2>1. CASE i = Len(evs) + 1
    <3>1. at2[i] = Len(logs) + 1
      BY <1>3, <2>1
    <3> HIDE DEF at2
    <3> QED
      BY <1>3, <2>1, <3>1 DEF l
  <2>2. CASE i # Len(evs) + 1
    <3>1. i \in 1 .. Len(evs) /\ at2[i] = at[i]
      BY <1>3, <2>2
    <3>2. at[i] \in 1 .. Len(logs)
      BY <3>1
    <3> HIDE DEF at2
    <3> QED
      BY <1>1, <1>3, <3>1, <3>2
  <2> QED
    BY <2>1, <2>2
<1>7. \A n \in 1 .. Len(logs2) :
        logs2[n].from = Self => \E i \in 1 .. Len(evs2) : n = at2[i]
  <2> SUFFICES ASSUME NEW n \in 1 .. Len(logs2), logs2[n].from = Self
               PROVE  \E i \in 1 .. Len(evs2) : n = at2[i]
    OBVIOUS
  <2>1. CASE n = Len(logs) + 1
    <3>1. Len(evs) + 1 \in 1 .. Len(evs2) /\ n = at2[Len(evs) + 1]
      BY <1>3, <2>1
    <3> HIDE DEF at2
    <3> QED
      BY <3>1
  <2>2. CASE n # Len(logs) + 1
    <3>1. n \in 1 .. Len(logs)
      BY <1>3, <2>2
    <3>2. PICK i \in 1 .. Len(evs) : n = at[i]
      BY <1>1, <1>3, <3>1
    <3>3. i \in 1 .. Len(evs2) /\ n = at2[i]
      BY <1>3, <3>2
    <3> HIDE DEF at2
    <3> QED
      BY <3>3
  <2> QED
    BY <2>1, <2>2
<1> HIDE DEF at2
<1> QED
  BY <1>4, <1>5, <1>6, <1>7 DEF SentInOrder, logs2, evs2, l

LEMMA SentInOrderForeign ==
  ASSUME NEW logs \in Seq(Log), NEW more \in Seq(Log), NEW evs \in Seq(Events),
         SentInOrder(logs, evs), \A n \in 1 .. Len(more) : more[n].from # Self
  PROVE  SentInOrder(logs \o more, evs)
<1>1. PICK at \in [1 .. Len(evs) -> 1 .. Len(logs)] :
        /\ \A i, j \in 1 .. Len(evs) : i < j => at[i] < at[j]
        /\ \A i \in 1 .. Len(evs) : logs[at[i]] = LogEntry(evs[i])
        /\ \A n \in 1 .. Len(logs) :
             logs[n].from = Self => \E i \in 1 .. Len(evs) : n = at[i]
  BY DEF SentInOrder
<1> DEFINE logs2 == logs \o more
<1>2. /\ Len(logs) \in Nat /\ Len(more) \in Nat /\ Len(evs) \in Nat
      /\ Len(logs2) = Len(logs) + Len(more)
      /\ \A n \in 1 .. Len(logs) : logs2[n] = logs[n]
      /\ \A n \in Len(logs) + 1 .. Len(logs) + Len(more) : logs2[n] = more[n - Len(logs)]
  BY ConcatProperties
<1> HIDE DEF logs2
<1>3. at \in [1 .. Len(evs) -> 1 .. Len(logs2)]
  BY <1>2
<1>4. \A i \in 1 .. Len(evs) : logs2[at[i]] = LogEntry(evs[i])
  <2> SUFFICES ASSUME NEW i \in 1 .. Len(evs)  PROVE logs2[at[i]] = LogEntry(evs[i])
    OBVIOUS
  <2>1. at[i] \in 1 .. Len(logs)
    OBVIOUS
  <2> QED
    BY <1>1, <1>2, <2>1
<1>5. ASSUME NEW n \in 1 .. Len(logs2), logs2[n].from = Self
      PROVE  \E i \in 1 .. Len(evs) : n = at[i]
  <2>1. n \in 1 .. Len(logs)
    <3> SUFFICES ASSUME n > Len(logs)  PROVE FALSE
      BY <1>2
    <3>1. n - Len(logs) \in 1 .. Len(more) /\ logs2[n] = more[n - Len(logs)]
      BY <1>2
    <3> QED
      BY <1>5, <3>1
  <2> QED
    BY <1>1, <1>2, <1>5, <2>1
<1> QED
  BY <1>1, <1>3, <1>4, <1>5 DEF SentInOrder, logs2

(* The sweep, the debit and a delta keep what the world has destroyed; the
   first two keep its series as well, a delta adds what the callees logged. *)
LEMMA DebitKeeps ==
  ASSUME NEW w \in World, NEW amount \in Word
  PROVE  Debit(w, amount).sds = w.sds /\ Debit(w, amount).logs = w.logs
<1>1. AccountOf(w, Self) \in Account /\ Self \in Addrs
  BY AccountOfType, OpenWorldAssumption
<1>2. FlooredSub(AccountOf(w, Self).bal, amount) \in Word
  BY <1>1, WordFacts DEF Account
<1> DEFINE x == [AccountOf(w, Self) EXCEPT !.bal = FlooredSub(AccountOf(w, Self).bal, amount)]
<1>3. x \in Account
  BY <1>1, <1>2 DEF Account
<1>4. Debit(w, amount) = IF amount = 0 THEN w ELSE PutAccount(w, Self, x)
  BY DEF Debit, SetBalance
<1> HIDE DEF x
<1>5. PutAccount(w, Self, x).sds = w.sds /\ PutAccount(w, Self, x).logs = w.logs
  BY <1>1, <1>3, PutFields
<1> QED
  BY <1>4, <1>5

LEMMA ApplyDeltaKeeps ==
  ASSUME NEW d \in Delta, NEW w \in World
  PROVE  ApplyDelta(d, w).sds = w.sds /\ ApplyDelta(d, w).logs = w.logs \o d.logs
<1> DEFINE self == ApplyToSelf(d, AccountOf(w, Self))
           v == PutAccount(w, Self, self)
           acct == [a \in Addrs |->
                     IF a \in DOMAIN d.others
                     THEN ApplyFacts(d.others[a], AccountOf(v, a))
                     ELSE v.acct[a]]
<1>1. self \in Account /\ Self \in Addrs
  BY AccountOfType, ApplyToSelfType, OpenWorldAssumption
<1>2. v \in World /\ v.sds = w.sds /\ v.logs = w.logs
  <2> HIDE DEF self
  <2> QED
    BY <1>1, PutAccountFacts, PutFields
<1> HIDE DEF v
<1>3. ApplyDelta(d, w) = [v EXCEPT !.acct = acct, !.logs = @ \o d.logs,
                                   !.created = @ \cup d.created]
  BY DEF ApplyDelta, v, acct
<1> HIDE DEF acct
<1> QED
  BY <1>2, <1>3 DEF World

LEMMA AnswerKeeps ==
  ASSUME NEW w \in World, NEW amount \in Word, NEW row \in Rows
  PROVE  /\ AnswerWorld(w, amount, row.post).sds = w.sds
         /\ AnswerWorld(w, amount, row.post).logs =
              IF row.post = NoDelta THEN w.logs ELSE w.logs \o row.post.logs
<1> DEFINE v == IF row.post.bal = Keep THEN Debit(w, amount) ELSE w
<1>1. row.post \in Delta \cup {NoDelta}
  BY RowAssumption DEF Row
<1>2. /\ Debit(w, amount).sds = w.sds /\ Debit(w, amount).logs = w.logs
      /\ v \in World /\ v.sds = w.sds /\ v.logs = w.logs
  BY DebitType, DebitKeeps
<1>3. CASE row.post = NoDelta
  BY <1>2, <1>3 DEF AnswerWorld
<1>4. CASE row.post # NoDelta
  <2>1. AnswerWorld(w, amount, row.post) = ApplyDelta(row.post, v)
    BY <1>4 DEF AnswerWorld
  <2> HIDE DEF v
  <2> QED
    BY <1>1, <1>2, <1>4, <2>1, ApplyDeltaKeeps
<1> QED
  BY <1>3, <1>4

(* A State whose lists and whose world's series and set are those of a whole
   State is whole. *)
LEMMA StaysWhole ==
  ASSUME NEW s, Whole(s), NEW t, t.evs = s.evs, t.sds = s.sds,
         \A created \in SUBSET Addrs :
           /\ Snapshot(t, created).logs = Snapshot(s, created).logs
           /\ Snapshot(t, created).sds = Snapshot(s, created).sds
  PROVE  Whole(t)
<1>1. DestroyedSince(t, 0) = DestroyedSince(s, 0)
  BY DEF DestroyedSince
<1> QED
  BY <1>1 DEF Whole

(* The same for a write to the self account. *)
LEMMA WriteStaysWhole ==
  ASSUME NEW s, Good(s), Whole(s), NEW t, t.evs = s.evs, t.sds = s.sds,
         \A created \in SUBSET Addrs : \E x \in Account :
           Snapshot(t, created) = PutAccount(Snapshot(s, created), Self, x)
  PROVE  Whole(t)
<1>1. ASSUME NEW created \in SUBSET Addrs
      PROVE  /\ Snapshot(t, created).logs = Snapshot(s, created).logs
             /\ Snapshot(t, created).sds = Snapshot(s, created).sds
  <2>1. Snapshot(s, created) \in World /\ Self \in Addrs
    BY SnapshotFacts, OpenWorldAssumption DEF Good
  <2>2. PICK x \in Account :
          Snapshot(t, created) = PutAccount(Snapshot(s, created), Self, x)
    OBVIOUS
  <2> DEFINE w == Snapshot(s, created)
  <2> HIDE DEF w
  <2>3. PutAccount(w, Self, x).sds = w.sds /\ PutAccount(w, Self, x).logs = w.logs
    BY <2>1, PutFields DEF w
  <2> QED
    BY <2>2, <2>3 DEF w
<1> QED
  BY <1>1, StaysWhole

LEMMA EndingWhole ==
  ASSUME NEW s, Good(s), Whole(s), NEW kind
  PROVE  Whole(Ending(s, kind))
<1> DEFINE t == Ending(s, kind)
<1>1. t.evs = s.evs /\ t.sds = s.sds
  BY DEF Ending, ClearTransient, Good, SolState
<1>2. ASSUME NEW created \in SUBSET Addrs
      PROVE  /\ Snapshot(t, created).logs = Snapshot(s, created).logs
             /\ Snapshot(t, created).sds = Snapshot(s, created).sds
  <2> DEFINE w == Snapshot(s, created)
             x == [AccountOf(w, Self) EXCEPT !.tr = ZeroMemory]
  <2>1. w \in World /\ Self \in Addrs /\ AccountOf(w, Self) \in Account
    BY SnapshotFacts, AccountOfType, OpenWorldAssumption DEF Good
  <2>2. x \in Account
    BY <2>1, MemoryFacts DEF Account
  <2>3. Snapshot(t, created) = w \/ Snapshot(t, created) = PutAccount(w, Self, x)
    BY EndingFacts
  <2> HIDE DEF t, w, x
  <2>3a. PutAccount(w, Self, x).logs = w.logs /\ PutAccount(w, Self, x).sds = w.sds
    BY <2>1, <2>2, PutFields
  <2>4. Snapshot(t, created).logs = w.logs /\ Snapshot(t, created).sds = w.sds
    BY <2>3, <2>3a
  <2> QED
    BY <2>4 DEF w
<1> HIDE DEF t
<1>3. Whole(t)
  BY <1>1, <1>2, StaysWhole
<1> QED
  BY <1>3 DEF t

LEMMA RebaseWhole ==
  ASSUME NEW s, Good(s), Whole(s), NEW value \in Values
  PROVE  Whole(Rebase(s, value))
<1> DEFINE t == Rebase(s, value)
<1>1. t.evs = s.evs /\ t.sds = s.sds
  BY DEF Rebase, Good, SolState
<1>2. ASSUME NEW created \in SUBSET Addrs
      PROVE  \E x \in Account : Snapshot(t, created) = PutAccount(Snapshot(s, created), Self, x)
  <2>1. PICK b \in Word : Snapshot(t, created) = SetBalance(Snapshot(s, created), Self, b)
    BY RebaseFacts
  <2> DEFINE x == [AccountOf(Snapshot(s, created), Self) EXCEPT !.bal = b]
  <2>2. AccountOf(Snapshot(s, created), Self) \in Account
    BY SnapshotFacts, AccountOfType, OpenWorldAssumption DEF Good
  <2>3. x \in Account
    BY <2>2 DEF Account
  <2>4. Snapshot(t, created) = PutAccount(Snapshot(s, created), Self, x)
    BY <2>1 DEF SetBalance
  <2> QED
    BY <2>3, <2>4
<1> HIDE DEF t
<1>3. Whole(t)
  BY <1>1, <1>2, WriteStaysWhole
<1> QED
  BY <1>3 DEF t

LEMMA StoreWhole ==
  ASSUME Inv, Whole(st), NEW k \in Slots, NEW v \in Values
  PROVE  Whole(StoreSlot(st, k, v)) /\ Whole(StoreTransientSlot(st, k, v))
<1>1. Good(st) /\ st \in SolState
  BY DEF Inv, TypeOK, CleanIsExact, Good
<1>2. /\ StoreSlot(st, k, v).evs = st.evs /\ StoreSlot(st, k, v).sds = st.sds
      /\ StoreTransientSlot(st, k, v).evs = st.evs
      /\ StoreTransientSlot(st, k, v).sds = st.sds
  BY <1>1 DEF StoreSlot, StoreTransientSlot, SolState
<1>3. ASSUME NEW created \in SUBSET Addrs
      PROVE  /\ \E x \in Account : Snapshot(StoreSlot(st, k, v), created) =
                                    PutAccount(Snapshot(st, created), Self, x)
             /\ \E x \in Account : Snapshot(StoreTransientSlot(st, k, v), created) =
                                    PutAccount(Snapshot(st, created), Self, x)
  <2> DEFINE self == AccountOf(Snapshot(st, created), Self)
  <2>1. self \in Account
    BY <1>1, SnapshotFacts, AccountOfType, OpenWorldAssumption DEF Good
  <2> HIDE DEF self
  <2>2. \A m \in Memory : [self EXCEPT !.sto = m] \in Account /\ [self EXCEPT !.tr = m] \in Account
    BY <2>1 DEF Account
  <2>3. /\ \E m \in Memory : Snapshot(StoreSlot(st, k, v), created) =
               PutAccount(Snapshot(st, created), Self, [self EXCEPT !.sto = m])
        /\ \E m \in Memory : Snapshot(StoreTransientSlot(st, k, v), created) =
               PutAccount(Snapshot(st, created), Self, [self EXCEPT !.tr = m])
    BY BodyWrites DEF self
  <2> QED
    BY <2>2, <2>3
<1> QED
  BY <1>1, <1>2, <1>3, WriteStaysWhole

LEMMA EmitWhole ==
  ASSUME NEW s, Good(s), Whole(s), NEW e \in Events
  PROVE  Whole(EmitEvent(s, e))
<1> DEFINE t == EmitEvent(s, e)
<1>1. /\ s \in SolState /\ s.evs \in Seq(Events)
      /\ t.evs = Append(s.evs, e) /\ t.sds = s.sds
  BY DEF Good, SolState, EmitEvent
<1>2. DestroyedSince(t, 0) = DestroyedSince(s, 0)
  BY <1>1 DEF DestroyedSince
<1>3. ASSUME NEW created \in SUBSET Addrs
      PROVE  /\ SentInOrder(Snapshot(t, created).logs, t.evs)
             /\ Snapshot(t, created).sds = Snapshot(s, created).sds
  <2> DEFINE w == Snapshot(s, created)
             v == PutAccount(w, Self, SnapshotSelf(s))
  <2>1. /\ w \in World /\ SnapshotSelf(s) \in Account /\ Self \in Addrs
        /\ w.logs \in Seq(Log) /\ SentInOrder(w.logs, s.evs)
    BY SnapshotFacts, SnapshotSelfType, OpenWorldAssumption DEF Good, Whole, World
  <2>2. Snapshot(t, created) = [v EXCEPT !.logs = Append(@, LogEntry(e))]
    BY EmitFacts DEF Good
  <2> HIDE DEF w, t
  <2>3. v \in World /\ v.logs = w.logs /\ v.sds = w.sds
    BY <2>1, PutAccountFacts, PutFields
  <2> HIDE DEF v
  <2>4. /\ Snapshot(t, created).logs = Append(w.logs, LogEntry(e))
        /\ Snapshot(t, created).sds = w.sds
    BY <2>2, <2>3 DEF World
  <2>5. SentInOrder(Append(w.logs, LogEntry(e)), Append(s.evs, e))
    BY <1>1, <2>1, SentInOrderAppend
  <2> QED
    BY <1>1, <2>4, <2>5 DEF w
<1> HIDE DEF t
<1>4. Whole(t)
  BY <1>2, <1>3 DEF Whole
<1> QED
  BY <1>4 DEF t

LEMMA DestroyWhole ==
  ASSUME NEW s, Good(s), Whole(s), NEW to \in Addrs,
         NEW created \in SUBSET Addrs, NEW c \in SUBSET Addrs
  PROVE  Whole(RecordSelfdestruct(SelfdestructTransfer(s, created, to), c, to))
<1> DEFINE t == RecordSelfdestruct(SelfdestructTransfer(s, created, to), c, to)
           r == [from |-> Self, to |-> to, deletes |-> ~CancunOrLater \/ Self \in c]
<1>1. s \in SolState /\ s.sds \in Seq(Destruction) /\ r \in Destruction
  BY OpenWorldAssumption, WorldAdoptionAssumption DEF Good, SolState, Destruction
<1>2. t.evs = s.evs /\ t.sds = Append(s.sds, r)
  BY <1>1 DEF RecordSelfdestruct, SelfdestructTransfer, SolState
<1>3. /\ t \in SolState /\ Exact(t)
      /\ Snapshot(t, created) = [Sweep(Snapshot(s, created), to) EXCEPT !.sds = @ \cup {Self}]
  BY DestroyFacts DEF Good
<1> HIDE DEF t
<1>4. DestroyedSince(t, 0) \subseteq DestroyedSince(s, 0) \cup {Self}
  <2> SUFFICES ASSUME NEW i \in 1 .. Len(t.sds)
               PROVE  t.sds[i].from \in DestroyedSince(s, 0) \cup {Self}
    BY DEF DestroyedSince
  <2>1. CASE i \in 1 .. Len(s.sds)
    <3>1. t.sds[i] = s.sds[i]
      BY <1>1, <1>2, <2>1, AppendProperties
    <3> QED
      BY <2>1, <3>1 DEF DestroyedSince
  <2>2. CASE i = Len(s.sds) + 1
    <3>1. t.sds[i] = r
      BY <1>1, <1>2, <2>2, AppendProperties
    <3> QED
      BY <3>1
  <2>3. i \in 1 .. Len(s.sds) \/ i = Len(s.sds) + 1
    <3>1. Len(t.sds) = Len(s.sds) + 1 /\ Len(s.sds) \in Nat
      BY <1>1, <1>2, AppendProperties
    <3> QED
      BY <3>1
  <2> QED
    BY <2>1, <2>2, <2>3
<1> HIDE DEF r
<1>5. ASSUME NEW d \in SUBSET Addrs
      PROVE  /\ Snapshot(t, d).logs = Snapshot(s, d).logs
             /\ Snapshot(t, d).sds = Snapshot(s, d).sds \cup {Self}
  <2> DEFINE w == Snapshot(s, created)
             v == Sweep(w, to)
  <2>1. w \in World /\ s \in SolState /\ Exact(s)
    BY SnapshotFacts DEF Good
  <2>2. v \in World /\ v.logs = w.logs /\ v.sds = w.sds
    BY <2>1, SweepType, SweepSelf
  <2> HIDE DEF v
  <2>3. /\ Snapshot(t, created).logs = w.logs
        /\ Snapshot(t, created).sds = w.sds \cup {Self}
        /\ Snapshot(t, created) \in World
    BY <1>3, <2>2, SnapshotFacts DEF World, v
  <2>4. Snapshot(s, d) = [w EXCEPT !.created = EnvCreated(s, d)]
    BY <2>1, ReseedFacts
  <2>5. Snapshot(t, d) = [Snapshot(t, created) EXCEPT !.created = EnvCreated(t, d)]
    <3>1. t \in SolState /\ Exact(t)
      BY <1>3
    <3> QED
      BY <3>1, ReseedFacts
  <2> HIDE DEF w
  <2> QED
    BY <2>1, <2>3, <2>4, <2>5 DEF World
<1>6. Whole(t)
  BY <1>2, <1>4, <1>5 DEF Whole
<1> QED
  BY <1>6 DEF t

(* An answer keeps the State whole when its world keeps what was sent. *)
LEMMA ResumeWhole ==
  ASSUME Inv, Whole(st), phase = "asked", NEW success \in BOOLEAN,
         NEW w \in World, SentInOrder(w.logs, st.evs), Sent.sds \subseteq w.sds
  PROVE  LET i == [kind |-> query.kind, value |-> query.value, success |-> success]
         IN  Whole(RecordInteraction(Adopt(w, st), i))
<1> DEFINE i == [kind |-> query.kind, value |-> query.value, success |-> success]
           t == RecordInteraction(Adopt(w, st), i)
<1>1. /\ TypeOK /\ Good(st) /\ st \in SolState /\ ctx.created \in SUBSET Addrs
  BY DEF Inv, TypeOK, CleanIsExact, Good, Context
<1>2. t.evs = st.evs /\ t.sds = st.sds
  <2>1. Adopt(w, st) \in SolState
    BY <1>1, AdoptFacts
  <2>2. Adopt(w, st).evs = st.evs /\ Adopt(w, st).sds = st.sds
    BY <1>1 DEF Adopt, SolState
  <2> HIDE DEF i
  <2> QED
    BY <2>1, <2>2 DEF RecordInteraction, SolState
<1>3. \A created \in SUBSET Addrs : Snapshot(t, created) = w
  BY <1>1, ResumeFacts
<1> HIDE DEF t
<1>4. DestroyedSince(t, 0) \subseteq w.sds
  <2>1. DestroyedSince(t, 0) = DestroyedSince(st, 0)
    BY <1>2 DEF DestroyedSince
  <2>2. DestroyedSince(st, 0) \subseteq Sent.sds
    BY <1>1 DEF Whole, Sent
  <2> QED
    BY <2>1, <2>2
<1>5. Whole(t)
  BY <1>2, <1>3, <1>4 DEF Whole
<1> QED
  BY <1>5 DEF t, i

LEMMA InitialWhole == Whole(InitialState)
<1> DEFINE s == InitialState
<1>1. /\ s.evs = << >> /\ s.sds = << >> /\ s.prefix = << >> /\ s.evCount = 0
      /\ Good(s)
  BY InitialGood DEF InitialState
<1> HIDE DEF s
<1>2. ASSUME NEW created \in SUBSET Addrs  PROVE Snapshot(s, created).logs = << >>
  <2>1. Snapshot(s, created).logs = CanonicalLogs(s) /\ CanonicalLogs(s) = s.prefix
    <3>1. s.evCount <= Len(s.evs) /\ s.evCount = Len(s.evs)
      BY <1>1
    <3> QED
      BY <1>1, <3>1, SnapshotFacts, CanonicalLogsFacts DEF Good
  <2> QED
    BY <1>1, <2>1
<1>3. SentInOrder(<< >>, << >>)
  <2> DEFINE at == [i \in 1 .. 0 |-> i]
  <2>1. at \in [1 .. Len(<< >>) -> 1 .. Len(<< >>)]
    OBVIOUS
  <2>2. /\ \A i, j \in 1 .. Len(<< >>) : i < j => at[i] < at[j]
        /\ \A i \in 1 .. Len(<< >>) : << >>[at[i]] = LogEntry(<< >>[i])
        /\ \A n \in 1 .. Len(<< >>) :
             << >>[n].from = Self => \E i \in 1 .. Len(<< >>) : n = at[i]
    OBVIOUS
  <2> HIDE DEF at
  <2> QED
    BY <2>1, <2>2, Zenon DEF SentInOrder
<1>4. DestroyedSince(s, 0) = {}
  BY <1>1 DEF DestroyedSince
<1> QED
  BY <1>1, <1>2, <1>3, <1>4 DEF Whole, s

LogsInv == Inv /\ Whole(st) /\ Whole(entry)

LEMMA FinishWhole ==
  ASSUME LogsInv, NEW s, Good(s), Whole(s), Finish(s)
  PROVE  Whole(st)' /\ Whole(entry)'
<1>1. st' = Ending(s, ctx.kind) /\ entry' = entry /\ Whole(entry)
  BY DEF Finish, LogsInv
<1>2. Whole(Ending(s, ctx.kind))
  BY EndingWhole
<1> QED
  BY <1>1, <1>2

LEMMA LogsStep == CalleesLogApart /\ LogsInv /\ [Next]_vars => LogsInv'
<1> SUFFICES ASSUME CalleesLogApart, LogsInv, [Next]_vars
             PROVE  Whole(st)' /\ Whole(entry)'
  BY InvStep DEF LogsInv
<1>1. /\ Inv /\ TypeOK /\ Good(st) /\ Good(entry) /\ Whole(st) /\ Whole(entry)
      /\ ctx.created \in SUBSET Addrs /\ Sent \in World
      /\ SentInOrder(Sent.logs, st.evs)
  <2>1. Inv /\ Whole(st) /\ Whole(entry)
    BY DEF LogsInv
  <2>2. TypeOK /\ Good(st) /\ Good(entry) /\ ctx.created \in SUBSET Addrs
    BY <2>1 DEF Inv, TypeOK, CleanIsExact, Good, Context
  <2> QED
    BY <2>1, <2>2, SnapshotFacts DEF Sent, Good, Whole
<1>2. ASSUME NEW kind \in {"messageCall", "transaction"}, NEW c \in SUBSET Addrs,
             NEW value \in Values, NEW payable \in BOOLEAN,
             Enter(kind, c, value, payable)
      PROVE  Whole(st)' /\ Whole(entry)'
  <2>1. entry' = Ending(st, kind) /\ (st' = Rebase(entry', value) \/ st' = Ending(entry', kind))
    BY <1>2 DEF Enter
  <2>2. Good(Ending(st, kind)) /\ Whole(Ending(st, kind))
    BY <1>1, EndingFacts, EndingWhole
  <2> DEFINE s == Ending(st, kind)
  <2> HIDE DEF s
  <2>3. Whole(Rebase(s, value)) /\ Whole(Ending(s, kind))
    BY <2>2, RebaseWhole, EndingWhole DEF s
  <2> QED
    BY <2>1, <2>2, <2>3 DEF s
<1>3. ASSUME NEW s, Whole(s), Body(s)  PROVE Whole(st)' /\ Whole(entry)'
  <2>1. st' = s /\ entry' = entry
    BY <1>3 DEF Body
  <2> QED
    BY <1>1, <1>3, <2>1
<1>4. CASE Store \/ TransientStore
  BY <1>1, <1>3, <1>4, StoreWhole DEF Store, TransientStore
<1>5. CASE Emit
  BY <1>1, <1>3, <1>5, EmitWhole DEF Emit
<1>6. ASSUME NEW success \in BOOLEAN, NEW w \in World, Resume(success, w),
             SentInOrder(w.logs, st.evs), Sent.sds \subseteq w.sds
      PROVE  Whole(st)' /\ Whole(entry)'
  <2> DEFINE i == [kind |-> query.kind, value |-> query.value, success |-> success]
             t == RecordInteraction(Adopt(w, st), i)
  <2>1. phase = "asked"
    BY <1>6 DEF Resume
  <2>2. Whole(t)
    BY <1>1, <1>6, <2>1, ResumeWhole
  <2>3. (st' = t /\ entry' = entry) \/ Finish(entry)
    BY <1>6 DEF Resume
  <2> HIDE DEF t
  <2>4. CASE st' = t /\ entry' = entry
    BY <1>1, <2>2, <2>4
  <2>5. CASE Finish(entry)
    BY <1>1, <2>5, FinishWhole
  <2> QED
    BY <2>3, <2>4, <2>5
<1>7. ASSUME NEW row \in Rows, AnswerRow(row)  PROVE Whole(st)' /\ Whole(entry)'
  <2> DEFINE debit == SelfBalanceDebit([kind |-> query.kind, value |-> query.value,
                                        success |-> row.success])
             w == AnswerWorld(Sent, debit, row.post)
  <2>1. /\ phase = "asked" /\ row.success \in BOOLEAN /\ row.zero \in BOOLEAN
        /\ row.post \in Delta \cup {NoDelta}
    BY <1>7, RowAssumption DEF AnswerRow, Row
  <2>2. debit \in Word /\ w \in World
    BY <1>1, <2>1, AnswerRowWorld
  <2>3. \E success \in BOOLEAN : Resume(success, w)
    BY <1>7, <2>1 DEF AnswerRow
  <2> HIDE DEF debit
  <2>4. /\ w.sds = Sent.sds
        /\ w.logs = IF row.post = NoDelta THEN Sent.logs ELSE Sent.logs \o row.post.logs
    BY <1>1, <2>2, AnswerKeeps
  <2> HIDE DEF w
  <2>5. SentInOrder(w.logs, st.evs)
    <3>1. CASE row.post = NoDelta
      BY <1>1, <2>4, <3>1
    <3>2. CASE row.post # NoDelta
      <4>1. /\ row.post.logs \in Seq(Log) /\ Sent.logs \in Seq(Log)
            /\ st.evs \in Seq(Events)
        BY <1>1, <2>1, <3>2 DEF Delta, World, TypeOK, SolState
      <4>2. \A n \in 1 .. Len(row.post.logs) : row.post.logs[n].from # Self
        BY <3>2 DEF CalleesLogApart
      <4> QED
        BY <1>1, <2>4, <3>2, <4>1, <4>2, SentInOrderForeign
    <3> QED
      BY <3>1, <3>2
  <2> QED
    BY <1>6, <2>2, <2>3, <2>4, <2>5
<1>8. ASSUME NEW success \in BOOLEAN, AnswerPrecompile(success)
      PROVE  Whole(st)' /\ Whole(entry)'
  BY <1>1, <1>6, <1>8 DEF AnswerPrecompile
<1>9. ASSUME NEW to \in Addrs, Selfdestruct(to)  PROVE Whole(st)' /\ Whole(entry)'
  <2> DEFINE t == RecordSelfdestruct(SelfdestructTransfer(st, ctx.created, to),
                                     EnvCreated(st, ctx.created), to)
  <2>1. Finish(t) /\ Good(t)
    BY <1>1, <1>9, DestroyGood DEF Selfdestruct
  <2>2. EnvCreated(st, ctx.created) \in SUBSET Addrs
    BY <1>1, ReseedFacts DEF Good
  <2>3. Whole(t)
    BY <1>1, <2>2, DestroyWhole
  <2> HIDE DEF t
  <2> QED
    BY <2>1, <2>3, FinishWhole
<1>10. CASE Return \/ Revert
  BY <1>1, <1>10, FinishWhole DEF Return, Revert
<1>11. ASSUME st' = st, entry' = entry  PROVE Whole(st)' /\ Whole(entry)'
  BY <1>1, <1>11
<1>12. ASSUME NEW q \in Queries, Ask(q)  PROVE Whole(st)' /\ Whole(entry)'
  BY <1>11, <1>12 DEF Ask
<1>13. CASE Unmatched \/ UNCHANGED vars
  BY <1>11, <1>13 DEF Unmatched, vars
<1> QED
  BY <1>1, <1>2, <1>4, <1>5, <1>7, <1>8, <1>9, <1>10, <1>12, <1>13,
     WorldAdoptionAssumption DEF Next

(* The series sent out has every event of the contract once and in order, and
   the set sent out every destruction, through any number of adoptions,
   reverts and calls, provided that callees log under their own address. *)
THEOREM LogsAreSentOnce ==
  ASSUME CalleesLogApart
  PROVE  Spec => []LogsSentOnce
<1>1. Init => LogsInv
  BY InvInit, InitialWhole DEF LogsInv, Init
<1>2. LogsInv => LogsSentOnce
  BY DEF LogsInv, Inv, TypeOK, Context, Whole, LogsSentOnce, EventsSentOnce,
         DestructionsSent, Sent
<1>3. LogsInv /\ [Next]_vars => LogsInv'
  BY LogsStep
<1> QED
  BY <1>1, <1>2, <1>3, PTL DEF Spec

-----------------------------------------------------------------------------
(* The ledger of the own balance.  A total is what recursion makes of it. *)

IsTotal(f, amounts) ==
  f[0] = 0 /\ \A n \in 0 .. Len(amounts) - 1 : f[n + 1] = f[n] + amounts[n + 1]

Adding(amounts) ==
  [n \in Nat |-> [x \in Nat |-> IF n \in 1 .. Len(amounts) THEN x + amounts[n] ELSE x]]

LEMMA AddingFacts ==
  ASSUME NEW a \in Seq(Nat)
  PROVE  /\ Adding(a) \in [Nat -> [Nat -> Nat]]
         /\ \A f \in [0 .. Len(a) -> Nat] :
              Obeys(f, Len(a), 0, Adding(a)) <=> IsTotal(f, a)
<1>1. Len(a) \in Nat /\ \A n \in 1 .. Len(a) : a[n] \in Nat
  OBVIOUS
<1>2. \A n, x \in Nat :
        Adding(a)[n][x] = IF n \in 1 .. Len(a) THEN x + a[n] ELSE x
  BY DEF Adding
<1>3. Adding(a) \in [Nat -> [Nat -> Nat]]
  BY <1>1 DEF Adding
<1>4. ASSUME NEW f \in [0 .. Len(a) -> Nat]
      PROVE  Obeys(f, Len(a), 0, Adding(a)) <=> IsTotal(f, a)
  <2>1. ASSUME NEW n \in 0 .. Len(a) - 1
        PROVE  Adding(a)[n + 1][f[n]] = f[n] + a[n + 1]
    <3>1. n \in 0 .. Len(a) /\ n + 1 \in 1 .. Len(a) /\ n + 1 \in Nat
      BY <1>1
    <3>2. f[n] \in Nat
      BY <3>1
    <3> QED
      BY <1>2, <3>1, <3>2
  <2> QED
    BY <2>1 DEF Obeys, IsTotal
<1> QED
  BY <1>3, <1>4

LEMMA TotalIs ==
  ASSUME NEW a \in Seq(Nat)
  PROVE  \E f \in [0 .. Len(a) -> Nat] : IsTotal(f, a) /\ Total(a) = f[Len(a)]
<1> DEFINE n == Len(a)
<1>1. n \in Nat /\ \A i \in 1 .. n : a[i] \in Nat
  OBVIOUS
<1>2. PICK f \in [0 .. n -> Nat] : Obeys(f, n, 0, Adding(a))
  BY <1>1, AddingFacts, Recursion
<1>3. IsTotal(f, a)
  BY <1>2, AddingFacts
<1> DEFINE Solves(s) == s = [i \in 0 .. Len(a) |-> IF i = 0 THEN 0 ELSE s[i - 1] + a[i]]
<1>4. Solves(f)
  <2>1. \A i \in 0 .. n : f[i] = IF i = 0 THEN 0 ELSE f[i - 1] + a[i]
    <3> TAKE i \in 0 .. n
    <3>1. CASE i = 0
      BY <1>3, <3>1 DEF IsTotal
    <3>2. CASE i # 0
      <4>1. i - 1 \in 0 .. n - 1 /\ (i - 1) + 1 = i
        BY <1>1, <3>2
      <4> QED
        BY <1>3, <3>2, <4>1 DEF IsTotal
    <3> QED
      BY <3>1, <3>2
  <2> QED
    BY <2>1
<1> DEFINE g == CHOOSE s : Solves(s)
<1>5. Solves(g)
  <2> HIDE DEF Solves
  <2> QED
    BY <1>4
<1>6. Total(a) = g[n]
  BY DEF Total
<1> HIDE DEF g
<1>7. g[0] = 0 /\ \A i \in 0 .. n - 1 : g[i + 1] = g[i] + a[i + 1]
  <2>1. \A i \in 0 .. n : g[i] = IF i = 0 THEN 0 ELSE g[i - 1] + a[i]
    BY <1>5
  <2> QED
    BY <1>1, <2>1
<1> DEFINE S == {i \in Nat : i <= n => g[i] \in Nat}
<1>8. \A i \in Nat : i \in S
  <2>1. 0 \in S
    BY <1>7
  <2>2. \A i \in Nat : i \in S => i + 1 \in S
    BY <1>1, <1>7
  <2> HIDE DEF S
  <2> QED
    BY <2>1, <2>2, Induction
<1>9. g \in [0 .. n -> Nat]
  <2>1. \A i \in 0 .. n : i \in Nat /\ i \in S
    BY <1>1, <1>8
  <2>2. \A i \in 0 .. n : g[i] \in Nat
    BY <2>1
  <2>3. g = [i \in 0 .. n |-> IF i = 0 THEN 0 ELSE g[i - 1] + a[i]]
    BY <1>5
  <2> QED
    BY <2>2, <2>3
<1> QED
  BY <1>6, <1>7, <1>9 DEF IsTotal

LEMMA TotalIsNat == ASSUME NEW a \in Seq(Nat) PROVE Total(a) \in Nat
  BY TotalIs

LEMMA TotalOfNone == \A a \in Seq(Nat) : Len(a) = 0 => Total(a) = 0
  BY TotalIs DEF IsTotal

LEMMA TotalOfAppend ==
  ASSUME NEW a \in Seq(Nat), NEW b \in Seq(Nat), Len(b) = Len(a) + 1,
         \A i \in 1 .. Len(a) : b[i] = a[i]
  PROVE  Total(b) = Total(a) + b[Len(a) + 1]
<1> DEFINE n == Len(a)
<1>1. n \in Nat /\ Len(b) = n + 1 /\ n + 1 \in 1 .. Len(b)
  OBVIOUS
<1>2. PICK f \in [0 .. n -> Nat] : IsTotal(f, a) /\ Total(a) = f[n]
  BY TotalIs
<1>3. PICK g \in [0 .. n + 1 -> Nat] : IsTotal(g, b) /\ Total(b) = g[n + 1]
  BY <1>1, TotalIs
<1> DEFINE S == {i \in Nat : i <= n => g[i] = f[i]}
<1>4. 0 \in S
  BY <1>2, <1>3 DEF IsTotal
<1>5. ASSUME NEW i \in Nat, i \in S  PROVE i + 1 \in S
  <2> SUFFICES ASSUME i + 1 <= n PROVE g[i + 1] = f[i + 1]
    OBVIOUS
  <2>1. /\ i \in 0 .. Len(a) - 1 /\ i \in 0 .. Len(b) - 1 /\ i + 1 \in 1 .. Len(a)
        /\ g[i] = f[i]
    BY <1>1, <1>5
  <2>2. b[i + 1] = a[i + 1]
    BY <2>1
  <2>3. g[i + 1] = g[i] + b[i + 1] /\ f[i + 1] = f[i] + a[i + 1]
    BY <1>2, <1>3, <2>1 DEF IsTotal
  <2> QED
    BY <2>1, <2>2, <2>3
<1> HIDE DEF S
<1>6. \A i \in Nat : i \in S
  BY <1>4, <1>5, Induction
<1>7. g[n] = f[n]
  <2>1. n \in S
    BY <1>1, <1>6
  <2> QED
    BY <1>1, <2>1 DEF S
<1>8. n \in 0 .. Len(b) - 1
  BY <1>1
<1>9. g[n + 1] = g[n] + b[n + 1]
  BY <1>3, <1>8 DEF IsTotal
<1> QED
  BY <1>2, <1>3, <1>7, <1>9

(* One request more. *)
MovedIn(r) == Total([n \in 1 .. Len(r) |-> MovedBy(r[n])])
LostIn(r) == Total([n \in 1 .. Len(r) |-> FailedWith(r[n])])

LEMMA AmountFacts ==
  ASSUME NEW i \in Interaction
  PROVE  MovedBy(i) \in Nat /\ FailedWith(i) \in Nat
  BY OpenWorldAssumption DEF Interaction, Word, MovedBy, FailedWith

LEMMA AmountsFacts ==
  ASSUME NEW r \in Seq(Interaction)
  PROVE  LET a == [n \in 1 .. Len(r) |-> MovedBy(r[n])]
             b == [n \in 1 .. Len(r) |-> FailedWith(r[n])]
         IN  a \in Seq(Nat) /\ Len(a) = Len(r) /\ b \in Seq(Nat) /\ Len(b) = Len(r)
<1>1. Len(r) \in Nat /\ \A n \in 1 .. Len(r) : r[n] \in Interaction
  OBVIOUS
<1>2. \A n \in 1 .. Len(r) : MovedBy(r[n]) \in Nat /\ FailedWith(r[n]) \in Nat
  BY <1>1, AmountFacts
<1> DEFINE m == Len(r)
<1>3. ASSUME NEW f \in [1 .. m -> Nat]  PROVE f \in Seq(Nat) /\ Len(f) = m
  BY <1>1
<1>4. [n \in 1 .. m |-> MovedBy(r[n])] \in [1 .. m -> Nat]
  BY <1>2
<1>5. [n \in 1 .. m |-> FailedWith(r[n])] \in [1 .. m -> Nat]
  BY <1>2
<1> QED
  BY <1>3, <1>4, <1>5

LEMMA SumsAreNat ==
  ASSUME NEW r \in Seq(Interaction)
  PROVE  MovedIn(r) \in Nat /\ LostIn(r) \in Nat
<1> DEFINE a == [n \in 1 .. Len(r) |-> MovedBy(r[n])]
           b == [n \in 1 .. Len(r) |-> FailedWith(r[n])]
<1>2. a \in Seq(Nat) /\ b \in Seq(Nat)
  BY AmountsFacts
<1> HIDE DEF a, b
<1> QED
  BY <1>2, TotalIsNat DEF MovedIn, LostIn, a, b

LEMMA SumsMore ==
  ASSUME NEW r \in Seq(Interaction), NEW q \in Seq(Interaction),
         Len(q) = Len(r) + 1, \A n \in 1 .. Len(r) : q[n] = r[n]
  PROVE  /\ MovedIn(q) = MovedIn(r) + MovedBy(q[Len(q)])
         /\ LostIn(q) = LostIn(r) + FailedWith(q[Len(q)])
<1> DEFINE a == [n \in 1 .. Len(r) |-> MovedBy(r[n])]
           b == [n \in 1 .. Len(q) |-> MovedBy(q[n])]
           c == [n \in 1 .. Len(r) |-> FailedWith(r[n])]
           d == [n \in 1 .. Len(q) |-> FailedWith(q[n])]
<1>1. /\ Len(r) \in Nat /\ \A n \in 1 .. Len(r) : r[n] \in Interaction
      /\ Len(q) \in Nat /\ \A n \in 1 .. Len(q) : q[n] \in Interaction
  OBVIOUS
<1>2. /\ a \in Seq(Nat) /\ b \in Seq(Nat) /\ c \in Seq(Nat) /\ d \in Seq(Nat)
      /\ Len(a) = Len(r) /\ Len(b) = Len(q) /\ Len(c) = Len(r) /\ Len(d) = Len(q)
  BY AmountsFacts
<1>3. /\ \A n \in 1 .. Len(a) : b[n] = a[n]
      /\ \A n \in 1 .. Len(c) : d[n] = c[n]
      /\ b[Len(q)] = MovedBy(q[Len(q)]) /\ d[Len(q)] = FailedWith(q[Len(q)])
  BY <1>1, <1>2
<1>4. MovedIn(r) = Total(a) /\ MovedIn(q) = Total(b) /\ LostIn(r) = Total(c) /\ LostIn(q) = Total(d)
  BY DEF MovedIn, LostIn
<1> HIDE DEF a, b, c, d
<1>5. Total(b) = Total(a) + b[Len(a) + 1] /\ Total(d) = Total(c) + d[Len(c) + 1]
  BY <1>2, <1>3, TotalOfAppend
<1> QED
  BY <1>1, <1>2, <1>3, <1>4, <1>5

(* The State s of a call that was entered on e with the balance x. *)
Since(s, e) == SubSeq(s.ext, Len(e.ext) + 1, Len(s.ext))
Balanced(s, e, x) ==
  /\ Len(e.ext) <= Len(s.ext)
  /\ s.nonce = 0 =>
       \E lost \in 0 .. LostIn(Since(s, e)) :
         s.bal = FlooredSub(x, MovedIn(Since(s, e)) + lost)

LEMMA SinceFacts ==
  ASSUME NEW s \in SolState, NEW e \in SolState, Len(e.ext) <= Len(s.ext)
  PROVE  /\ Since(s, e) \in Seq(Interaction)
         /\ Len(Since(s, e)) = Len(s.ext) - Len(e.ext)
         /\ \A n \in 1 .. Len(s.ext) - Len(e.ext) : Since(s, e)[n] = s.ext[Len(e.ext) + n]
<1> DEFINE ext == s.ext
           m == Len(e.ext)
<1>1. ext \in Seq(Interaction) /\ m \in Nat /\ m <= Len(ext) /\ Len(ext) \in Nat
  BY DEF SolState
<1> HIDE DEF ext, m
<1>2. /\ SubSeq(ext, m + 1, Len(ext)) \in Seq(Interaction)
      /\ Len(SubSeq(ext, m + 1, Len(ext))) = Len(ext) - m
      /\ \A n \in 1 .. Len(ext) - m : SubSeq(ext, m + 1, Len(ext))[n] = ext[m + n]
  <2>1. m + 1 \in 1 .. Len(ext) + 1 /\ Len(ext) \in m .. Len(ext)
    BY <1>1
  <2>2. \A k \in m + 1 .. Len(ext) : ext[k] \in Interaction
    BY <1>1
  <2> QED
    BY <1>1, <2>1, <2>2, SubSeqProperties
<1> QED
  BY <1>2 DEF Since, ext, m

LEMMA BalancedStays ==
  ASSUME NEW s, NEW t, NEW e, NEW x, Balanced(s, e, x),
         t.ext = s.ext, t.nonce = s.nonce, t.bal = s.bal
  PROVE  Balanced(t, e, x)
  BY DEF Balanced, Since

LEMMA BalancedStart ==
  ASSUME NEW e \in SolState, NEW s \in SolState, s.ext = e.ext, s.bal \in Word
  PROVE  Balanced(s, e, s.bal)
<1>1. Len(e.ext) \in Nat
  BY DEF SolState
<1>2. Since(s, e) \in Seq(Interaction) /\ Len(Since(s, e)) = 0
  BY <1>1, SinceFacts
<1> DEFINE r == Since(s, e)
           a == [n \in 1 .. Len(r) |-> MovedBy(r[n])]
           b == [n \in 1 .. Len(r) |-> FailedWith(r[n])]
<1>3. a \in Seq(Nat) /\ b \in Seq(Nat) /\ Len(a) = 0 /\ Len(b) = 0
  BY <1>2
<1>4. MovedIn(r) = Total(a) /\ LostIn(r) = Total(b)
  BY DEF MovedIn, LostIn
<1> HIDE DEF r, a, b
<1>5. MovedIn(r) = 0 /\ LostIn(r) = 0
  BY <1>3, <1>4, TotalOfNone
<1>6. s.bal = FlooredSub(s.bal, MovedIn(r) + 0) /\ 0 \in 0 .. LostIn(r)
  BY <1>5, OpenWorldAssumption DEF Word
<1> QED
  BY <1>1, <1>6 DEF Balanced, r

(* What an answer makes of the balance and the nonce of self. *)
LEMMA DebitSelf ==
  ASSUME NEW w \in World, NEW amount \in Word
  PROVE  /\ AccountOf(Debit(w, amount), Self).bal =
              FlooredSub(AccountOf(w, Self).bal, amount)
         /\ AccountOf(Debit(w, amount), Self).nonce = AccountOf(w, Self).nonce
<1>1. AccountOf(w, Self) \in Account /\ Self \in Addrs
  BY AccountOfType, OpenWorldAssumption
<1> DEFINE y == FlooredSub(AccountOf(w, Self).bal, amount)
           x == [AccountOf(w, Self) EXCEPT !.bal = y]
<1>2. y \in Word /\ AccountOf(w, Self).bal \in Word
  BY <1>1, WordFacts DEF Account
<1>3. amount = 0 => y = AccountOf(w, Self).bal
  BY <1>2, OpenWorldAssumption DEF Word
<1> HIDE DEF y
<1>4. x \in Account /\ x.bal = y /\ x.nonce = AccountOf(w, Self).nonce
  BY <1>1, <1>2 DEF Account
<1>5. Debit(w, amount) = IF amount = 0 THEN w ELSE PutAccount(w, Self, x)
  BY DEF Debit, SetBalance, y
<1> HIDE DEF x
<1>6. AccountOf(PutAccount(w, Self, x), Self) = x
  BY <1>1, <1>4, PutAccountFacts
<1> QED
  BY <1>3, <1>4, <1>5, <1>6 DEF y

LEMMA ApplyDeltaSelf ==
  ASSUME NEW d \in Delta, NEW w \in World
  PROVE  /\ AccountOf(ApplyDelta(d, w), Self).nonce = Over(d.nonce, AccountOf(w, Self).nonce)
         /\ ~SetsBalance(d) =>
              AccountOf(ApplyDelta(d, w), Self).bal = AccountOf(w, Self).bal
<1> DEFINE old == AccountOf(w, Self)
           self == ApplyToSelf(d, old)
           v == PutAccount(w, Self, self)
           new == IF Self \in DOMAIN d.others THEN ApplyFacts(d.others[Self], self) ELSE self
           acct == [a \in Addrs |->
                     IF a \in DOMAIN d.others
                     THEN ApplyFacts(d.others[a], AccountOf(v, a))
                     ELSE v.acct[a]]
<1>1. old \in Account /\ self \in Account /\ Self \in Addrs
  BY AccountOfType, ApplyToSelfType, OpenWorldAssumption
<1>2. self.nonce = Over(d.nonce, old.nonce) /\ self.bal = Over(d.bal, old.bal)
  BY <1>1 DEF ApplyToSelf, Account
<1> HIDE DEF old, self
<1>3. v \in World /\ v.acct[Self] = self /\ AccountOf(v, Self) = self
  <2>1. v \in World /\ AccountOf(v, Self) = self
    BY <1>1, PutAccountFacts
  <2>2. v.acct = [w.acct EXCEPT ![Self] = self]
    BY <1>1, PutFields
  <2>3. v.acct[Self] = self
    BY <1>1, <2>2 DEF World
  <2> QED
    BY <2>1, <2>3
<1> HIDE DEF v
<1>4. acct[Self] = new
  BY <1>1, <1>3
<1>5. new \in Account
  <2>1. Self \in DOMAIN d.others => d.others[Self] \in Facts
    BY DEF Delta
  <2> QED
    BY <1>1, <2>1, ApplyFactsType
<1>6. ApplyDelta(d, w) = [v EXCEPT !.acct = acct, !.logs = @ \o d.logs,
                                   !.created = @ \cup d.created]
  BY DEF ApplyDelta, v, acct, self, old
<1> HIDE DEF acct
<1>7. ApplyDelta(d, w).acct[Self] = new
  BY <1>3, <1>4, <1>6 DEF World
<1>8. AccountOf(ApplyDelta(d, w), Self) = new
  BY <1>5, <1>7, NoAccountAssumption DEF AccountOf
<1>9. /\ new.nonce = self.nonce
      /\ ~SetsBalance(d) => new.bal = self.bal /\ d.bal = Keep
  BY <1>1 DEF ApplyFacts, Account, SetsBalance, Over
<1> HIDE DEF new
<1> QED
  BY <1>2, <1>8, <1>9 DEF Over, old

LEMMA AnswerSelf ==
  ASSUME BalancesAreMarked, NEW w \in World, NEW amount \in Word, NEW row \in Rows
  PROVE  LET v == AnswerWorld(w, amount, row.post)
         IN  AccountOf(v, Self).nonce = 0 =>
               /\ AccountOf(w, Self).nonce = 0
               /\ AccountOf(v, Self).bal = FlooredSub(AccountOf(w, Self).bal, amount)
<1> DEFINE d == row.post
           v == AnswerWorld(w, amount, d)
           u == Debit(w, amount)
<1>1. d \in Delta \cup {NoDelta} /\ u \in World
  BY RowAssumption, DebitType DEF Row
<1>2. /\ AccountOf(u, Self).bal = FlooredSub(AccountOf(w, Self).bal, amount)
      /\ AccountOf(u, Self).nonce = AccountOf(w, Self).nonce
  BY DebitSelf
<1>3. CASE d = NoDelta
  BY <1>2, <1>3 DEF AnswerWorld
<1>4. CASE d # NoDelta
  <2>1. d \in Delta /\ d.nonce # 0 /\ (SetsBalance(d) => d.nonce # Keep)
    BY <1>1, <1>4 DEF BalancesAreMarked
  <2> HIDE DEF d, u
  <2> SUFFICES ASSUME AccountOf(v, Self).nonce = 0
               PROVE  /\ AccountOf(w, Self).nonce = 0
                      /\ AccountOf(v, Self).bal = FlooredSub(AccountOf(w, Self).bal, amount)
    BY DEF d
  <2>2. v = ApplyDelta(d, IF d.bal = Keep THEN u ELSE w)
    BY <1>4 DEF AnswerWorld, u
  <2> HIDE DEF v
  <2>3. AccountOf(v, Self).nonce = Over(d.nonce, AccountOf(w, Self).nonce)
    BY <1>1, <1>2, <2>1, <2>2, ApplyDeltaSelf
  <2>4. d.nonce = Keep
    BY <2>1, <2>3 DEF Over
  <2>5. ~SetsBalance(d) /\ d.bal = Keep
    BY <2>1, <2>4 DEF SetsBalance
  <2>6. AccountOf(v, Self).bal = AccountOf(u, Self).bal
    BY <1>1, <2>1, <2>2, <2>5, ApplyDeltaSelf
  <2> QED
    BY <1>2, <2>3, <2>4, <2>6 DEF Over
<1> QED
  BY <1>3, <1>4 DEF d

(* A request more, answered by the world w, which debited what the request
   moved, and of a failed creation perhaps its value. *)
LEMMA BalancedAnswered ==
  ASSUME NEW s \in SolState, NEW e \in SolState, NEW x \in Word, Balanced(s, e, x),
         NEW w \in World, NEW i \in Interaction,
         NEW debit \in {MovedBy(i), MovedBy(i) + FailedWith(i)},
         AccountOf(w, Self).nonce = 0 =>
           s.nonce = 0 /\ AccountOf(w, Self).bal = FlooredSub(s.bal, debit)
  PROVE  Balanced(RecordInteraction(Adopt(w, s), i), e, x)
<1> DEFINE t == RecordInteraction(Adopt(w, s), i)
           r == Since(s, e)
           q == Since(t, e)
<1>1. /\ t.ext = Append(s.ext, i) /\ t.nonce = AccountOf(w, Self).nonce
      /\ t.bal = AccountOf(w, Self).bal
  BY DEF RecordInteraction, Adopt, SolState
<1>2. t \in SolState
  <2>1. Adopt(w, s) \in SolState
    BY AdoptFacts
  <2>2. Append(Adopt(w, s).ext, i) \in Seq(Interaction)
    BY <2>1 DEF SolState
  <2> QED
    BY <2>1, <2>2 DEF RecordInteraction, SolState
<1> HIDE DEF t
<1>3. /\ s.ext \in Seq(Interaction) /\ Len(s.ext) \in Nat /\ Len(e.ext) \in Nat
      /\ Len(e.ext) <= Len(s.ext) /\ Len(t.ext) = Len(s.ext) + 1
      /\ t.ext[Len(t.ext)] = i /\ \A n \in 1 .. Len(s.ext) : t.ext[n] = s.ext[n]
  <2>1. s.ext \in Seq(Interaction) /\ Len(s.ext) \in Nat /\ Len(e.ext) \in Nat
    BY DEF SolState
  <2>2. Len(e.ext) <= Len(s.ext)
    BY DEF Balanced
  <2> QED
    BY <1>1, <2>1, <2>2, AppendProperties
<1>4. /\ r \in Seq(Interaction) /\ Len(r) = Len(s.ext) - Len(e.ext)
      /\ \A n \in 1 .. Len(r) : r[n] = s.ext[Len(e.ext) + n]
  BY <1>3, SinceFacts
<1>5. /\ q \in Seq(Interaction) /\ Len(q) = Len(t.ext) - Len(e.ext)
      /\ \A n \in 1 .. Len(q) : q[n] = t.ext[Len(e.ext) + n]
  BY <1>2, <1>3, SinceFacts
<1> HIDE DEF r, q
<1>6. Len(q) = Len(r) + 1 /\ q[Len(q)] = i /\ \A n \in 1 .. Len(r) : q[n] = r[n]
  <2>1. Len(q) = Len(r) + 1 /\ Len(q) \in 1 .. Len(q) /\ Len(e.ext) + Len(q) = Len(t.ext)
    BY <1>3, <1>4, <1>5
  <2>2. q[Len(q)] = i
    BY <1>3, <1>5, <2>1
  <2>3. ASSUME NEW n \in 1 .. Len(r)  PROVE q[n] = r[n]
    <3>1. n \in 1 .. Len(q) /\ Len(e.ext) + n \in 1 .. Len(s.ext)
      BY <1>3, <1>4, <2>1
    <3>2. q[n] = t.ext[Len(e.ext) + n] /\ r[n] = s.ext[Len(e.ext) + n]
      BY <1>4, <1>5, <3>1
    <3> QED
      BY <1>3, <3>1, <3>2
  <2> QED
    BY <2>1, <2>2, <2>3
<1>7. MovedIn(q) = MovedIn(r) + MovedBy(i) /\ LostIn(q) = LostIn(r) + FailedWith(i)
  BY <1>4, <1>5, <1>6, SumsMore
<1>8. /\ MovedIn(r) \in Nat /\ LostIn(r) \in Nat
      /\ MovedBy(i) \in Nat /\ FailedWith(i) \in Nat /\ x \in Nat
  BY <1>4, SumsAreNat, AmountFacts, OpenWorldAssumption DEF Word
<1>9. ASSUME t.nonce = 0
      PROVE  \E lost \in 0 .. LostIn(q) : t.bal = FlooredSub(x, MovedIn(q) + lost)
  <2>1. s.nonce = 0 /\ t.bal = FlooredSub(s.bal, debit)
    BY <1>1, <1>9
  <2>2. PICK lost \in 0 .. LostIn(r) : s.bal = FlooredSub(x, MovedIn(r) + lost)
    BY <2>1 DEF Balanced, r
  <2>3. PICK more \in {0, FailedWith(i)} : debit = MovedBy(i) + more
    BY <1>8
  <2>4. lost + more \in 0 .. LostIn(q)
    BY <1>7, <1>8, <2>3
  <2>5. FlooredSub(FlooredSub(x, MovedIn(r) + lost), MovedBy(i) + more) =
          FlooredSub(x, MovedIn(q) + (lost + more))
    BY <1>7, <1>8, <2>3
  <2> QED
    BY <2>1, <2>2, <2>3, <2>4, <2>5
<1> QED
  BY <1>3, <1>9 DEF Balanced, q, t

(* The invariant of the ledger. *)
LedgerInv == Inv /\ (phase \in {"body", "asked"} => Balanced(st, entry, Entered))

LEMMA ResumeBalanced ==
  ASSUME LedgerInv, phase = "asked", NEW success \in BOOLEAN, NEW w \in World,
         Resume(success, w),
         NEW debit \in {MovedBy([kind |-> query.kind, value |-> query.value, success |-> success]),
                        MovedBy([kind |-> query.kind, value |-> query.value, success |-> success])
                        + FailedWith([kind |-> query.kind, value |-> query.value, success |-> success])},
         AccountOf(w, Self).nonce = 0 =>
           st.nonce = 0 /\ AccountOf(w, Self).bal = FlooredSub(st.bal, debit)
  PROVE  (phase \in {"body", "asked"} => Balanced(st, entry, Entered))'
<1> DEFINE i == [kind |-> query.kind, value |-> query.value, success |-> success]
<1>1. /\ st \in SolState /\ entry \in SolState /\ Entered \in Word
      /\ i \in Interaction
  <2>1. /\ st \in SolState /\ entry \in SolState /\ query \in Queries
        /\ ctx.value \in Word
    BY DEF LedgerInv, Inv, TypeOK, Context
  <2>2. Entered \in Word
    BY <2>1, WordFacts, WorldAdoptionAssumption, OpenWorldAssumption DEF Entered
  <2>3. i \in Interaction
    BY <2>1, WorldAdoptionAssumption DEF Queries, Interaction
  <2> QED
    BY <2>1, <2>2, <2>3
<1> DEFINE t == RecordInteraction(Adopt(w, st), i)
<1>2. \/ phase' = "idle"
      \/ st' = t /\ entry' = entry /\ ctx' = ctx
  BY DEF Resume, Finish
<1> HIDE DEF i
<1>3. Balanced(st, entry, Entered)
  BY DEF LedgerInv
<1>4. Balanced(t, entry, Entered)
  BY <1>1, <1>3, BalancedAnswered DEF i
<1> HIDE DEF t
<1>5. ctx' = ctx => Entered' = Entered
  BY DEF Entered
<1> QED
  BY <1>2, <1>4, <1>5

LEMMA LedgerStep == BalancesAreMarked /\ LedgerInv /\ [Next]_vars => LedgerInv'
<1> SUFFICES ASSUME BalancesAreMarked, LedgerInv, [Next]_vars
             PROVE  (phase \in {"body", "asked"} => Balanced(st, entry, Entered))'
  BY InvStep DEF LedgerInv
<1>1. /\ Inv /\ TypeOK /\ Good(st) /\ Good(entry) /\ ctx.created \in SUBSET Addrs
      /\ Sent \in World /\ AccountOf(Sent, Self) = SnapshotSelf(st)
      /\ phase \in {"body", "asked"} => Balanced(st, entry, Entered)
  <2>1. Inv /\ (phase \in {"body", "asked"} => Balanced(st, entry, Entered))
    BY DEF LedgerInv
  <2>2. TypeOK /\ Good(st) /\ Good(entry) /\ ctx.created \in SUBSET Addrs
    BY <2>1 DEF Inv, TypeOK, CleanIsExact, Good, Context
  <2> QED
    BY <2>1, <2>2, SnapshotFacts DEF Sent, Good
<1>2. /\ AccountOf(Sent, Self).nonce = st.nonce /\ AccountOf(Sent, Self).bal = st.bal
      /\ st.bal \in Word
  BY <1>1 DEF SnapshotSelf, Good, SolState
<1>3. ASSUME NEW kind \in {"messageCall", "transaction"}, NEW c \in SUBSET Addrs,
             NEW value \in Values, NEW payable \in BOOLEAN,
             Enter(kind, c, value, payable)
      PROVE  (phase \in {"body", "asked"} => Balanced(st, entry, Entered))'
  <2> DEFINE e == Ending(st, kind)
             s == Rebase(e, value)
  <2>1. /\ entry' = e /\ ctx'.value = value
        /\ phase' = "idle" \/ st' = s
    BY <1>3 DEF Enter
  <2>2. Good(e)
    BY <1>1, EndingFacts
  <2> HIDE DEF e
  <2>3. Good(s) /\ s.ext = e.ext
        /\ s.bal = AddWord(IF Self \in SeedKnown THEN SeedBalance[Self] ELSE 0, value)
    <3>1. Good(s)
      BY <1>1, <2>2, RebaseFacts
    <3>2. e.ext = s.ext
      BY <2>2 DEF Rebase, Good, SolState
    <3>3. s.bal = AddWord(IF Self \in SeedKnown THEN SeedBalance[Self] ELSE 0, value)
      BY <2>2 DEF Rebase, Good, SolState
    <3> QED
      BY <3>1, <3>2, <3>3
  <2> HIDE DEF s
  <2>4. e \in SolState /\ s \in SolState /\ s.bal \in Word
    BY <2>2, <2>3 DEF Good, SolState
  <2>5. Balanced(s, e, s.bal)
    BY <2>3, <2>4, BalancedStart
  <2>6. Entered' = s.bal
    BY <2>1, <2>3 DEF Entered
  <2> QED
    BY <2>1, <2>5, <2>6
<1>4. ASSUME NEW s, s.ext = st.ext, s.nonce = st.nonce, s.bal = st.bal, Body(s)
      PROVE  (phase \in {"body", "asked"} => Balanced(st, entry, Entered))'
  <2>1. phase = "body" /\ st' = s /\ entry' = entry /\ ctx' = ctx
    BY <1>4 DEF Body
  <2>2. Balanced(s, entry, Entered)
    BY <1>1, <1>4, <2>1, BalancedStays
  <2> QED
    BY <2>1, <2>2 DEF Entered
<1>5. CASE Store \/ TransientStore \/ Emit
  <2>1. ASSUME NEW k \in Slots, NEW v \in Values
        PROVE  /\ StoreSlot(st, k, v).ext = st.ext /\ StoreSlot(st, k, v).nonce = st.nonce
               /\ StoreSlot(st, k, v).bal = st.bal
               /\ StoreTransientSlot(st, k, v).ext = st.ext
               /\ StoreTransientSlot(st, k, v).nonce = st.nonce
               /\ StoreTransientSlot(st, k, v).bal = st.bal
    BY <1>1 DEF StoreSlot, StoreTransientSlot, Good, SolState
  <2>2. ASSUME NEW ev \in Events
        PROVE  /\ EmitEvent(st, ev).ext = st.ext /\ EmitEvent(st, ev).nonce = st.nonce
               /\ EmitEvent(st, ev).bal = st.bal
    BY <1>1 DEF EmitEvent, Good, SolState
  <2>3. CASE Store
    BY <1>4, <2>1, <2>3 DEF Store
  <2>4. CASE TransientStore
    BY <1>4, <2>1, <2>4 DEF TransientStore
  <2>5. CASE Emit
    BY <1>4, <2>2, <2>5 DEF Emit
  <2> QED
    BY <1>5, <2>3, <2>4, <2>5
<1>6. ASSUME NEW q \in Queries, Ask(q)
      PROVE  (phase \in {"body", "asked"} => Balanced(st, entry, Entered))'
  <2>1. phase = "body" /\ st' = st /\ entry' = entry /\ ctx' = ctx
    BY <1>6 DEF Ask
  <2> QED
    BY <1>1, <2>1 DEF Entered
<1>7. ASSUME NEW row \in Rows, AnswerRow(row)
      PROVE  (phase \in {"body", "asked"} => Balanced(st, entry, Entered))'
  <2> DEFINE success == row.success /\ (query.kind = "create" => ~row.zero)
             i == [kind |-> query.kind, value |-> query.value, success |-> success]
             debit == SelfBalanceDebit([kind |-> query.kind, value |-> query.value,
                                        success |-> row.success])
             w == AnswerWorld(Sent, debit, row.post)
  <2>1. phase = "asked" /\ success \in BOOLEAN /\ Resume(success, w)
    BY <1>7, RowAssumption DEF AnswerRow, Row
  <2>2. debit \in Word /\ w \in World
    BY <1>1, <2>1, AnswerRowWorld
  <2>3. query.kind \in Kinds /\ query.value \in Nat
    <3>1. query \in Queries
      BY <1>1, <2>1 DEF TypeOK
    <3>2. query.kind \in Kinds /\ query.value \in Values
      BY <3>1 DEF Queries
    <3>3. query.value \in Word
      BY <3>2, WorldAdoptionAssumption
    <3>4. query.value \in Nat
      BY <3>3, OpenWorldAssumption DEF Word
    <3> QED
      BY <3>2, <3>4
  <2>4. debit \in {MovedBy(i), MovedBy(i) + FailedWith(i)}
    <3>1. MovedBy(i) = IF success /\ query.kind \in {"call", "callcode", "create"}
                       THEN query.value ELSE 0
      BY DEF MovedBy
    <3>2. FailedWith(i) = IF ~success /\ query.kind = "create" THEN query.value ELSE 0
      BY DEF FailedWith
    <3>3. debit = IF row.success /\ query.kind \in {"call", "callcode", "create"}
                  THEN query.value ELSE 0
      BY DEF SelfBalanceDebit
    <3> HIDE DEF i, debit
    <3> QED
      BY <2>3, <3>1, <3>2, <3>3
  <2> HIDE DEF debit
  <2>5. AccountOf(w, Self).nonce = 0 =>
          st.nonce = 0 /\ AccountOf(w, Self).bal = FlooredSub(st.bal, debit)
    BY <1>1, <1>2, <2>2, AnswerSelf
  <2> HIDE DEF w, success
  <2> QED
    BY <2>1, <2>2, <2>4, <2>5, ResumeBalanced
<1>8. ASSUME NEW success \in BOOLEAN, AnswerPrecompile(success)
      PROVE  (phase \in {"body", "asked"} => Balanced(st, entry, Entered))'
  <2> DEFINE i == [kind |-> query.kind, value |-> query.value, success |-> success]
  <2>1. phase = "asked" /\ query.kind = "staticcall" /\ Resume(success, Sent)
    BY <1>8 DEF AnswerPrecompile
  <2>2. MovedBy(i) = 0
    BY <2>1 DEF MovedBy
  <2>3. AccountOf(Sent, Self).bal = FlooredSub(st.bal, 0)
    BY <1>2, OpenWorldAssumption DEF Word
  <2> QED
    BY <1>1, <1>2, <2>1, <2>2, <2>3, ResumeBalanced
<1>9. CASE (\E to \in Addrs : Selfdestruct(to)) \/ Return \/ Revert \/ Unmatched
  <2>1. phase' \in {"idle", "aborted"}
    BY <1>9 DEF Selfdestruct, Return, Revert, Unmatched, Finish
  <2> QED
    BY <2>1
<1>10. CASE UNCHANGED vars
  <2>1. phase' = phase /\ st' = st /\ entry' = entry /\ ctx' = ctx
    BY <1>10 DEF vars
  <2> QED
    BY <1>1, <2>1 DEF Entered
<1> QED
  BY <1>1, <1>3, <1>5, <1>6, <1>7, <1>8, <1>9, <1>10, WorldAdoptionAssumption DEF Next

(* Requests debit the contract once, as long as no row sets its balance: for
   every body, every sequence of calls and every answer, provided that rows
   which set the balance are marked by the nonce they set. *)
THEOREM RequestsDebitOnce ==
  ASSUME BalancesAreMarked
  PROVE  Spec => []BalanceLedger
<1>1. Init => LedgerInv
  BY InvInit DEF LedgerInv, Init
<1>2. LedgerInv => BalanceLedger
  BY DEF LedgerInv, BalanceLedger, Balanced, Since, MovedIn, LostIn, Moved,
         FailedCreations, Requests
<1>3. LedgerInv /\ [Next]_vars => LedgerInv'
  BY LedgerStep
<1> QED
  BY <1>1, <1>2, <1>3, PTL DEF Spec
=============================================================================
