--------------------------- MODULE WorldAdoption ---------------------------
(***************************************************************************)
(* The external boundary of the interpreter (Interpreter.lean): the State  *)
(* a call runs on, the world snapshot an external request sends out, the   *)
(* wholesale adoption of the world its answer brings back, and the         *)
(* scripted responder that answers or fails closed.  Calls follow one      *)
(* another on the State the previous one returned.                         *)
(*                                                                         *)
(* The statements between two of the operations below are abstracted: a    *)
(* body is any sequence of them, so it stands for every contract.  MaxOps  *)
(* bounds their number.                                                    *)
(***************************************************************************)
EXTENDS OpenWorld

CONSTANTS
  NoWorld,       \* envWorld? = none
  SeedKnown,     \* addresses the Context maps mention
  SeedBalance, SeedCode,  \* Context.accountBalances and accountCodes
  CreatedSeeds,  \* the values Context.createdInTransactionAccounts may take
  Values,        \* msg.value, and the value an external call carries
  Precompiles,   \* addresses a staticcall answers in-semantics
  CancunOrLater, \* evmVersion.cancunOrLater
  MaxOps         \* bound on the operations of a run

ASSUME WorldAdoptionAssumption ==
  /\ NoWorld \notin World
  /\ SeedKnown \subseteq Addrs
  /\ SeedBalance \in [Addrs -> Word] /\ SeedCode \in [Addrs -> Codes]
  /\ CreatedSeeds \subseteq SUBSET Addrs
  /\ Values \subseteq Word /\ Precompiles \subseteq Addrs
  /\ CancunOrLater \in BOOLEAN /\ MaxOps \in Nat

Kinds == {"call", "callcode", "staticcall", "delegatecall", "create"}
NoQuery == [kind |-> "none"]
Queries == [kind: Kinds, target: Addrs, value: Values, catches: BOOLEAN]
Interaction == [kind: Kinds, value: Word, success: BOOLEAN]
Destruction == [from: Addrs, to: Addrs, deletes: BOOLEAN]

SolState ==
  [sto: Memory, tr: Memory, bal: Word, nonce: Word,
   evs: Seq(Events), sds: Seq(Destruction), ext: Seq(Interaction),
   env: World \cup {NoWorld}, dirty: BOOLEAN,
   prefix: Seq(Log), evCount: Nat, sdCount: Nat]

InitialState ==
  [sto |-> ZeroMemory, tr |-> ZeroMemory, bal |-> 0, nonce |-> 0,
   evs |-> << >>, sds |-> << >>, ext |-> << >>,
   env |-> NoWorld, dirty |-> TRUE,
   prefix |-> << >>, evCount |-> 0, sdCount |-> 0]

VARIABLES
  st,     \* the State of the interpreter
  entry,  \* the State the running call would revert to
  ctx,    \* how the call was entered; its Context's created set and value
  phase,  \* "idle", "body", "asked" (a query is out) or "aborted"
  query,  \* the external request that is out, or NoQuery
  left    \* operations left

vars == <<st, entry, ctx, phase, query, left>>

-----------------------------------------------------------------------------
(* Snapshot and adoption *)

LogEntry(e) == [from |-> Self, ev |-> e]
CanonicalLogs(s) ==
  s.prefix \o [i \in 1 .. (Len(s.evs) - s.evCount) |->
                 LogEntry(s.evs[s.evCount + i])]

DestroyedSince(s, n) == {s.sds[i].from : i \in (n + 1) .. Len(s.sds)}

SnapshotSelf(s) ==
  [nonce |-> s.nonce, bal |-> s.bal, sto |-> s.sto, tr |-> s.tr,
   code |-> IF s.env = NoWorld THEN SeedCode[Self]
            ELSE AccountOf(s.env, Self).code]

SeedAccount(a) ==
  [DefaultAccount EXCEPT !.bal = SeedBalance[a], !.code = SeedCode[a]]

SnapshotSeed(s, created) ==
  [acct |-> [a \in Addrs |-> IF a = Self THEN SnapshotSelf(s)
                             ELSE IF a \in SeedKnown THEN SeedAccount(a)
                             ELSE NoAccount],
   sds |-> DestroyedSince(s, 0),
   logs |-> CanonicalLogs(s),
   created |-> created]

(* Mutant: the overlay forgets the destructions since the adoption. *)
OverlayOldSelfdestructs(s) ==
  [PutAccount(s.env, Self, SnapshotSelf(s)) EXCEPT !.logs = CanonicalLogs(s)]

Overlay(s) ==
  [PutAccount(s.env, Self, SnapshotSelf(s)) EXCEPT
     !.sds = @ \cup DestroyedSince(s, s.sdCount),
     !.logs = CanonicalLogs(s)]

Snapshot(s, created) ==
  IF s.env = NoWorld THEN SnapshotSeed(s, created)
  ELSE IF s.dirty THEN Overlay(s) ELSE s.env

(* Mutant: the split point of the log series stays where it was. *)
AdoptOldSplit(w, s) ==
  LET self == AccountOf(w, Self)
  IN  [s EXCEPT !.sto = self.sto, !.tr = self.tr, !.bal = self.bal,
                !.nonce = self.nonce, !.env = w, !.dirty = FALSE,
                !.prefix = w.logs, !.sdCount = Len(s.sds)]

Adopt(w, s) ==
  LET self == AccountOf(w, Self)
  IN  [s EXCEPT !.sto = self.sto, !.tr = self.tr, !.bal = self.bal,
                !.nonce = self.nonce, !.env = w, !.dirty = FALSE,
                !.prefix = w.logs, !.evCount = Len(s.evs),
                !.sdCount = Len(s.sds)]

(* Mutant: a read that ignores adoption. *)
EnvBalanceSeed(s, a) ==
  IF a = Self THEN s.bal ELSE IF a \in SeedKnown THEN SeedBalance[a] ELSE 0

(* What address.balance, address.code and the EIP-6780 test read *)
EnvBalance(s, a) ==
  IF a = Self THEN s.bal
  ELSE IF s.env # NoWorld THEN AccountOf(s.env, a).bal
  ELSE IF a \in SeedKnown THEN SeedBalance[a] ELSE 0
EnvCode(s, a) ==
  IF s.env # NoWorld THEN AccountOf(s.env, a).code
  ELSE IF a \in SeedKnown THEN SeedCode[a] ELSE NoCode
EnvCreated(s, created) ==
  IF s.env # NoWorld THEN s.env.created ELSE created

-----------------------------------------------------------------------------
(* The operations of a State *)

(* Mutants: writes that leave the State marked clean. *)
StoreSlotClean(s, k, v) == [s EXCEPT !.sto = [@ EXCEPT ![k] = v]]
StoreTransientClean(s, k, v) == [s EXCEPT !.tr = [@ EXCEPT ![k] = v]]

StoreSlot(s, k, v) == [s EXCEPT !.sto = [@ EXCEPT ![k] = v], !.dirty = TRUE]
StoreTransientSlot(s, k, v) ==
  [s EXCEPT !.tr = [@ EXCEPT ![k] = v], !.dirty = TRUE]
ClearTransient(s) == [s EXCEPT !.tr = ZeroMemory, !.dirty = TRUE]
EmitEvent(s, e) == [s EXCEPT !.evs = Append(@, e), !.dirty = TRUE]

SelfdestructTransfer(s, created, to) ==
  [s EXCEPT !.bal = 0, !.dirty = TRUE, !.env = Sweep(Snapshot(s, created), to)]
RecordSelfdestruct(s, created, to) ==
  [s EXCEPT !.dirty = TRUE,
            !.sds = Append(@, [from |-> Self, to |-> to,
                               deletes |-> ~CancunOrLater \/ Self \in created])]

(* evalBodyEntry: the balance of self starts from the seed plus msg.value *)
Rebase(s, value) ==
  [s EXCEPT !.bal = AddWord(IF Self \in SeedKnown THEN SeedBalance[Self] ELSE 0, value),
            !.dirty = TRUE]

(* ExternalInteraction.selfBalanceDebit *)
SelfBalanceDebitAlways(i) ==  \* mutant: failures debit too
  IF i.kind \in {"call", "callcode", "create"} THEN i.value ELSE 0
SelfBalanceDebit(i) ==
  IF i.success /\ i.kind \in {"call", "callcode", "create"} THEN i.value ELSE 0

RecordInteraction(s, i) == [s EXCEPT !.ext = Append(@, i)]

-----------------------------------------------------------------------------
Init ==
  /\ st = InitialState /\ entry = st
  /\ \E c \in CreatedSeeds :
       ctx = [kind |-> "messageCall", created |-> c, value |-> 0]
  /\ phase = "idle" /\ left = MaxOps /\ query = NoQuery

Spend == left > 0 /\ left' = left - 1

(* What the caller of a call receives: transactions clear transient storage *)
Ending(s, kind) == IF kind = "transaction" THEN ClearTransient(s) ELSE s
Finish(s) ==
  /\ phase' = "idle" /\ query' = NoQuery
  /\ st' = Ending(s, ctx.kind) /\ UNCHANGED <<entry, ctx>>

(* Contract.call, or callTransaction, through evalBodyEntry *)
Enter(kind, created, value, payable) ==
  /\ phase = "idle" /\ Spend
  /\ ctx' = [kind |-> kind, created |-> created, value |-> value]
  /\ entry' = Ending(st, kind)
  /\ UNCHANGED query
  /\ \/ (payable \/ value = 0) /\ phase' = "body" /\ st' = Rebase(entry', value)
     \/ ~payable /\ value # 0 /\ phase' = "idle" /\ st' = Ending(entry', kind)

Body(s) ==
  phase = "body" /\ Spend /\ st' = s /\ UNCHANGED <<entry, ctx, phase, query>>

Store == \E k \in Slots, v \in Values : Body(StoreSlot(st, k, v))
TransientStore == \E k \in Slots, v \in Values : Body(StoreTransientSlot(st, k, v))
Emit == \E e \in Events : Body(EmitEvent(st, e))

(* emitLowLevelCall, emitContractCreation: the query goes out *)
Ask(q) ==
  /\ phase = "body" /\ Spend
  /\ q.kind \in {"staticcall", "delegatecall"} => q.value = 0
  /\ phase' = "asked" /\ query' = q
  /\ UNCHANGED <<st, entry, ctx>>

(* The continuation: adopt, record, then go on, catch or revert. *)
Resume(success, w) ==
  /\ phase = "asked" /\ UNCHANGED left
  /\ LET i == [kind |-> query.kind, value |-> query.value, success |-> success]
         s == RecordInteraction(Adopt(w, st), i)
     IN  \/ /\ success \/ query.catches
            /\ phase' = "body" /\ query' = NoQuery
            /\ st' = s /\ UNCHANGED <<entry, ctx>>
         \/ ~success /\ ~query.catches /\ Finish(entry)

Sent == Snapshot(st, ctx.created)

(* answerCall? and answerCreate?: a row matches and debits when its success
   flag says so.  A create also fails at address 0, and a failed create has no
   delta; a failed call may have one. *)
AnswerRow(row) ==
  /\ phase = "asked"
  /\ LET success == row.success /\ (query.kind = "create" => ~row.zero)
         debit == SelfBalanceDebit([kind |-> query.kind, value |-> query.value,
                                    success |-> row.success])
     IN  /\ query.kind = "create" /\ ~success => row.post \in {NoDelta, EmptyDelta}
         /\ Resume(success, AnswerWorld(Sent, debit, row.post))

(* precompileAnswerCall?: no row matches, the world is echoed. *)
AnswerPrecompile(success) ==
  /\ phase = "asked"
  /\ query.kind = "staticcall" /\ query.target \in Precompiles
  /\ Resume(success, Sent)

(* Nothing answers: the fold fails closed and no State is returned. *)
Unmatched ==
  /\ phase = "asked" /\ phase' = "aborted"
  /\ query' = NoQuery /\ UNCHANGED <<st, entry, ctx, left>>

Selfdestruct(to) ==
  /\ phase = "body" /\ Spend
  /\ LET created == EnvCreated(st, ctx.created)
     IN  Finish(RecordSelfdestruct(SelfdestructTransfer(st, ctx.created, to),
                                   created, to))

Return == phase = "body" /\ UNCHANGED left /\ Finish(st)
Revert == phase = "body" /\ UNCHANGED left /\ Finish(entry)

Next ==
  \/ \E value \in Values, payable \in BOOLEAN :
       \/ \E c \in CreatedSeeds : Enter("transaction", c, value, payable)
       \/ Enter("messageCall", ctx.created, value, payable)
  \/ Store \/ TransientStore \/ Emit
  \/ \E q \in Queries : Ask(q)
  \/ \E row \in Rows : AnswerRow(row)
  \/ \E success \in BOOLEAN : AnswerPrecompile(success)
  \/ Unmatched
  \/ \E to \in Addrs : Selfdestruct(to)
  \/ Return \/ Revert

Spec == Init /\ [][Next]_vars

-----------------------------------------------------------------------------
(* Properties *)

Context == [kind: {"messageCall", "transaction"},
            created: SUBSET Addrs, value: Word]

(* Every variable stays in its type; a query is out exactly when asked. *)
TypeOK ==
  /\ st \in SolState /\ entry \in SolState
  /\ ctx \in Context
  /\ phase \in {"idle", "body", "asked", "aborted"}
  /\ IF phase = "asked" THEN query \in Queries ELSE query = NoQuery
  /\ left \in 0 .. MaxOps

(* The split points of s cut its lists, and a State that claims nothing
   changed since an adoption equals what the adopted world says of it: the
   licence of snapshotWorld to return the adopted world verbatim. *)
Exact(s) ==
  /\ s.evCount <= Len(s.evs) /\ s.sdCount <= Len(s.sds)
  /\ s.env = NoWorld => s.dirty /\ s.prefix = << >> /\ s.evCount = 0 /\ s.sdCount = 0
  /\ ~s.dirty => /\ s.prefix = s.env.logs
                 /\ s.evCount = Len(s.evs) /\ s.sdCount = Len(s.sds)
                 /\ SnapshotSelf(s) = AccountOf(s.env, Self)
CleanIsExact == Exact(st) /\ Exact(entry)

(* Whatever a body reads of an account is what the next request sends out,
   before and after adoptions, for self and for the others. *)
EnvReadsAgree ==
  /\ \A a \in Addrs : /\ EnvBalance(st, a) = AccountOf(Sent, a).bal
                      /\ a # Self => EnvCode(st, a) = AccountOf(Sent, a).code
  /\ EnvCreated(st, ctx.created) = Sent.created

(* Every event the contract emitted and did not revert is in the series sent
   out exactly once and in order, whatever callees logged in between (for
   rows whose callees log under their own address): at[i] is the place of the
   i-th event, and the contract has no other entry in the series. *)
SentInOrder(logs, evs) ==
  \E at \in [1 .. Len(evs) -> 1 .. Len(logs)] :
    /\ \A i, j \in 1 .. Len(evs) : i < j => at[i] < at[j]
    /\ \A i \in 1 .. Len(evs) : logs[at[i]] = LogEntry(evs[i])
    /\ \A n \in 1 .. Len(logs) :
         logs[n].from = Self => \E i \in 1 .. Len(evs) : n = at[i]
EventsSentOnce == SentInOrder(Sent.logs, st.evs)

(* A destruction stays in the set sent out, through later answers. *)
DestructionsSent == DestroyedSince(st, 0) \subseteq Sent.sds
LogsSentOnce == EventsSentOnce /\ DestructionsSent

(* Rows whose callees log under an address of their own, and rows that mark an
   absolute balance of self: they alone set the nonce, and not to 0. *)
CalleesLogApart ==
  \A row \in Rows : row.post # NoDelta =>
    \A n \in 1 .. Len(row.post.logs) : row.post.logs[n].from # Self
SetsBalance(d) ==
  d.bal # Keep \/ (Self \in DOMAIN d.others /\ d.others[Self].bal # Keep)
BalancesAreMarked ==
  \A row \in Rows : row.post # NoDelta =>
    row.post.nonce # 0 /\ (SetsBalance(row.post) => row.post.nonce # Keep)

Total(amounts) ==
  LET sum[n \in 0 .. Len(amounts)] == IF n = 0 THEN 0 ELSE sum[n - 1] + amounts[n]
  IN  sum[Len(amounts)]

(* What the requests of the running call moved, and what those of its creations
   that failed carried. *)
Requests == SubSeq(st.ext, Len(entry.ext) + 1, Len(st.ext))
MovedBy(i) ==
  IF i.success /\ i.kind \in {"call", "callcode", "create"} THEN i.value ELSE 0
FailedWith(i) == IF ~i.success /\ i.kind = "create" THEN i.value ELSE 0
Moved == Total([n \in 1 .. Len(Requests) |-> MovedBy(Requests[n])])
FailedCreations == Total([n \in 1 .. Len(Requests) |-> FailedWith(Requests[n])])

(* While a call runs, the balance of self is what the call entered with less
   what its successful value-carrying requests moved, for as long as no row has
   set the balance absolutely (BalancesAreMarked): nothing is debited twice, a
   failed request debits nothing, and a reentering callee that does not set the
   balance cannot undo a debit.  Only a creation that fails may have been
   debited: its row may say success at address 0. *)
Entered ==
  AddWord(IF Self \in SeedKnown THEN SeedBalance[Self] ELSE 0, ctx.value)
BalanceLedger ==
  (phase \in {"body", "asked"} /\ st.nonce = 0) =>
    \E lost \in 0 .. FailedCreations : st.bal = FlooredSub(Entered, Moved + lost)

-----------------------------------------------------------------------------
(* The abstract world is the one the next request would send out. *)
Abs == INSTANCE WorldSpec WITH
         world <- Sent, saved <- Snapshot(entry, ctx.created)
Implements == Abs!Spec
=============================================================================
