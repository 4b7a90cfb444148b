----------------------------- MODULE OpenWorld -----------------------------
(***************************************************************************)
(* The open world of SolidCore/Solidity/Interpreter.lean: the accounts,    *)
(* log series, selfdestruct set and created set that an external request   *)
(* sends out and that its answer sends back, and the pure operations the   *)
(* scripted responder and SELFDESTRUCT perform on it.                      *)
(*                                                                         *)
(* Data abstraction: code is a member of Codes, an event a member of       *)
(* Events, a word a residue modulo WordMod; storage maps are total (an     *)
(* absent slot reads 0 in the code as well).  Substate fields that the     *)
(* interpreter always leaves alone (access sets, refund) are left out.     *)
(***************************************************************************)
EXTENDS Integers, Sequences

CONSTANTS
  Addrs,      \* account addresses
  Self,       \* Context.self, the executing contract
  Slots,      \* storage and transient-storage slots
  WordMod,    \* 2^256 in the code
  Events,     \* the events the contract can emit
  Codes,      \* code byte strings
  NoCode,     \* the empty code
  NoAccount,  \* accounts.find? = none
  Keep,       \* an absent optional field of a responder delta
  NoDelta,    \* a responder row without a delta
  Rows        \* the rows a responder may answer with

ASSUME OpenWorldAssumption ==
  /\ Self \in Addrs
  /\ WordMod \in Nat /\ WordMod > 1
  /\ NoCode \in Codes

Word == 0 .. (WordMod - 1)
Memory == [Slots -> Word]
ZeroMemory == [s \in Slots |-> 0]

Account == [nonce: Word, bal: Word, sto: Memory, tr: Memory, code: Codes]
DefaultAccount ==
  [nonce |-> 0, bal |-> 0, sto |-> ZeroMemory, tr |-> ZeroMemory,
   code |-> NoCode]

ASSUME NoAccountAssumption == NoAccount \notin Account

Log == [from: Addrs, ev: Events]
World == [acct: [Addrs -> Account \cup {NoAccount}],
          sds: SUBSET Addrs, logs: Seq(Log), created: SUBSET Addrs]

(* accounts.find? addr, or the default account *)
AccountOf(w, a) == IF w.acct[a] = NoAccount THEN DefaultAccount ELSE w.acct[a]
PutAccount(w, a, account) == [w EXCEPT !.acct = [@ EXCEPT ![a] = account]]
SetBalance(w, a, amount) ==
  PutAccount(w, a, [AccountOf(w, a) EXCEPT !.bal = amount])

(* Mutant: the sum does not wrap. *)
AddWordUnbounded(x, y) == x + y
AddWord(x, y) == (x + y) % WordMod
FlooredSub(x, y) == IF x >= y THEN x - y ELSE 0

Debit(w, amount) ==
  IF amount = 0 THEN w
  ELSE SetBalance(w, Self, FlooredSub(AccountOf(w, Self).bal, amount))

Credit(w, a, amount) ==
  IF amount = 0 THEN w
  ELSE SetBalance(w, a, AddWord(AccountOf(w, a).bal, amount))

(* SELFDESTRUCT: credit the recipient first, then zero self *)
Sweep(w, recipient) ==
  SetBalance(Credit(w, recipient, AccountOf(w, Self).bal), Self, 0)

-----------------------------------------------------------------------------
(* Deltas carried by responder rows *)

OptWord == Word \cup {Keep}
Facts == [bal: OptWord, code: Codes \cup {Keep}]
Delta == [sto: [Slots -> OptWord], tr: [Slots -> OptWord],
          bal: OptWord, nonce: OptWord,
          others: UNION {[D -> Facts] : D \in SUBSET Addrs},
          logs: Seq(Log), created: SUBSET Addrs]
EmptyDelta ==
  [sto |-> [s \in Slots |-> Keep], tr |-> [s \in Slots |-> Keep],
   bal |-> Keep, nonce |-> Keep, others |-> [a \in {} |-> Keep],
   logs |-> << >>, created |-> {}]

(* Matching a request fixes a row's key; what is left is its result: the
   success flag, whether the created address is 0, and the delta. *)
Row == [success: BOOLEAN, zero: BOOLEAN, post: Delta \cup {NoDelta}]

ASSUME RowAssumption ==
  Keep \notin Word /\ Keep \notin Codes /\ NoDelta \notin Delta /\ Rows \subseteq Row

Over(new, old) == IF new = Keep THEN old ELSE new
OverMemory(new, old) == [s \in Slots |-> Over(new[s], old[s])]

ApplyToSelf(d, account) ==
  [account EXCEPT !.sto = OverMemory(d.sto, @), !.tr = OverMemory(d.tr, @),
                  !.bal = Over(d.bal, @), !.nonce = Over(d.nonce, @)]
ApplyFacts(f, account) ==
  [account EXCEPT !.bal = Over(f.bal, @), !.code = Over(f.code, @)]

(* PostDelta.apply: self first, then the facts of the listed accounts *)
ApplyDelta(d, w) ==
  LET v == PutAccount(w, Self, ApplyToSelf(d, AccountOf(w, Self)))
  IN  [v EXCEPT
         !.acct = [a \in Addrs |->
                     IF a \in DOMAIN d.others
                     THEN ApplyFacts(d.others[a], AccountOf(v, a))
                     ELSE @[a]],
         !.logs = @ \o d.logs,
         !.created = @ \cup d.created]

(* An answer that leaves the world alone, save for the debit *)
Echo == [success |-> FALSE, zero |-> FALSE, post |-> NoDelta]

(* The postWorld of a matched row: an absolute balance replaces the debit. *)
AnswerWorld(w, amount, post) ==
  IF post = NoDelta THEN Debit(w, amount)
  ELSE ApplyDelta(post, IF post.bal = Keep THEN Debit(w, amount) ELSE w)
=============================================================================
