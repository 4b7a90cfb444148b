---------------------------- MODULE SelfDispatch ----------------------------
(***************************************************************************)
(* Calls to address(this) (Interpreter.lean selfDispatchCall, ABI.lean     *)
(* selfDispatchHook): a closed-world entry installs a hook that runs the   *)
(* contract's own dispatcher on the live State, in a frame of its own.     *)
(* A frame's State is put back by handing its caller the State it passed   *)
(* in; the EVM, and the variable journal here, undo writes one by one.     *)
(*                                                                         *)
(* A body is any sequence of operations.  A caller without a catch clause  *)
(* is one whose next operation is Revert.  MaxOps bounds the operations.   *)
(***************************************************************************)
EXTENDS Integers, SequencesExt

CONSTANTS
  Slots, WordMod,
  SeedBalance,  \* balanceAt accountBalances self, the same for every frame
  Values,       \* words stored, and msg.value
  Fuel,         \* the budget baked into the entry's hook
  MaxOps

ASSUME SelfDispatchAssumption ==
  /\ WordMod \in Nat \ {0} /\ Values \subseteq 0 .. (WordMod - 1) /\ 0 \in Values
  /\ SeedBalance \in 0 .. (WordMod - 1)
  /\ Fuel \in Nat /\ MaxOps \in Nat

Memory == [Slots -> Values]
Zero == [s \in Slots |-> 0]
Empty == [sto |-> Zero, tr |-> Zero, sds |-> 0, ext |-> << >>]
Fields == [sto: Memory, tr: Memory, sds: Nat, ext: Seq(BOOLEAN)]
SolState == [f: Fields, bal: 0 .. (WordMod - 1)]

Losses == {"unanswered", "truncated"}

VARIABLES
  st,       \* the live State: the fields a revert must undo, and the balance
  stack,    \* the running frames, innermost last; empty between calls
  lost,     \* history: how frames of this run ended without a result
  aborted,  \* the entry returned none: no State is reported
  journal,  \* history: the writes in force, as the EVM's revert journal
  left      \* operations left

vars == <<st, stack, lost, aborted, journal, left>>

(* depth is the budget of the frame's own hook; creation frames run a
   constructor; clears says a transaction ends with the frame *)
Frame == [entry: SolState, mark: Nat, depth: 0 .. Fuel, creation: BOOLEAN,
          clears: BOOLEAN]
Top == Last(stack)

-----------------------------------------------------------------------------
(* Writes, each one an entry of the journal *)

Writes == [op: {"sto", "tr"}, at: Slots, val: Values]
          \cup [op: {"clear", "sds"}] \cup [op: {"ext"}, val: BOOLEAN]

Apply(f, w) ==
  CASE w.op = "sto"   -> [f EXCEPT !.sto[w.at] = w.val]
    [] w.op = "tr"    -> [f EXCEPT !.tr[w.at] = w.val]
    [] w.op = "clear" -> [f EXCEPT !.tr = Zero]
    [] w.op = "sds"   -> [f EXCEPT !.sds = @ + 1]
    [] w.op = "ext"   -> [f EXCEPT !.ext = Append(@, w.val)]

(* What the writes ws make of the fields f, one after the other. *)
After(f, ws) ==
  LET g[n \in 0 .. Len(ws)] == IF n = 0 THEN f ELSE Apply(g[n - 1], ws[n])
  IN  g[Len(ws)]

(* Run the writes ws on State s, and journal them after j. *)
Write(s, j, ws) ==
  /\ st' = [s EXCEPT !.f = After(@, ws)]
  /\ journal' = j \o ws

ClearIf(b) == IF b THEN <<[op |-> "clear"]>> ELSE << >>
Called(success) == <<[op |-> "ext", val |-> success]>>

(* Mutant: the sum does not wrap. *)
RebaseUnbounded(s, value) == [s EXCEPT !.bal = SeedBalance + value]
(* evalBodyEntry: every entry starts the balance again from the seed *)
Rebase(s, value) == [s EXCEPT !.bal = (SeedBalance + value) % WordMod]

(* Mutants of the guards below. *)
HookUnbounded(frame) == ~frame.creation
HookInCreation(frame) == frame.depth > 0
(* selfDispatchHook 0 resolves to none; a constructor has no code yet. *)
HookResolves(frame) == frame.depth > 0 /\ ~frame.creation

(* Mutant: the caller goes on with what the failed frame left. *)
FailedStateKept(frame) == st
(* callBodyResult reports the State the frame was given. *)
FailedState(frame) == frame.entry

-----------------------------------------------------------------------------
Init ==
  /\ st = [f |-> Empty, bal |-> 0] /\ journal = << >> /\ stack = << >>
  /\ lost = {} /\ aborted = FALSE /\ left = MaxOps

Spend == left > 0 /\ left' = left - 1
Running == stack # << >>

(* callSelfDispatch?, callTransactionSelfDispatch?, constructFrom? *)
Enter(creation, clears, value) ==
  /\ ~Running /\ ~aborted /\ Spend
  /\ creation => ~clears
  /\ LET ws == ClearIf(clears)
         s == [st EXCEPT !.f = After(@, ws)]
     IN  /\ st' = Rebase(s, value) /\ journal' = journal \o ws
         /\ stack' = <<[entry |-> s, mark |-> Len(journal'), depth |-> Fuel,
                        creation |-> creation, clears |-> clears]>>
  /\ UNCHANGED <<lost, aborted>>

(* The innermost frame ends.  The entry hands the State to the driver, and a
   hook hands it to its caller, which records the interaction. *)
Pop(success, s, j) ==
  /\ stack' = Front(stack)
  /\ Write(s, j, IF Len(stack) = 1 THEN ClearIf(Top.clears) ELSE Called(success))

Fail == Pop(FALSE, FailedState(Top), SubSeq(journal, 1, Top.mark))

Store ==
  /\ Running /\ Spend
  /\ \E op \in {"sto", "tr"}, k \in Slots, v \in Values :
       Write(st, journal, <<[op |-> op, at |-> k, val |-> v]>>)
  /\ UNCHANGED <<stack, lost, aborted>>

(* this.f(), or a low-level call of address(this).  A staticcall is made for
   view targets only: it is a call whose body writes nothing. *)
SelfCall(value) ==
  /\ Running /\ HookResolves(Top) /\ Spend
  /\ st' = Rebase(st, value)
  /\ stack' = Append(stack, [entry |-> st, mark |-> Len(journal),
                             depth |-> Top.depth - 1, creation |-> FALSE,
                             clears |-> FALSE])
  /\ UNCHANGED <<lost, aborted, journal>>

(* The dispatcher rejects the call, or its budget is spent: a failed call that
   moved nothing.  A constructor never gets here: its this.f() reverts. *)
SelfCallRefused ==
  /\ Running /\ ~Top.creation /\ Spend
  /\ Write(st, journal, Called(FALSE))
  /\ UNCHANGED <<stack, lost, aborted>>

(* A staticcall of a precompile is answered by the echo of the world. *)
Precompile(success) ==
  /\ Running /\ Spend /\ Write(st, journal, Called(success))
  /\ UNCHANGED <<stack, lost, aborted>>

Return ==
  /\ Running /\ Pop(TRUE, st, journal) /\ UNCHANGED <<lost, aborted, left>>
Revert == Running /\ Fail /\ UNCHANGED <<lost, aborted, left>>

(* selfdestruct ends its frame with success and an empty balance *)
Selfdestruct ==
  /\ Running /\ Spend
  /\ LET ws == <<[op |-> "sds"]>>
     IN  Pop(TRUE, [f |-> After(st.f, ws), bal |-> 0], journal \o ws)
  /\ UNCHANGED <<lost, aborted>>

(* The fold of the innermost frame ends without a result: a request to another
   contract, which the empty responder never answers, or no fuel.  At the
   entry this is none; a hook that returns none is a failed call. *)
Escape(how) ==
  /\ Running /\ Spend /\ lost' = lost \cup {how}
  /\ IF Len(stack) = 1
     THEN aborted' = TRUE /\ stack' = << >> /\ UNCHANGED <<st, journal>>
     ELSE Fail /\ UNCHANGED aborted

Next ==
  \/ \E creation \in BOOLEAN, clears \in BOOLEAN, value \in Values :
       Enter(creation, clears, value)
  \/ Store \/ SelfCallRefused \/ Return \/ Revert \/ Selfdestruct
  \/ \E value \in Values : SelfCall(value)
  \/ \E success \in BOOLEAN : Precompile(success)
  \/ \E how \in Losses : Escape(how)

Spec == Init /\ [][Next]_vars

-----------------------------------------------------------------------------
(* Properties *)

(* Every variable stays in its type. *)
TypeOK ==
  /\ st \in SolState /\ stack \in Seq(Frame) /\ journal \in Seq(Writes)
  /\ lost \in SUBSET Losses /\ aborted \in BOOLEAN /\ left \in 0 .. MaxOps

LiveIsJournalled == st.f = After(Empty, journal)

(* Whole-State rollback is the EVM's: at every moment, with any nesting of
   returned, reverted and refused frames, the live State is what the writes
   still in force make of an empty one, with every variable in its type. *)
JournalAgrees == TypeOK /\ LiveIsJournalled

(* Nesting is bounded by the entry's budget, and each frame's hook has one
   less than its caller's (selfDispatchHook: mutual self-calls terminate). *)
NestingBounded ==
  /\ Len(stack) <= Fuel + 1
  /\ \A i \in DOMAIN stack : stack[i].depth = Fuel + 1 - i

(* "extcodesize(this) == 0": a contract under construction is never called,
   so a constructor's frame is the only frame. *)
NoCallIntoConstruction ==
  \A i \in DOMAIN stack : stack[i].creation => Len(stack) = 1

(* "any OTHER external call still fails closed" (callSelfDispatch?): after a
   request nobody answered, no State is reported. *)
FailsClosed == "unanswered" \in lost => aborted

(* "Balance flows ONLY through adoption" (recordExternalInteraction): a call
   to oneself adopts nothing, so it leaves the caller's balance alone. *)
SelfCallKeepsBalance ==
  [][\A n \in 1 .. Len(stack) - 1 :
       Len(stack') = n /\ st'.f.sds = stack[n + 1].entry.f.sds
       => st'.bal = stack[n + 1].entry.bal]_vars
=============================================================================
