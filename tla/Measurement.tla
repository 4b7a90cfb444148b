---------------------------- MODULE Measurement ----------------------------
(***************************************************************************)
(* What one submission is measured to do on the EVM (contest/measure.py),  *)
(* what it does in Lean under the mirrored environment (contest/env.py,    *)
(* lean_eval_line), and the comparison of the two (contest/observable.py). *)
(*                                                                         *)
(* A program is the operations of its constructor and those of its entry   *)
(* function, on words; an environment is the caller (0 is the canonical    *)
(* sender, which the EVM's genesis funds), the value, the deals and the    *)
(* slots injected after deployment.  Revert data is a record: its selector *)
(* (error, panic, custom, unknown or none), what it carries, whether bytes *)
(* follow that, and whether the source built it byte by byte.  A line of   *)
(* the normal form is a sequence of tokens; a text may hold the markers.   *)
(*                                                                         *)
(* An engine that computes something else is one that runs another         *)
(* program: task.evm is the submitted one, and task.lean what Lean takes   *)
(* it for.                                                                 *)
(***************************************************************************)
EXTENDS Integers, Sequences, SequencesExt, FiniteSets, FiniteSetsExt

CONSTANTS
  Genesis,       \* the canonical sender's balance
  Addresses, Slots,
  Tokens,        \* what revert data may carry
  Measurements   \* the submissions that may be measured

Canonical == 0
ASSUME MeasurementAssumption == Genesis \in Nat /\ Canonical \in Addresses /\ IsFiniteSet(Slots)

RevertData ==
  {d \in [sel: {"error", "panic", "custom", "unknown", "none"}, carries: Seq(Tokens),
          more: BOOLEAN, built: BOOLEAN] :
     d.sel = "none" => d.carries = <<>> /\ ~d.more}
WordSource ==
  ({"const"} \X Int) \cup ({"slot"} \X Slots) \cup ({"balance"} \X Addresses)
  \cup {<<"value">>, <<"calldata">>}
Operation ==
  [op: {"write", "log", "return"}, slot: Slots, from: WordSource] \cup [op: {"revert"}, data: RevertData]
Program == [constructor: Seq(Operation), entry: Seq(Operation)]
Environment ==
  [sender: Addresses, value: Nat, deals: Seq(Addresses \X Nat), inject: Seq(Slots \X Int)]

VARIABLES
  task,                \* [lean, evm, env]; <<>> before there is one
  evmLine, leanLine,   \* what was measured and evaluated
  compared
measureVars == <<task, evmLine, leanLine, compared>>

-----------------------------------------------------------------------------
(* The balances that Lean is given, a list that is looked up from its front *)

Lookup(balances, address) ==
  LET rows == {i \in DOMAIN balances : balances[i][1] = address}
  IN IF rows = {} THEN 0 ELSE balances[Min(rows)][2]

(* a later deal of an address replaces the amount and keeps the place *)
Replaced(rows, deal) ==
  IF \E i \in DOMAIN rows : rows[i][1] = deal[1]
  THEN [i \in DOMAIN rows |-> IF rows[i][1] = deal[1] THEN deal ELSE rows[i]]
  ELSE Append(rows, deal)
EffectiveDeals(deals) ==
  LET after[n \in 0 .. Len(deals)] == IF n = 0 THEN <<>> ELSE Replaced(after[n - 1], deals[n])
  IN after[Len(deals)]

(* Mutant: the genesis row comes first. *)
GenesisFirst(env, debit) == <<<<Canonical, Genesis>>>> \o EffectiveDeals(env.deals)
LeanBalances(env, debit) ==
  LET rows == Append(EffectiveDeals(env.deals), <<Canonical, Genesis>>)
      first(i) == rows[i][1] = env.sender /\ \A j \in 1 .. i - 1 : rows[j][1] # env.sender
  IN [i \in DOMAIN rows |->
        IF debit /\ first(i) /\ rows[i][2] >= env.value
        THEN <<rows[i][1], rows[i][2] - env.value>> ELSE rows[i]]

-----------------------------------------------------------------------------
(* What a program does, in either engine: a run is its storage, the slots it
   wrote, its logs and its outcome, <<>> while it goes on. *)

Word(source, context, storage) ==
  CASE source[1] = "const" -> source[2]
    [] source[1] = "slot" -> storage[source[2]]
    [] source[1] = "balance" -> context.balance[source[2]]
    [] source[1] = "value" -> context.value
    [] source[1] = "calldata" -> context.calldata

AfterOperation(run, o, context) ==
  CASE run.outcome # <<>> -> run
    [] run.outcome = <<>> /\ o.op = "write" ->
         [run EXCEPT !.storage[o.slot] = Word(o.from, context, run.storage),
                     !.written = @ \cup {o.slot}]
    [] run.outcome = <<>> /\ o.op = "log" ->
         [run EXCEPT !.logs = Append(@, Word(o.from, context, run.storage))]
    [] run.outcome = <<>> /\ o.op = "return" ->
         [run EXCEPT !.outcome = <<"success", Word(o.from, context, run.storage)>>]
    [] run.outcome = <<>> /\ o.op = "revert" -> [run EXCEPT !.outcome = <<"revert", o.data>>]
Perform(operations, context, storage, logs) ==
  LET after[n \in 0 .. Len(operations)] ==
        IF n = 0 THEN [storage |-> storage, written |-> {}, logs |-> logs, outcome |-> <<>>]
        ELSE AfterOperation(after[n - 1], operations[n], context)
  IN after[Len(operations)]
Reverts(run) == run.outcome # <<>> /\ run.outcome[1] = "revert"

NoSlots == [s \in Slots |-> 0]
InjectedSlots(env) == {env.inject[i][1] : i \in DOMAIN env.inject}
Injected(storage, env) ==
  [s \in Slots |->
     IF s \in InjectedSlots(env)
     THEN env.inject[Max({i \in DOMAIN env.inject : env.inject[i][1] = s})][2] ELSE storage[s]]

-----------------------------------------------------------------------------
(* The normal form *)

EvtSep == <<"EVT">>
StoSep == <<"STO">>
Raw(data) == <<"raw", data.sel, data.carries, data.more>>

(* bytes that follow the encoding are not looked at *)
EvmRevertForm(data) ==
  CASE data.sel = "none" -> <<<<"empty">>>>
    [] data.sel = "error" -> <<<<"error">>>> \o data.carries
    [] data.sel \in {"panic", "custom"} -> <<<<data.sel>>>> \o data.carries
    [] data.sel = "unknown" -> <<Raw(data)>>
RenderRevert(data) == IF data.built THEN <<Raw(data)>> ELSE EvmRevertForm(data)

Success(word) == <<<<"success">>, <<"w", word>>>>
(* a call that ends returns nothing *)
RenderCall(run, head, side) ==
  CASE run.outcome = <<>> -> <<<<"success">>>>
    [] run.outcome # <<>> /\ ~Reverts(run) -> Success(run.outcome[2])
    [] Reverts(run) -> <<<<head>>>> \o (IF side = "lean" THEN RenderRevert(run.outcome[2]) ELSE EvmRevertForm(run.outcome[2]))
RenderEvents(logs) == [i \in DOMAIN logs |-> <<"log", logs[i]>>]
RenderStorage(storage, slots) ==
  LET order == SetToSeq(slots) IN [i \in DOMAIN order |-> <<"slot", order[i], storage[order[i]]>>]
Line(outcome, events, storage) == outcome \o <<EvtSep>> \o events \o <<StoSep>> \o storage

-----------------------------------------------------------------------------
(* The measurement on the EVM (_harness_source) *)

EvmBalance(env) ==
  [a \in Addresses |->
     LET dealt == {i \in DOMAIN env.deals : env.deals[i][1] = a}
     IN IF dealt # {} THEN env.deals[Max(dealt)][2] ELSE IF a = Canonical THEN Genesis ELSE 0]
CallerPays(env) == EvmBalance(env)[env.sender] >= env.value

EvmContext(env, entry) ==
  [balance |-> IF entry THEN [EvmBalance(env) EXCEPT ![env.sender] = @ - env.value] ELSE EvmBalance(env),
   value |-> IF entry THEN env.value ELSE 0, calldata |-> IF entry THEN 1 ELSE 0]
EvmDeploy(program, env) == Perform(program.constructor, EvmContext(env, FALSE), NoSlots, <<>>)
NoData == [sel |-> "none", carries |-> <<>>, more |-> FALSE, built |-> FALSE]
EvmCall(program, env) ==
  IF CallerPays(env)
  THEN Perform(program.entry, EvmContext(env, TRUE), Injected(EvmDeploy(program, env).storage, env), <<>>)
  ELSE [storage |-> NoSlots, written |-> {}, logs |-> <<>>, outcome |-> <<"revert", NoData>>]

SlotsLoaded(deploy, call, env) ==
  deploy.written \cup call.written \cup InjectedSlots(env)

EvmObservable(program, env) ==
  LET deploy == EvmDeploy(program, env)
      call == EvmCall(program, env)
  IN IF Reverts(deploy) THEN Line(RenderCall(deploy, "deployrevert", "evm"), <<>>, <<>>)
     ELSE IF Reverts(call) THEN Line(RenderCall(call, "revert", "evm"), <<>>, <<>>)
     ELSE Line(RenderCall(call, "revert", "evm"), RenderEvents(call.logs),
               RenderStorage(call.storage, SlotsLoaded(deploy, call, env)))

-----------------------------------------------------------------------------
(* The evaluation in Lean (lean_eval_line, renderFullDelta) *)

LeanContext(env, entry) ==
  [balance |-> [a \in Addresses |-> Lookup(LeanBalances(env, entry), a)],
   value |-> IF entry THEN env.value ELSE 0, calldata |-> IF entry THEN 1 ELSE 0]

LogsFrom(run, skip) == SubSeq(run.logs, skip + 1, Len(run.logs))

LeanDeploy(program, env) == Perform(program.constructor, LeanContext(env, FALSE), NoSlots, <<>>)
LeanCall(program, env) ==
  LET deploy == LeanDeploy(program, env)
  IN Perform(program.entry, LeanContext(env, TRUE), Injected(deploy.storage, env), deploy.logs)
Nonzero(storage) == {s \in Slots : storage[s] # 0}
LeanObservable(program, env) ==
  LET deploy == LeanDeploy(program, env)
      call == LeanCall(program, env)
  IN IF Reverts(deploy) THEN Line(RenderCall(deploy, "deployrevert", "lean"), <<>>, <<>>)
     ELSE IF Reverts(call) THEN Line(RenderCall(call, "revert", "lean"), <<>>, <<>>)
     ELSE Line(RenderCall(call, "revert", "lean"), RenderEvents(LogsFrom(call, Len(deploy.logs))),
               RenderStorage(call.storage, Nonzero(call.storage)))

-----------------------------------------------------------------------------
(* The comparison *)

(* Mutant: the first marker separates. *)
SplitAtFirst(line, sep) ==
  LET at == {i \in DOMAIN line : line[i] = sep} IN IF at = {} THEN 0 ELSE Min(at)
SplitAt(line, sep) ==
  LET at == {i \in DOMAIN line : line[i] = sep} IN IF at = {} THEN 0 ELSE Max(at)
Sections(line) ==
  LET sto == SplitAt(line, StoSep)
      evt == SplitAt(SubSeq(line, 1, sto - 1), EvtSep)
  IN [outcome |-> SubSeq(line, 1, IF evt = 0 THEN sto - 1 ELSE evt - 1),
      events |-> IF evt = 0 THEN <<>> ELSE SubSeq(line, evt + 1, sto - 1),
      storage |-> SubSeq(line, sto + 1, Len(line))]

(* Raw revert bytes that a selector makes sense of are decoded. *)
CanonicalizeRawRevert(observable) ==
  LET o == observable.outcome
  IN IF o[1][1] \in {"revert", "deployrevert"} /\ o[2][1] = "raw"
     THEN [observable EXCEPT !.outcome = <<o[1]>> \o EvmRevertForm(
             [sel |-> o[2][2], carries |-> o[2][3], more |-> o[2][4], built |-> TRUE])]
     ELSE observable

Stripped(line) == IF Last(line) = <<"space">> THEN Front(line) ELSE line

Outcome(o) == IF o.outcome[1][1] = "revert" /\ o.outcome[2][1] = "panic" THEN "panic" ELSE o.outcome[1][1]

ParseStorageMap(storage) ==
  {<<storage[i][2], storage[i][3]>> : i \in {j \in DOMAIN storage : storage[j][3] # 0}}

DifferingOutcome(lean, evm) ==
  LET outs == {lean, evm}
  IN CASE lean # evm /\ "deployrevert" \in outs ->
            IF "success" \in outs THEN "deploy-revert-vs-success" ELSE "deploy-vs-call-revert"
       [] lean # evm /\ "deployrevert" \notin outs ->
            IF "success" \in outs THEN "revert-vs-success" ELSE "wrong-panic"
       [] lean = evm -> CASE lean = "success" -> "wrong-value" [] lean = "panic" -> "wrong-panic"
                          [] lean = "deployrevert" -> "wrong-deploy-revert" [] lean = "revert" -> "wrong-revert"

CompareObservables(l, e) ==
  CASE Stripped(l.outcome) # Stripped(e.outcome) -> DifferingOutcome(Outcome(l), Outcome(e))
    [] Stripped(l.outcome) = Stripped(e.outcome) /\ Outcome(l) = "success" /\ l.events # e.events -> "wrong-events"
    [] Stripped(l.outcome) = Stripped(e.outcome) /\ Outcome(l) = "success" /\ l.events = e.events
         /\ ParseStorageMap(l.storage) # ParseStorageMap(e.storage) -> "wrong-state"
    [] OTHER -> "equal"

(* what is compared of a line *)
NormalForm(line) == CanonicalizeRawRevert(Sections(line))

-----------------------------------------------------------------------------
(* One submission, in the order of the adjudicator *)

MeasureInit == task = <<>> /\ evmLine = <<>> /\ leanLine = <<>> /\ compared = "none"

TakeTask ==
  /\ task = <<>>
  /\ \E t \in Measurements : t \in [lean: Program, evm: Program, env: Environment] /\ task' = t
  /\ UNCHANGED <<evmLine, leanLine, compared>>

MeasureEvm ==
  /\ task # <<>> /\ evmLine = <<>>
  /\ evmLine' = EvmObservable(task.evm, task.env)
  /\ UNCHANGED <<task, leanLine, compared>>

EvaluateLean ==
  /\ evmLine # <<>> /\ leanLine = <<>>
  /\ leanLine' = LeanObservable(task.lean, task.env)
  /\ UNCHANGED <<task, evmLine, compared>>

CompareLines ==
  /\ leanLine # <<>> /\ compared = "none"
  /\ compared' = CompareObservables(NormalForm(leanLine), NormalForm(evmLine))
  /\ UNCHANGED <<task, evmLine, leanLine>>

MeasureNext == TakeTask \/ MeasureEvm \/ EvaluateLean \/ CompareLines
MeasureSpec == MeasureInit /\ [][MeasureNext]_measureVars

-----------------------------------------------------------------------------
(* What can be seen of a program on the chain *)
Behavior(program, env) ==
  LET deploy == EvmDeploy(program, env)
      call == EvmCall(program, env)
      seen(run) == IF Reverts(run) THEN <<"revert", Raw(run.outcome[2])>> ELSE run.outcome
  IN [deploy |-> IF Reverts(deploy) THEN seen(deploy) ELSE <<>>,
      call |-> IF Reverts(deploy) THEN <<>> ELSE seen(call),
      logs |-> IF Reverts(deploy) \/ Reverts(call) THEN <<>> ELSE call.logs,
      storage |-> IF Reverts(deploy) \/ Reverts(call) THEN {}
                  ELSE {<<s, call.storage[s]>> : s \in Nonzero(call.storage)}]

(* No revert data with bytes after the encoding, or a space at the end. *)
Exact(program) ==
  \A o \in ToSet(program.constructor \o program.entry) : o.op = "revert" =>
    /\ ~o.data.more \/ o.data.sel = "unknown"
    /\ o.data.carries = <<>> \/ Last(o.data.carries) # <<"space">>

(* The component of two behaviors: what differs first. *)
CallDifference(l, e) ==
  LET reverts == {x \in {l, e} : x.call # <<>> /\ x.call[1] = "revert"}
  IN IF reverts = {} THEN {"wrong-value"} ELSE IF reverts = {l, e} THEN {"wrong-revert", "wrong-panic"}
     ELSE {"revert-vs-success"}
FirstDifference(l, e) ==
  CASE l = e -> {"equal"}
    [] l.deploy # e.deploy ->
         IF l.deploy # <<>> /\ e.deploy # <<>> THEN {"wrong-deploy-revert"}
         ELSE {"deploy-revert-vs-success", "deploy-vs-call-revert"}
    [] l.deploy = e.deploy /\ l.call # e.call -> CallDifference(l, e)
    [] l # e /\ l.deploy = e.deploy /\ l.call = e.call -> IF l.logs # e.logs THEN {"wrong-events"} ELSE {"wrong-state"}

(* "Applied IDENTICALLY on both engines" (contest/env.py): a program that both
   engines run alike compares equal, whatever the caller, value, deals and
   injected slots are, if the caller can pay the value. *)
NoFalseGap ==
  (compared # "none" /\ task.lean = task.evm /\ CallerPays(task.env)) => compared = "equal"

(* "real divergences are preserved (never masked)" (contest/observable.py:842): a
   Lean that behaves otherwise is told apart, and the component, which is a part
   of the finding's key, is the first in which they differ. *)
NoMaskedGap ==
  (compared # "none" /\ CallerPays(task.env) /\ Exact(task.lean) /\ Exact(task.evm)) =>
    compared \in FirstDifference(Behavior(task.lean, task.env), Behavior(task.evm, task.env))

-----------------------------------------------------------------------------
(* The same sentence (contest/observable.py:842), of all revert data. *)
RevertsNeverMasked ==
  compared = "equal" => Behavior(task.lean, task.env) = Behavior(task.evm, task.env)
=============================================================================
