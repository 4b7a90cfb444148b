----------------------------- MODULE ScopeGate -----------------------------
(***************************************************************************)
(* What a submission may contain: the rows of the register                 *)
(* (contest/exclusion_register.py), the detectors of the gate              *)
(* (contest/reject_gate.py) and the environment that it takes from the     *)
(* submission's test.                                                      *)
(*                                                                         *)
(* A submission is [sources, entry, test, at]: entry is the source that    *)
(* has the entry contract, and at the version of the register, a sequence  *)
(* of numbers.  A source is [nodes, functions, contracts].  An AST node is *)
(* [type, name, builtin, base, options, wrapped, receiver]: base is the    *)
(* type of the expression it applies to, options the names of its call     *)
(* options, and wrapped says that it is under a FunctionCallOptions.  A    *)
(* function is [kind, body], and a statement [nodes, reads, to]: what it   *)
(* evaluates, the places it reads, and the place its value goes to.        *)
(*                                                                         *)
(* An expression is [op, value, unit, args]: the literal 2 days has the    *)
(* value 2 and the unit 86400.  What other expressions fold to, and what   *)
(* they are, are parameters.                                               *)
(*                                                                         *)
(* The scan takes one call of the test's handle at a time while Foundry    *)
(* performs it; what passes is executed, any statement after any other.    *)
(***************************************************************************)
EXTENDS Integers, Sequences, SequencesExt, FiniteSets

CONSTANTS
  Word64, Word160, Word256,   \* the bounds of the fields of the environment
  FoldsTo(_),                 \* <<n>> for an expression that the gate folds to n, or <<>>
  ValuesOf(_),                \* what the expression may be when it is run
  GatedSubmissions            \* those that are made
ASSUME ScopeGateAssumption == {Word64, Word160, Word256} \subseteq Nat

VARIABLES
  submission,
  scanned, scan,  \* the calls of the test that were scanned, and what was found
  foundry,        \* the environment in Foundry after them
  outcome,        \* "none", "scanning", or the gate's
  reached         \* the excluded quantities that have got to each place
gateVars == <<submission, scanned, scan, foundry, outcome, reached>>

-----------------------------------------------------------------------------
(* The register.                                                           *)

Part(version, i) == IF i <= Len(version) THEN version[i] ELSE 0
SemverLt(a, b) ==
  \E i \in 1 .. Len(a) + Len(b) :
    /\ Part(a, i) < Part(b, i)
    /\ \A j \in 1 .. i - 1 : Part(a, j) = Part(b, j)

Never == <<>>
Entry(id, detector, since, removed) ==
  [id |-> id, detector |-> detector, since |-> since, removed |-> removed]
V(minor) == <<1, minor, 0>>
RegisterVersion == V(6)
(* the rows with a detector of the gate; the others are the adjudicator's *)
Syntactic ==
  {Entry("X-ASM", "inline_assembly", V(0), Never), Entry("X-IMPORT", "import_directive", V(0), Never),
   Entry("X-GASLEFT", "gasleft", V(0), Never), Entry("X-MSIZE", "msize", V(0), Never),
   Entry("X-STORAGELAYOUT", "storage_layout", V(0), Never),
   Entry("X-FIXED-EXEC", "fixed_point", V(0), V(5)), Entry("X-EXTCALL", "external_call", V(2), Never)}
ChannelRows ==
  {Entry("X-RETABI", "adjudicator", V(2), V(3)), Entry("X-ERRSEL", "adjudicator", V(2), V(3)),
   Entry("X-ARGVAL", "adjudicator", V(3), V(4)), Entry("X-FNVAL", "adjudicator", V(3), V(4)),
   Entry("X-FNARG", "adjudicator", V(4), V(6)), Entry("X-INTFNARG", "adjudicator", V(6), Never),
   Entry("X-INTFNVAL", "adjudicator", V(4), Never)}
Semantic ==
  {Entry("SEM-GAS", "gas", V(0), Never), Entry("SEM-CODE", "code", V(0), Never),
   Entry("SEM-ADDR", "create2", V(0), Never), Entry("SEM-ENV", "hash", V(1), Never),
   Entry("SEM-CLOSEDGAS", "stipend", V(0), Never)}
Register == Syntactic \cup ChannelRows \cup Semantic

ActiveWhenRemoved(row, at) ==
  /\ ~SemverLt(at, row.since)
  /\ row.removed # Never => ~SemverLt(row.removed, at)
IsActive(row, at) ==
  /\ ~SemverLt(at, row.since)
  /\ row.removed # Never => SemverLt(at, row.removed)

-----------------------------------------------------------------------------
(* The detectors.                                                          *)

LiteralInt(e) == IF e.op = "literal" THEN <<e.value>> ELSE FoldsTo(e)

LowLevelMembers == {"call", "staticcall", "delegatecall", "transfer", "send"}
ByName(n) == TRUE
RefsBuiltin(n) == n.builtin
AnsweredPrecompile(n, at) ==
  /\ n.name = "staticcall" /\ ~n.wrapped /\ ~SemverLt(at, V(6))
  /\ \E p \in 1 .. 10 : LiteralInt(n.receiver) = <<p>>

ExternalCall(n, at) ==
  \/ n.type = "MemberAccess" /\ n.name \in LowLevelMembers /\ ~AnsweredPrecompile(n, at)
  \/ n.type = "FunctionCall" /\ n.base \in {"external function", "contract"}
  \/ n.type = "NewExpression" /\ n.name = "contract"
  \/ n.type = "TryStatement"

Named(n, names) == n.type = "Identifier" /\ n.name \in names /\ RefsBuiltin(n)
Member(n, names) == n.type = "MemberAccess" /\ n.name \in names
HasOption(n, name) == n.type = "FunctionCallOptions" /\ name \in n.options

Matches(detector, n, at) ==
  CASE detector = "inline_assembly" -> n.type \in {"InlineAssembly", "Yul"}
    [] detector = "import_directive" -> n.type = "ImportDirective"
    [] detector = "gasleft" -> Named(n, {"gasleft"})
    [] detector = "msize" -> n.type = "Yul" /\ n.name = "msize"
    [] detector = "storage_layout" -> n.type = "StorageLayoutSpecifier"
    [] detector = "fixed_point" -> n.type \in {"BinaryOperation", "Assignment"} /\ n.base = "fixed"
    [] detector = "external_call" -> ExternalCall(n, at)
    [] detector = "gas" -> Named(n, {"gasleft"}) \/ Member(n, {"gasleft", "gasprice"}) \/ HasOption(n, "gas")
    [] detector = "code" -> Member(n, {"creationCode", "runtimeCode", "code", "codehash"})
    [] detector = "create2" -> HasOption(n, "salt")
    [] detector = "hash" -> Named(n, {"blockhash", "blobhash"}) \/ Member(n, {"blockhash", "blobhash"})
    [] detector = "stipend" -> (Member(n, {"transfer", "send"}) /\ n.base = "address") \/ HasOption(n, "gas")

Functions(source) == {f \in ToSet(source.functions) : f.kind # "initializer"}
StatementsOf(fs) == UNION {ToSet(f.body) : f \in fs}
AllNodes(source) == source.nodes \cup UNION {s.nodes : s \in StatementsOf(ToSet(source.functions))}

(* a return with an expression, an emit, a call of an assertion *)
ObservedPosition(statement) == statement.to \in {"return", "emit", "assert"}
ObservedFunctions(source) == {f \in Functions(source) : \E s \in ToSet(f.body) : ObservedPosition(s)}

SameFunctionScan(flagged, source) ==
  {n \in flagged : \E f \in ObservedFunctions(source) : \E st \in ToSet(f.body) : n \in st.nodes}
WholeSourceTaintScan(flagged, source) == IF ObservedFunctions(source) = {} THEN {} ELSE flagged
Presence == {"code", "hash"}
Hits(row, source, at) ==
  LET flagged == {n \in AllNodes(source) : Matches(row.detector, n, at)}
  IN IF row \in Syntactic \/ row.detector \in Presence THEN flagged
     ELSE WholeSourceTaintScan(flagged, source)

(* More than one contract that can be deployed and that no other one inherits
   from. A contract is [id, kind, abstract, bases], and is among its own bases;
   the ids are those of its file's AST. *)
AllBaseIds(sources) == UNION {ToSet(c.bases) : c \in UNION {s.contracts : s \in ToSet(sources)}}
BaseIds(sources) ==
  UNION {ToSet(c.bases) \ {c.id} : c \in UNION {s.contracts : s \in ToSet(sources)}}
Deployable(sources) ==
  UNION {{<<i, c>> : c \in {d \in sources[i].contracts :
            d.kind = "contract" /\ ~d.abstract /\ d.id \notin BaseIds(sources)}} : i \in DOMAIN sources}
DetectV1Multi(sources) == Cardinality(Deployable(sources)) > 1

RunGateOnAsts(sources, at) ==
  IF \/ \E row \in Syntactic \cup Semantic : IsActive(row, at) /\ \E s \in ToSet(sources) : Hits(row, s, at) # {}
     \/ DetectV1Multi(sources)
  THEN "OUT_OF_SCOPE" ELSE "PASS"

-----------------------------------------------------------------------------
(* The environment of the submission's test: the calls [name, args] of a handle
   of the test, in its order. *)

(* Mutant: two fields in a wrong order. *)
CheatcodeMixedUp ==
  [roll |-> "timestamp", warp |-> "number", chainId |-> "chainid", fee |-> "basefee",
   prevrandao |-> "prevrandao", prank |-> "_sender", startPrank |-> "_sender",
   stopPrank |-> "_noop", deal |-> "_deal"]
CheatcodeAllow ==
  [roll |-> "number", warp |-> "timestamp", chainId |-> "chainid", fee |-> "basefee",
   prevrandao |-> "prevrandao", prank |-> "_sender", startPrank |-> "_sender",
   stopPrank |-> "_noop", deal |-> "_deal"]
CheatcodeIgnore == {"label", "toString", "assume"}
WordBound(field) == Word256
Bound(field) ==
  CASE field \in {"number", "timestamp", "chainid"} -> Word64
    [] field = "_sender" -> Word160
    [] OTHER -> Word256

Fields == {"number", "timestamp", "chainid", "basefee", "prevrandao", "_sender"}
NoPins == [f \in Fields |-> -1]
NoScan == [rejected |-> FALSE, deals |-> <<>>, pins |-> NoPins]
Unmirrorable(s) == [s EXCEPT !.rejected = TRUE]
ScanDeal(s, args) ==
  LET folded == [i \in DOMAIN args |-> LiteralInt(args[i])]
  IN IF /\ Len(args) = 2 /\ \A i \in DOMAIN folded : folded[i] # <<>>
        /\ folded[1][1] \in 0 .. Word160 - 1 /\ folded[2][1] \in 0 .. Word256 - 1
     THEN [s EXCEPT !.deals = Append(@, <<folded[1][1], folded[2][1]>>)]
     ELSE Unmirrorable(s)
ScanPin(s, field, args) ==
  LET value == IF args = <<>> THEN <<>> ELSE LiteralInt(args[1])
  IN IF value # <<>> /\ value[1] \in 0 .. Bound(field) - 1
     THEN [s EXCEPT !.pins[field] = value[1]]
     ELSE Unmirrorable(s)
ScanCall(s, call) ==
  CASE call.name \in CheatcodeIgnore -> s
    [] call.name \notin DOMAIN CheatcodeAllow \cup CheatcodeIgnore -> Unmirrorable(s)
    [] call.name = "stopPrank" -> s
    [] call.name = "deal" -> ScanDeal(s, call.args)
    [] call.name \in {n \in DOMAIN CheatcodeAllow : CheatcodeAllow[n] \in Fields} ->
         ScanPin(s, CheatcodeAllow[call.name], call.args)

(* The call in the submission's own run of Foundry: its arguments are what
   Solidity computes. *)
Computed(e) == IF e.op = "literal" THEN {e.value * e.unit} ELSE ValuesOf(e)
Arguments(call) ==
  {values \in [DOMAIN call.args -> UNION {Computed(call.args[i]) : i \in DOMAIN call.args}] :
     \A i \in DOMAIN call.args : values[i] \in Computed(call.args[i])}
FoundrySets ==
  [roll |-> "number", warp |-> "timestamp", chainId |-> "chainid", fee |-> "basefee",
   prevrandao |-> "prevrandao", prank |-> "_sender", startPrank |-> "_sender"]
FoundryCall(env, name, values) ==
  CASE name = "stopPrank" -> [env EXCEPT !.pins["_sender"] = -1]
    [] name = "deal" -> [env EXCEPT !.deals = Append(@, <<values[1], values[2]>>)]
    [] name \in DOMAIN FoundrySets -> [env EXCEPT !.pins[FoundrySets[name]] = values[1]]
    [] OTHER -> env

-----------------------------------------------------------------------------
(* A submission's way through the gate.                                    *)

Places == {"storage", "local", "return", "named", "emit", "assert", "revert"}
(* A state variable's initializer has a value for storage only, a call that solc
   accepts has its arguments, which have a value, and a test that Foundry runs
   none too few. *)
WellFormed(s) ==
  /\ s.entry \in DOMAIN s.sources /\ s.at \in Seq(Nat)
  /\ \A f \in ToSet(s.sources[s.entry].functions) : \A st \in ToSet(f.body) :
       /\ st.to \in Places /\ st.reads \subseteq Places
       /\ f.kind = "initializer" => st.to = "storage"
  /\ \A i \in DOMAIN s.test :
       /\ \A j \in DOMAIN s.test[i].args : Computed(s.test[i].args[j]) # {}
       /\ s.test[i].name = "deal" => DOMAIN s.test[i].args = 1 .. 2
       /\ s.test[i].name \in DOMAIN CheatcodeAllow \ {"stopPrank"} => 1 \in DOMAIN s.test[i].args

NoSubmission == [sources |-> <<>>, entry |-> 0, test |-> <<>>, at |-> RegisterVersion]
GateInit ==
  /\ submission = NoSubmission /\ outcome = "none"
  /\ scanned = 0 /\ scan = NoScan /\ foundry = [pins |-> NoPins, deals |-> <<>>]
  /\ reached = [p \in Places |-> {}]

Submit ==
  /\ outcome = "none"
  /\ \E s \in GatedSubmissions : WellFormed(s) /\ submission' = s
  /\ outcome' = "scanning"
  /\ UNCHANGED <<scanned, scan, foundry, reached>>

(* scan_cheatcodes: the next call *)
ScanCheatcodes ==
  /\ outcome = "scanning" /\ scanned + 1 \in DOMAIN submission.test
  /\ LET call == submission.test[scanned + 1]
     IN /\ scan' = ScanCall(scan, call)
        /\ \E values \in Arguments(call) : foundry' = FoundryCall(foundry, call.name, values)
  /\ scanned' = scanned + 1
  /\ UNCHANGED <<submission, outcome, reached>>

(* adjudicate: what is banned or cannot be mirrored, then run_gate *)
RunGate ==
  /\ outcome = "scanning" /\ scanned + 1 \notin DOMAIN submission.test
  /\ outcome' = IF scan.rejected THEN "OUT_OF_SCOPE" ELSE RunGateOnAsts(submission.sources, submission.at)
  /\ UNCHANGED <<submission, scanned, scan, foundry, reached>>

(* What Solidity gives a node of the excluded quantities. *)
Holds(quantity, n) ==
  CASE quantity = "gas" -> \/ n.type = "Identifier" /\ n.name = "gasleft" /\ n.builtin
                           \/ n.type = "MemberAccess" /\ n.name = "gasprice" /\ n.base = "tx"
    [] quantity = "hash" -> n.type = "Identifier" /\ n.name \in {"blockhash", "blobhash"} /\ n.builtin
    [] quantity = "code" -> \/ n.type = "MemberAccess" /\ n.name \in {"code", "codehash"} /\ n.base = "address"
                            \/ n.type = "MemberAccess" /\ n.name \in {"creationCode", "runtimeCode"} /\ n.base = "type"
    [] quantity = "create2" -> n.type = "FunctionCallOptions" /\ "salt" \in n.options
    [] quantity = "stipend" -> \/ n.type = "MemberAccess" /\ n.name \in {"transfer", "send"} /\ n.base = "address"
                               \/ n.type = "FunctionCallOptions" /\ "gas" \in n.options
Quantities == {"gas", "hash", "code", "create2", "stipend"}
Value(st) == {q \in Quantities : \E n \in st.nodes : Holds(q, n)} \cup UNION {reached[p] : p \in st.reads}

(* a run of the entry contract, in Lean as in the EVM *)
Execute ==
  /\ outcome = "PASS"
  /\ \E f \in ToSet(submission.sources[submission.entry].functions) : \E st \in ToSet(f.body) :
       reached' = [reached EXCEPT ![st.to] = @ \cup Value(st)]
  /\ UNCHANGED <<submission, scanned, scan, foundry, outcome>>

GateNext == Submit \/ ScanCheatcodes \/ RunGate \/ Execute
GateSpec == GateInit /\ [][GateNext]_gateVars

-----------------------------------------------------------------------------
ExcludedAt(at) == {row.detector : row \in {r \in Semantic : IsActive(r, at)}}

(* "the excluded feature appears ANYWHERE in the source AND some function [...] has
   an observed position" (contest/reject_gate.py:508-509): no value of a quantity that
   a row excludes reaches a return, an event or an assertion of a source that
   passes, through storage and in whatever function. *)
NoExcludedValueIsReturned ==
  outcome = "PASS" =>
    \A p \in {"return", "emit", "assert"} : reached[p] \cap ExcludedAt(submission.at) = {}

(* A submission is judged by the register in force at its time
   (contest/exclusion_register.py:180), so what that register leaves in scope
   passes: a declared name like a builtin's; external calls before 1.2
   (contest/exclusion_register.py:36), block hashes before 1.1, fixed point from
   1.5 (:69), a static call of a literal precompile from 1.6 (:93). *)
Since(at, minor) == Part(at, 1) > 1 \/ (Part(at, 1) = 1 /\ Part(at, 2) >= minor)
InScope(n, at) ==
  \/ n.type = "Identifier" /\ ~n.builtin
  \/ n.type = "Identifier" /\ n.name \in {"blockhash", "blobhash"} /\ ~Since(at, 1)
  \/ n.type = "MemberAccess" /\ n.name = "staticcall" /\ ~n.wrapped /\ Since(at, 6)
       /\ \E p \in 1 .. 10 : LiteralInt(n.receiver) = <<p>>
  \/ n.type = "MemberAccess" /\ n.name \in {"call", "staticcall", "delegatecall"} /\ ~Since(at, 2)
  \/ n.type = "FunctionCall" /\ n.base = "contract" /\ ~Since(at, 2)
  \/ n.type = "TryStatement" /\ ~Since(at, 2)
  \/ n.type = "NewExpression" /\ (n.name = "contract" => ~Since(at, 2))
  \/ n.type \in {"BinaryOperation", "Assignment"} /\ (n.base = "fixed" => Since(at, 5))
  \/ n.type \in {"Literal", "PragmaDirective"}
PlainSourcesPass ==
  (/\ outcome = "OUT_OF_SCOPE" /\ ~scan.rejected
   /\ \A s \in ToSet(submission.sources) : \A n \in AllNodes(s) : InScope(n, submission.at))
    => DetectV1Multi(submission.sources)

(* "2+ independently-deployable contracts trigger the guard"
   (contest/reject_gate.py:691), of one file or of files that share no id and
   import nothing of each other. *)
IdsOfFile(s) == {c.id : c \in s.contracts}
TrulyDeployable(sources) ==
  UNION {{<<i, c>> : c \in {d \in sources[i].contracts :
            /\ d.kind = "contract" /\ ~d.abstract
            /\ \A e \in sources[i].contracts : d.id = e.id \/ d.id \notin ToSet(e.bases)}} : i \in DOMAIN sources}
IdsApart(sources) ==
  /\ \A i, j \in DOMAIN sources : i # j => IdsOfFile(sources[i]) \cap IdsOfFile(sources[j]) = {}
  /\ \A i \in DOMAIN sources : \A c \in sources[i].contracts : ToSet(c.bases) \subseteq IdsOfFile(sources[i])
OnlyTwoDeployablesAreMany ==
  IdsApart(submission.sources) =>
    (DetectV1Multi(submission.sources) <=> Cardinality(TrulyDeployable(submission.sources)) > 1)

(* "literal-argument, env-pinning cheatcodes (mirrored into the solidity-lean
   env)" (contest/reject_gate.py:747): a test that is not rejected has pins within
   what Foundry accepts; if its arguments are literals without a unit, and it
   stops no prank, they and the deals are those of its run in Foundry. *)
Pinning(call) == call.name \in DOMAIN CheatcodeAllow
NothingStopped == \A i \in 1 .. scanned : submission.test[i].name # "stopPrank"
SameEnvironment == scan.pins = foundry.pins /\ scan.deals = foundry.deals
OnlyLiterals ==
  \A i \in 1 .. scanned : Pinning(submission.test[i]) =>
    \A e \in ToSet(submission.test[i].args) : e.op = "literal" /\ e.unit = 1
LiteralPinsAreFoundrys ==
  ~scan.rejected =>
    /\ \A f \in {"number", "timestamp", "chainid"} : scan.pins[f] < Word64
    /\ scan.pins["_sender"] < Word160
    /\ NothingStopped /\ OnlyLiterals => SameEnvironment

(* What the register and its version name is what the gate stops, no more and no
   less, and what it takes from a test is what the test does: the three above. *)
GateFollowsTheRegister == PlainSourcesPass /\ OnlyTwoDeployablesAreMany /\ LiteralPinsAreFoundrys

-----------------------------------------------------------------------------
(* "a value derived from the excluded quantity reaching an OBSERVED position (an
   assertion comparand or the entry call's return/revert/event)"
   (contest/reject_gate.py:22-24), of every way to return and revert. *)
ObservedIsExcluded ==
  (outcome = "PASS" /\ submission.at = RegisterVersion)
    => \A p \in {"return", "named", "revert", "emit", "assert"} :
         reached[p] \cap ExcludedAt(submission.at) = {}

(* "Their effect is MIRRORED into the solidity-lean context so both sides see the
   same env" (contest/env.py:77), of every test that stops no prank. *)
PinsAreFoundrys == ~scan.rejected /\ NothingStopped => SameEnvironment

(* "2+ independently-deployable contracts trigger the guard"
   (contest/reject_gate.py:691), of all files. *)
TwoDeployablesAreMany ==
  DetectV1Multi(submission.sources) <=> Cardinality(TrulyDeployable(submission.sources)) > 1
=============================================================================
