----------------------------- MODULE MCContest -----------------------------
(***************************************************************************)
(* The contest's components over small inputs.  A behavior replays one     *)
(* pool, takes one submission through the gate, measures one, or picks one *)
(* input of a pure algorithm and stops; every invariant is about one of    *)
(* them.                                                                   *)
(***************************************************************************)
EXTENDS DedupReplay, ScopeGate, Measurement

(* Fingerprint: files with two or three functions of the same shape.       *)
MCWords == <<"SourceUnit", "FunctionDefinition", "VariableDeclaration", "Identifier",
  "Literal", "BinaryOperation", "MemberAccess", "FunctionCall", "arguments", "body", "expression",
  "leftExpression", "nodes", "parameters", "rightExpression", "operator", "value", "memberName",
  "?", "ref", "name", "argnames", "builtin">>
FP == INSTANCE Fingerprint WITH Words <- MCWords

NoKids == [k \in {} |-> <<>>]
Node(type, attrs, kids) ==
  [type |-> type, id |-> 0, ref |-> 0, name |-> 0, attrs |-> attrs, names |-> <<>>, kids |-> kids]
Literal(v) == Node("Literal", <<<<"value", v>>>>, NoKids)
InUnit(v, u) == Node("Literal", <<<<"value", v>>, <<"unit", u>>>>, NoKids)
Use(id) == [Node("Identifier", <<>>, NoKids) EXCEPT !.ref = id, !.name = id]
MemberOf(node, ref, name) == [Node("MemberAccess", <<<<"memberName", name>>>>, [expression |-> <<node>>]) EXCEPT !.ref = ref]
Calling(function, names, args) ==
  [Node("FunctionCall", <<>>, [expression |-> <<function>>, arguments |-> args]) EXCEPT !.names = names]
Minus(a, b) == Node("BinaryOperation", <<<<"operator", 1>>>>, [leftExpression |-> <<a>>, rightExpression |-> <<b>>])
Var(id) == [Node("VariableDeclaration", <<>>, NoKids) EXCEPT !.id = id]
Function(id, params, result) ==
  [Node("FunctionDefinition", <<>>, [parameters |-> params, body |-> <<result>>]) EXCEPT !.id = id]
File(id, members) == [Node("SourceUnit", <<>>, [nodes |-> members]) EXCEPT !.id = id]

(* msg.sender, this.g(), f({x: 1, y: 2}) and the like *)
Bodies == {Literal(1), InUnit(1, 2), Minus(Use(11), Use(12)), Minus(Use(12), Use(11)),
           Use(-15), Use(2), Use(3), MemberOf(Use(-15), 0, -2), Calling(MemberOf(Use(-28), 2, 2), <<>>, <<>>)}
  \cup {Calling(Use(1), names, <<Literal(1), Literal(2)>>) : names \in {<<>>, <<11, 12>>, <<12, 11>>}}
F(body) == Function(1, <<Var(11), Var(12)>>, body)
Programs ==
  UNION {LET f == F(b)
             g == Function(2, <<>>, Literal(v))
             h == Function(3, <<>>, Literal(w))
         IN {<<File(90, <<f, g, h>>)>>, <<File(90, <<h, f, g>>)>>, <<File(90, <<f>>), File(91, <<g, h>>)>>}
         : b \in Bodies, v \in {1, 2}, w \in {1, 2}}
Modes == {"full", "parse"}
Keys == [p \in Programs |-> [m \in Modes |-> FP!Key(p, m)]]

Swap == [id \in {1, 2, 3, 11, 12, 90, 91} |-> 100 - id]
WithNewNames(asts) == [i \in DOMAIN asts |-> FP!Renamed(asts[i], Swap)]
Shuffled(asts) ==
  Reverse([i \in DOMAIN asts |->
            [asts[i] EXCEPT !.kids = [k \in DOMAIN @ |-> Reverse(@[k])]]])

(* DedupReplay: defects 1 and 2 show in the same component, the reference
   closes 1 and 3. *)
MCComponent == <<"wrong-value", "wrong-value", "wrong-panic", "storage", "wrong-value">>
Submitted(id, lane, defects, feature, e0, e1) ==
  [id |-> id, lane |-> lane, defects |-> defects, feature |-> feature, e0 |-> e0, e1 |-> e1]
Submissions(id) ==
  {Submitted(id, "S", d, f, "none", e1) :
     d \in {{1}, {2}, {4}, {1, 4}}, f \in Features, e1 \in {"none", "timeout"}}
  \cup {Submitted(id, l, {3}, "f", e0, e1) :
          l \in {"over_accept", "C"}, e0 \in {"none", "killed"}, e1 \in {"none", "timeout"}}
  \cup {Submitted(id, l, {5}, "f", "none", e1) :
          l \in {"over_accept", "C"}, e1 \in {"none", "timeout", "killed"}}
Novel(id) == {Submitted(id, "S", {2}, f, "none", "none") : f \in Features}
MCPools == {<<s, t>> : s \in Submissions(1), t \in Submissions(2)}
  \cup {<<s, t, u>> : s \in Novel(1), t \in Submissions(2), u \in Novel(3)}

(* Measurement: programs of at most two operations in the constructor and three
   in the entry function. *)
Data(sel, carries, more, built) == [sel |-> sel, carries |-> carries, more |-> more, built |-> built]
MCTokens == {<<"text", "a">>, <<"text", "b">>, <<"EVT">>, <<"STO">>, <<"space">>, <<"code", 1>>, <<"code", 2>>, <<"w", 1>>}
Texts == {<<<<"text", "a">>>>, <<<<"text", "a">>, <<"EVT">>>>, <<<<"text", "a">>, <<"EVT">>, <<"text", "b">>>>,
          <<<<"text", "a">>, <<"STO">>, <<"text", "b">>>>, <<<<"text", "a">>, <<"space">>>>}
Reverting ==
  {Data("none", <<>>, FALSE, FALSE), Data("unknown", <<>>, FALSE, TRUE), Data("unknown", <<>>, TRUE, TRUE),
   Data("panic", <<<<"code", 1>>>>, FALSE, FALSE), Data("panic", <<<<"code", 2>>>>, FALSE, FALSE),
   Data("panic", <<<<"code", 1>>>>, TRUE, TRUE), Data("custom", <<<<"w", 1>>>>, FALSE, FALSE)}
  \cup {Data("error", t, FALSE, b) : t \in Texts, b \in BOOLEAN}
Op(op, slot, from) == [op |-> op, slot |-> slot, from |-> from]
RevertOp(data) == [op |-> "revert", data |-> data]
WordSources == {<<"const", 0>>, <<"const", 1>>, <<"slot", 1>>, <<"balance", 0>>, <<"balance", 1>>, <<"value">>, <<"calldata">>}
Constructors ==
  {<<>>} \cup {<<Op(op, 1, from)>> : op \in {"write", "log"}, from \in {<<"const", 1>>, <<"balance", 1>>}}
  \cup {<<RevertOp(Data("error", <<<<"text", "a">>>>, FALSE, b))>> : b \in BOOLEAN}
  \cup {<<RevertOp(Data("panic", <<<<"code", 1>>>>, FALSE, FALSE))>>}
Reading ==
  {<<Op("return", 0, from)>> : from \in WordSources}
  \cup {<<Op("log", 0, <<"const", 1>>), Op("write", 1, from), Op("return", 0, <<"slot", 1>>)>> : from \in WordSources}
Writing == {<<Op(op, 1, from)>> : op \in {"write", "log"}, from \in {<<"const", 0>>, <<"const", 1>>, <<"balance", 1>>}}
Failing == {<<Op("write", 1, <<"const", 2>>), RevertOp(d)>> : d \in Reverting}
Deals == {<<>>, <<<<0, 1>>>>, <<<<1, 1>>>>, <<<<1, 0>>, <<1, 2>>>>, <<<<1, 2>>, <<0, 2>>, <<1, 1>>>>}
Injections == {<<>>, <<<<1, 1>>>>, <<<<1, 0>>>>, <<<<2, 1>>>>, <<<<1, 2>>, <<1, 1>>>>}
Environments == [sender: {0, 1}, value: {0, 1}, deals: Deals, inject: Injections]
Plain == [sender |-> 0, value |-> 1, deals |-> <<>>, inject |-> <<<<2, 1>>>>]
ProgramsOf(constructors, entries) == [constructor: constructors, entry: entries]
Alike(programs, envs) == {[lean |-> p, evm |-> p, env |-> e] : p \in programs, e \in envs}
Defective == ProgramsOf(Constructors, Writing) \cup ProgramsOf({<<>>}, Reading \cup Failing)

(* the same program in every environment, and every two of the defective ones in
   one *)
MCMeasurements ==
  Alike(ProgramsOf(Constructors, Reading \cup Writing), Environments) \cup Alike(ProgramsOf({<<>>}, Failing), Environments)
  \cup [lean: Defective, evm: Defective, env: {Plain}]

(* AbiCodec: words of two bytes of 16 values. *)
AC == INSTANCE AbiCodec WITH
  ByteMod <- 16, WordBytes <- 2, AddressMod <- 4, SelectorMod <- 4, MaxLength <- 2, MaxNesting <- 2

Type(kind, n, parts) == [kind |-> kind, n |-> n, parts |-> parts]
Of(kind) == Type(kind, 0, <<>>)
Struct(parts) == Type("struct", 0, parts)
ScalarTypes ==
  {Type("uint", 16, <<>>), Type("uint", 256, <<>>), Type("int", 16, <<>>), Type("int", 256, <<>>),
   Type("enum", 2, <<>>), Type("enum", 0, <<>>)}
  \cup {Of(kind) : kind \in {"bool", "address", "bytes32", "bytes", "external", "internal", "unresolved"}}
LeafTypes == {Type("uint", 16, <<>>), Of("bytes"), Of("external"), Of("bool")}
ArrayTypes(leaves) == UNION {{Type("dynamic", 0, <<t>>), Type("fixed", 2, <<t>>)} : t \in leaves}
StructTypes == {Struct(<<a, b>>) : a, b \in LeafTypes}
NestedTypes ==
  ArrayTypes(ArrayTypes({Type("uint", 16, <<>>), Of("bytes")}) \cup {Struct(<<Type("uint", 16, <<>>), Of("bytes")>>),
             Struct(<<Of("bool"), Of("external")>>)})
  \cup {Struct(<<t, Of("bool")>>) : t \in ArrayTypes({Type("uint", 16, <<>>), Of("bytes")})}

Bare(n) == [form |-> "int", n |-> n, of |-> NoKids, items |-> <<>>]
Bool(n) == [form |-> "bool", n |-> n, of |-> NoKids, items |-> <<>>]
Dict(fields) == [form |-> "dict", n |-> 0, of |-> fields, items |-> <<>>]
List(of) == [form |-> "list", n |-> 0, of |-> NoKids, items |-> of]
Hex(data) == [data |-> data, odd |-> FALSE]
Numbers == {-129, -128, -9, -8, -1, 0, 1, 2, 4, 7, 8, 15, 16, 127, 128, 255, 256}
Bytes == {Hex(<<>>), Hex(<<1>>), Hex(<<1, 2>>), Hex(<<1, 2, 3>>), [data |-> <<1, 2>>, odd |-> TRUE]}
Leaves ==
  {Bare(n) : n \in Numbers} \cup {Bool(n) : n \in {0, 1}} \cup {Dict(NoKids)}
  \cup {Dict([word |-> n]) : n \in Numbers} \cup {Dict([int |-> n]) : n \in Numbers}
  \cup {Dict([bytes |-> b]) : b \in Bytes}
  \cup {Dict([word |-> n, int |-> 0]) : n \in Numbers} \cup {Dict([word |-> 1, bytes |-> Hex(<<1>>)])}
FewLeaves == {Bare(1), Bare(16), Dict([bytes |-> Hex(<<1, 2, 3>>)]), Dict([bytes |-> Hex(<<>>)])}
Pairs == {List(<<Bare(m), Bare(n)>>) : m, n \in {-1, 0, 3, 4}}
Lists(of) == {List(<<>>)} \cup {List(<<a>>) : a \in of} \cup {List(<<a, b>>) : a, b \in of}
Items == FewLeaves \cup {List(<<Bare(3), Bare(2)>>), List(<<Bare(0), Bare(4)>>)}
Shallow == Lists(Items) \cup {List(<<a, a, a>>) : a \in Items}
FewLists ==
  {List(<<>>)} \cup {List(<<a>>) : a \in FewLeaves} \cup {List(<<Bare(1), a>>) : a \in FewLeaves}
  \cup {List(<<Bool(1), List(<<Bare(3), Bare(2)>>)>>)}
ArgsFor(t) ==
  CASE t \in ScalarTypes -> Leaves \cup Pairs
    [] t \in StructTypes \cup ArrayTypes(LeafTypes) -> Shallow
    [] OTHER -> Lists(FewLists \cup {Bare(1)})
PlainTypes == ScalarTypes \cup ArrayTypes(LeafTypes) \cup StructTypes \cup NestedTypes
MixedCalls ==
  {<<<<t, Of("bytes"), u>>, <<a, Dict([bytes |-> b]), c>>>> :
     t, u \in {Of("bool"), Type("dynamic", 0, <<Of("bytes")>>), Type("fixed", 2, <<Of("bool")>>)},
     a, c \in {Bare(1), List(<<Bare(1), Bare(0)>>), List(<<Dict([bytes |-> Hex(<<1, 2, 3>>)])>>)},
     b \in {Hex(<<>>), Hex(<<1, 2, 3>>)}}
Rows == {"X-INTFNARG", "X-FNARG", "X-ARGVAL"}

(* values of a result, with a bytesN as Lean keeps it *)
RECURSIVE Values(_)
Values(t) ==
  CASE t.kind = "fixed" -> {List(<<a, b>>) : a, b \in Values(t.parts[1])}
    [] t.kind = "dynamic" -> Lists(Values(t.parts[1]))
    [] t.kind = "struct" -> {List(<<a, b>>) : a \in Values(t.parts[1]), b \in Values(t.parts[2])}
    [] t.kind = "bytes" -> {Dict([bytes |-> b]) : b \in {Hex(<<>>), Hex(<<1, 2, 3>>)}}
    [] t.kind = "external" -> {List(<<Bare(3), Bare(2)>>)}
    [] t.kind = "int" -> {Dict([int |-> n]) : n \in {-1, 7}}
    [] t.kind = "bytesN" -> {Bare(n) : n \in {0, 5}}
    [] t.kind = "bool" -> {Bool(1)}
    [] OTHER -> {Bare(1), Bare(15)}
ResultTypes ==
  LET few == {Type("bytesN", 1, <<>>), Type("int", 16, <<>>), Of("bytes"), Of("external")}
  IN few \cup ArrayTypes(few) \cup {Struct(<<a, b>>) : a, b \in few \cup ArrayTypes(few)} \cup NestedTypes
PairedTypes == ArrayTypes({Of("bytes"), Type("bytesN", 1, <<>>)})

(* ScopeGate: a source of one contract whose functions stash, return and emit
   what they compute. *)
FO == INSTANCE Folding WITH MaxShift <- 8, Anything <- {0, 3, 7}
FoldedInt(e) == FO!LiteralInt(e)
SolidityValues(e) == FO!Solidity(e)

Expr(op, value, args) == [op |-> op, value |-> value, unit |-> 1, args |-> args]
Lit(n) == Expr("literal", n, <<>>)
Times(n, unit) == [Lit(n) EXCEPT !.unit = unit]
Receivers ==
  {Lit(n) : n \in {0, 4, 10, 11}} \cup {Expr(op, 0, <<Lit(4)>>) : op \in {"conversion", "call", "negate"}}
  \cup {Expr(op, 0, <<Lit(m), Lit(n)>>) : op \in {"+", "-", "*", "/", "%", "<<", ">>", "call"}, m \in {1, 9}, n \in {0, 2}}
  \cup {Expr("name", 0, <<>>), Expr("+", 0, <<Expr("name", 0, <<>>), Lit(4)>>)}
AstNode(type, name) ==
  [type |-> type, name |-> name, builtin |-> FALSE, base |-> "other", options |-> {}, wrapped |-> FALSE,
   receiver |-> Expr("name", 0, <<>>)]
Builtin(name) == [AstNode("Identifier", name) EXCEPT !.builtin = TRUE]
Options(name) == [AstNode("FunctionCallOptions", "") EXCEPT !.options = {name}]
Access(name, base) == [AstNode("MemberAccess", name) EXCEPT !.base = base]
LowLevel(name, receiver) == [Access(name, "address") EXCEPT !.receiver = receiver]
CallOf(base) == [AstNode("FunctionCall", "") EXCEPT !.base = base]

PlainNodes ==
  {AstNode("Identifier", name) : name \in {"x", "gasleft", "blockhash"}}
  \cup {AstNode("NewExpression", "array"), AstNode("PragmaDirective", ""), LowLevel("staticcall", Lit(4))}
Constructs ==
  {{n} : n \in PlainNodes \cup {Access("transfer", "contract")}}
  \cup {{LowLevel("staticcall", r)} : r \in Receivers}
  \cup {{AstNode(type, "")} : type \in {"InlineAssembly", "TryStatement"}}
  \cup {{CallOf(base)} : base \in {"external function", "contract"}}
  \cup {{[AstNode("BinaryOperation", "") EXCEPT !.base = "fixed"]}, {AstNode("Yul", "msize")},
        {LowLevel("call", Lit(4))}, {[LowLevel("staticcall", Lit(4)) EXCEPT !.wrapped = TRUE]}}
  \cup {{Builtin("gasleft")}, {Access("gasprice", "tx")}, {Builtin("blockhash")}, {Access("codehash", "address")},
        {Options("salt"), AstNode("NewExpression", "contract")}, {Options("gas"), LowLevel("call", Lit(4))},
        {LowLevel("send", Lit(9))}}
Statement(nodes, reads, to) == [nodes |-> nodes, reads |-> reads, to |-> to]
Body(kind, statements) == [kind |-> kind, body |-> statements]
OneContract == {[id |-> 1, kind |-> "contract", abstract |-> FALSE, bases |-> <<1>>]}
SourceOf(functions) == [nodes |-> {}, functions |-> functions, contracts |-> OneContract]
PlacesOf(kind) ==
  CASE kind = "initializer" -> {"storage"}
    [] kind = "function" -> Places
    [] OTHER -> Places \ {"return", "named"}
Flows ==
  {f \in [kind: {"initializer", "constructor", "modifier", "function"}, nodes: Constructs, stash: Places, to: Places] :
     f.stash \in PlacesOf(f.kind)}
GatedSources ==
  {SourceOf(<<Body(f.kind, <<Statement(f.nodes, {}, f.stash)>>), Body("function", <<Statement({}, {"storage"}, f.to)>>)>>)
     : f \in Flows}
  \cup {[SourceOf(<<>>) EXCEPT !.nodes = {AstNode(type, "")}]
          : type \in {"ImportDirective", "StorageLayoutSpecifier", "PragmaDirective"}}
Versions == {V(minor) : minor \in 0 .. 6} \cup {<<1>>, <<1, 4>>, <<1, 5, 9>>, <<1, 10, 0>>}

Contract(id, kind, abstract, bases) == [id |-> id, kind |-> kind, abstract |-> abstract, bases |-> bases]
Hierarchies ==
  {{Contract(1, k, a, <<1>>)} : k \in {"contract", "library", "interface"}, a \in BOOLEAN}
  \cup {{Contract(1, "contract", a, <<1>>), Contract(2, "contract", FALSE, <<2, 1>>)} : a \in BOOLEAN}
  \cup {{Contract(1, "contract", FALSE, <<1>>), Contract(2, "contract", FALSE, <<2>>)}}
  \cup {{Contract(3, "contract", FALSE, <<3>>)}, {}}
FileOf(contracts) == [nodes |-> {}, functions |-> <<>>, contracts |-> contracts]
Files == {<<FileOf(a)>> : a \in Hierarchies} \cup {<<FileOf(a), FileOf(b)>> : a, b \in Hierarchies}

Cheat(name, args) == [name |-> name, args |-> args]
Halves == Expr("/", 0, <<Lit(9), Lit(2)>>)
To(size, e) == Expr("conversion", size, <<e>>)
CheatArgs ==
  {Lit(3), Lit(5), Lit(9), Lit(20), Times(1, 3), Expr("name", 0, <<>>), Expr("call", 0, <<Lit(2)>>),
   Expr("negate", 0, <<Expr("-", 0, <<Lit(2), Lit(5)>>)>>), Expr("+", 0, <<Lit(4), Expr("-", 0, <<Lit(2), Lit(3)>>)>>),
   Expr("*", 0, <<Halves, Lit(2)>>), Expr("*", 0, <<To(16, Halves), Lit(2)>>),
   Expr("/", 0, <<To(16, Lit(9)), To(16, Lit(2))>>), To(8, Lit(5)), To(4, To(8, Lit(5)))}
Cheats ==
  {Cheat(name, <<a>>) : name \in {"roll", "warp", "chainId", "fee", "prevrandao", "prank", "startPrank", "ffi", "label"}, a \in CheatArgs}
  \cup {Cheat("deal", <<a, b>>) : a, b \in {Lit(3), Lit(9), Lit(20), Times(1, 3)}} \cup {Cheat("stopPrank", <<>>)}
Tests == {<<a>> : a \in Cheats} \cup {<<a, b>> : a, b \in Cheats}

Made(sources, tests, versions) == [sources: sources, entry: {1}, test: tests, at: versions]
MCSubmissions ==
  Made({<<s>> : s \in GatedSources}, {<<>>}, Versions)
  \cup Made(Files, {<<>>}, {RegisterVersion})
  \cup Made({<<FileOf({})>>}, Tests, {RegisterVersion})

VARIABLE input
NoInput == [kind |-> "none"]
Init == input = NoInput /\ BatchInit /\ GateInit /\ MeasureInit
Fresh == input = NoInput
Pick(new) == input' = new /\ UNCHANGED <<batchVars, gateVars, measureVars>>
PickPair == Fresh /\ \E a, b \in Programs : Pick([kind |-> "pair", a |-> a, b |-> b])
PickProgram == Fresh /\ \E a \in Programs, m \in Modes : Pick([kind |-> "program", a |-> a, mode |-> m])
ReplayPool ==
  (Fresh \/ input.kind = "pool") /\ BatchNext /\ input' = [kind |-> "pool"] /\ UNCHANGED <<gateVars, measureVars>>
JudgeSubmission ==
  (Fresh \/ input.kind = "gated") /\ GateNext /\ input' = [kind |-> "gated"] /\ UNCHANGED <<batchVars, measureVars>>
MeasureTask ==
  (Fresh \/ input.kind = "measured") /\ MeasureNext /\ input' = [kind |-> "measured"] /\ UNCHANGED <<batchVars, gateVars>>
PickCall ==
  /\ Fresh
  /\ \E row \in Rows :
       \/ \E t \in PlainTypes : \E a \in ArgsFor(t) : Pick([kind |-> "call", types |-> <<t>>, args |-> <<a>>, row |-> row])
       \/ \E call \in MixedCalls : Pick([kind |-> "call", types |-> call[1], args |-> call[2], row |-> row])
PickResult ==
  /\ Fresh
  /\ \/ \E t \in ResultTypes : \E a \in Values(t) : Pick([kind |-> "result", types |-> <<t>>, values |-> <<a>>])
     \/ \E t, u \in PairedTypes : \E a \in Values(t), b \in Values(u) :
          Pick([kind |-> "result", types |-> <<t, u>>, values |-> <<a, b>>])
Next == PickPair \/ PickProgram \/ ReplayPool \/ JudgeSubmission \/ MeasureTask \/ PickCall \/ PickResult
Spec == Init /\ [][Next]_<<input, batchVars, gateVars, measureVars>>

-----------------------------------------------------------------------------
(* "distinct divergences get distinct fingerprints" (contest/fingerprint.py:57),
   for programs whose literals have no unit and whose references are to what the
   hash has visited: equal keys are of one program, up to the names and the
   order of its members. *)
KeysTellProgramsApart ==
  (/\ input.kind = "pair" /\ Keys[input.a]["full"] = Keys[input.b]["full"]
   /\ \A p \in {input.a, input.b} : FP!ResolvedInOrder(p) /\ FP!FullySpelled(p))
     => FP!SameProgram(input.a, input.b)

(* "the submission IS a published repro up to renaming/reordering"
   (contest/adjudicate.py:249): new names leave the key of a program that names
   no member and no argument of its own as it is, and so does, unless two members
   of a file hash alike, another order of members and files. *)
KeysIgnoreNamesAndOrder ==
  input.kind = "program" =>
    /\ FP!NamesOnlyRefer(input.a) => FP!Key(WithNewNames(input.a), "full") = Keys[input.a]["full"]
    /\ FP!Untied(input.a) => FP!Key(Shuffled(input.a), input.mode) = Keys[input.a][input.mode]
KeysIdentifyPrograms == KeysTellProgramsApart /\ KeysIgnoreNamesAndOrder


(* "the model receives the SAME logical call the EVM decodes from calldata"
   (contest/observable.py:374): arguments that pass the checks, each in one form,
   are encoded, rendered, and the same values of their types on both sides. *)
Passes == input.kind = "call" /\ AC!CheckArgs(input.args, input.types, input.row) = "legal"
OneForm == \A i \in DOMAIN input.args : AC!Unambiguous(input.args[i])
ArgsReachBothAlike == Passes /\ OneForm => AC!SameCall(input.args, input.types)

(* "Raises ValueError on malformed data" (contest/observable.py:656): a part of a
   result is refused, or it lacks no more than padding. *)
TruncatedIsNotDecoded ==
  (Passes /\ OneForm /\ input.row = "X-INTFNARG") =>
    LET sent == AC!EncodeArgs(input.args, input.types)[1]
    IN \A n \in 0 .. Len(sent) - 1 :
         AC!DecodeTuple(SubSeq(sent, 1, n), input.types) \in {<<>>, AC!DecodeTuple(sent, input.types)}

(* "both sides render the same" (contest/observable.py:492): a result that both
   engines compute alike, of types the fence lets through, is decoded to what
   Lean renders, a bytesN included. *)
ResultsDecodeToLean ==
  (input.kind = "result" /\ \A i \in DOMAIN input.types : AC!ComparableChannelType(input.types[i], TRUE)) =>
    LET evm == [i \in DOMAIN input.values |-> AC!Aligned(input.values[i], input.types[i])]
    IN AC!DecodeTuple(AC!EncodeArgs(evm, input.types)[1], input.types)
         = AC!RenderLeanArgs(input.values, input.types)
ResultsAreDecodedRight == TruncatedIsNotDecoded /\ ResultsDecodeToLean

-----------------------------------------------------------------------------
(* "A receiver that does not fold to a literal (computed/laundered) stays OOS"
   (contest/reject_gate.py:306-307). *)
OnlyLiteralReceiversPass ==
  (outcome = "PASS" /\ submission.at = RegisterVersion)
    => \A n \in AllNodes(submission.sources[submission.entry]) : n.name = "staticcall" => FO!Constant(n.receiver)

(* "An out-of-domain arg is therefore not a legal call [...], so it is rejected
   as malformed" (contest/adjudicate.py:1230-1232), whatever its forms. *)
OutOfDomainIsRejected == Passes => AC!SameCall(input.args, input.types)

(* "renaming every variable/function/contract yields the SAME fingerprint"
   (contest/fingerprint.py:39-40). *)
RenamingKeepsTheKey ==
  input.kind = "program" => FP!Key(WithNewNames(input.a), "full") = Keys[input.a]["full"]

(* The same sentence (contest/fingerprint.py:57), of every program. *)
CollisionsNeedSha256 ==
  (input.kind = "pair" /\ Keys[input.a]["full"] = Keys[input.b]["full"])
    => FP!SameProgram(input.a, input.b)
=============================================================================
