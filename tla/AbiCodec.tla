------------------------------ MODULE AbiCodec ------------------------------
(***************************************************************************)
(* How a claim's arguments reach the two engines and how a result comes    *)
(* back: the checks of contest/adjudicate.py on the arguments, the         *)
(* encoder of contest/measure.py for the EVM, the renderer of              *)
(* contest/observable.py for Lean, and its decoder of the measured bytes.  *)
(*                                                                         *)
(* A word has WordBytes bytes of ByteMod values, instead of 32 of 256.  A  *)
(* type is [kind, n, parts]: n is the number of values of a "uint", "int"  *)
(* or "enum" (0: unresolved), the bytes of a "bytesN", the length of a     *)
(* "fixed" array; parts are the element's or the members' types.  An       *)
(* argument is the JSON value [form, n, of, items]: an "int", a "bool", a  *)
(* "dict" with some of the keys word, int and bytes in `of`, or a "list".  *)
(* A computation that may raise returns <<>> for that, and <<v>> for v.    *)
(***************************************************************************)
EXTENDS Integers, Sequences, SequencesExt, Functions

CONSTANTS
  ByteMod, WordBytes,
  AddressMod,     \* 2^160
  SelectorMod,    \* 2^32
  MaxLength,      \* _MAX_ARRAY_ARG_LEN
  MaxNesting      \* _MAX_ARG_NESTING

WordMod == ByteMod ^ WordBytes
SelectorShift == WordMod \div (AddressMod * SelectorMod)   \* the word's low 64 bits

Raises == <<>>
Returns(v) == <<v>>
(* a loop that raises as soon as one of its steps does *)
AllOf(results) ==
  IF \E i \in DOMAIN results : results[i] = Raises THEN Raises
  ELSE Returns([i \in DOMAIN results |-> results[i][1]])

Scalar(t) == t.kind \notin {"dynamic", "fixed", "struct"}
ElementTypes(t, n) == IF t.kind = "struct" THEN t.parts ELSE [i \in 1 .. n |-> t.parts[1]]

RECURSIVE IsDynamicType(_)
IsDynamicType(t) ==
  \/ t.kind \in {"bytes", "dynamic"}
  \/ t.kind \in {"fixed", "struct"} /\ \E i \in DOMAIN t.parts : IsDynamicType(t.parts[i])

SumOf(numbers) == FoldLeft(LAMBDA a, b : a + b, 0, numbers)

OneWord(t) == WordBytes
RECURSIVE HeadSize(_)
HeadSize(t) ==
  IF IsDynamicType(t) \/ Scalar(t) THEN WordBytes
  ELSE IF t.kind = "fixed" THEN t.n * HeadSize(t.parts[1])
  ELSE SumOf([i \in DOMAIN t.parts |-> HeadSize(t.parts[i])])

-----------------------------------------------------------------------------
(* The encoder of the calldata.                                            *)

Word(n) == [i \in 1 .. WordBytes |-> ((n % WordMod) \div ByteMod ^ (WordBytes - i)) % ByteMod]
Has(arg, key) == arg.form = "dict" /\ key \in DOMAIN arg.of
Padding(data) == [i \in 1 .. (WordBytes - (Len(data) % WordBytes)) % WordBytes |-> 0]

(* An encoding is [dyn, data]. A hex string of odd length has no bytes. *)
EncodeArg(arg) ==
  CASE arg.form \in {"int", "bool"} -> Returns([dyn |-> FALSE, data |-> Word(arg.n)])
    [] Has(arg, "word") -> Returns([dyn |-> FALSE, data |-> Word(arg.of.word)])
    [] Has(arg, "int") -> Returns([dyn |-> FALSE, data |-> Word(arg.of.int)])
    [] Has(arg, "bytes") ->
         IF arg.of.bytes.odd THEN Raises
         ELSE LET data == arg.of.bytes.data
              IN Returns([dyn |-> TRUE, data |-> Word(Len(data)) \o data \o Padding(data)])
    [] OTHER -> Raises

ComponentWord(arg) ==
  CASE arg.form = "int" -> Returns(arg.n)
    [] Has(arg, "word") -> Returns(arg.of.word)
    [] OTHER -> Raises

ExternalWord(address, selector) ==
  ((address % AddressMod) * SelectorMod + (selector % SelectorMod)) * SelectorShift

FitsShape(arg, t) ==
  /\ arg.form = "list"
  /\ t.kind = "fixed" => Len(arg.items) = t.n
  /\ t.kind = "struct" => Len(arg.items) = Len(t.parts)

HeadAndTail(encoded) ==
  LET headSize == SumOf([i \in DOMAIN encoded |-> IF encoded[i].dyn THEN WordBytes ELSE Len(encoded[i].data)])
      Add(regions, e) ==
        IF e.dyn THEN [head |-> regions.head \o Word(headSize + Len(regions.tail)), tail |-> regions.tail \o e.data]
                 ELSE [regions EXCEPT !.head = @ \o e.data]
      regions == FoldLeft(Add, [head |-> <<>>, tail |-> <<>>], encoded)
  IN regions.head \o regions.tail

RECURSIVE EncodeTyped(_, _)
EncodeTuple(args, types) ==
  LET encoded == AllOf([i \in DOMAIN args |-> EncodeTyped(args[i], types[i])])
  IN IF encoded = Raises THEN Raises ELSE Returns(HeadAndTail(encoded[1]))
EncodeTyped(arg, t) ==
  CASE t.kind \in {"dynamic", "fixed", "struct"} ->
         IF ~FitsShape(arg, t) THEN Raises
         ELSE LET body == EncodeTuple(arg.items, ElementTypes(t, Len(arg.items)))
                  length == IF t.kind = "dynamic" THEN Word(Len(arg.items)) ELSE <<>>
              IN IF body = Raises THEN Raises
                 ELSE Returns([dyn |-> IsDynamicType(t), data |-> length \o body[1]])
    [] t.kind = "external" ->
         IF arg.form # "list" \/ Len(arg.items) # 2 THEN Raises
         ELSE LET pair == AllOf([i \in 1 .. 2 |-> ComponentWord(arg.items[i])])
              IN IF pair = Raises THEN Raises
                 ELSE Returns([dyn |-> FALSE, data |-> Word(ExternalWord(pair[1][1], pair[1][2]))])
    [] t.kind \in {"internal", "unresolved"} \/ arg.form = "list" -> Raises
    [] OTHER -> EncodeArg(arg)

EncodeArgs(args, types) == IF Len(args) # Len(types) THEN Raises ELSE EncodeTuple(args, types)

-----------------------------------------------------------------------------
(* The renderer of the Lean value. A value is <<"n", number>>, <<"b", bytes>>,
   <<"f", address, selector>>, <<"[", values>> or <<"(", values>>; a negative
   Value.word does not elaborate. *)

Signed(word) == IF word >= WordMod \div 2 THEN word - WordMod ELSE word
WordValue(n) == IF n < 0 THEN Raises ELSE Returns(<<"n", n>>)

RECURSIVE RenderLeanArg(_, _)
RenderLeanArg(arg, t) ==
  CASE t.kind \in {"dynamic", "fixed", "struct"} ->
         IF ~FitsShape(arg, t) THEN Raises
         ELSE LET parts == ElementTypes(t, Len(arg.items))
                  inner == AllOf([i \in DOMAIN arg.items |-> RenderLeanArg(arg.items[i], parts[i])])
              IN IF inner = Raises THEN Raises
                 ELSE Returns(<<IF t.kind = "struct" THEN "(" ELSE "[", inner[1]>>)
    [] t.kind = "external" ->
         IF arg.form # "list" \/ Len(arg.items) # 2 THEN Raises
         ELSE LET pair == AllOf([i \in 1 .. 2 |-> ComponentWord(arg.items[i])])
              IN IF pair = Raises THEN Raises ELSE Returns(<<"f", pair[1][1], pair[1][2]>>)
    [] t.kind \in {"internal", "unresolved"} \/ arg.form = "list" -> Raises
    [] arg.form \in {"int", "bool"} -> WordValue(arg.n)
    [] Has(arg, "word") -> WordValue(arg.of.word)
    [] Has(arg, "int") -> Returns(<<"n", Signed(arg.of.int % WordMod)>>)
    [] Has(arg, "bytes") -> Returns(<<"b", arg.of.bytes.data>>)
    [] OTHER -> Raises

RenderLeanArgs(args, types) == AllOf([i \in DOMAIN args |-> RenderLeanArg(args[i], types[i])])

-----------------------------------------------------------------------------
(* The decoder of the measured bytes.                                      *)

(* region[from:to] and region[from:], which are shorter at the end *)
Slice(region, from, to) == SubSeq(region, from + 1, IF to > Len(region) THEN Len(region) ELSE to)
Rest(region, from) == Slice(region, from, Len(region))
Number(bytes) == FoldLeft(LAMBDA a, b : a * ByteMod + b, 0, bytes)

LeftAligned(word, t) ==
  CASE t.kind = "external" ->
         <<"f", word \div (SelectorMod * SelectorShift), (word \div SelectorShift) % SelectorMod>>
    [] t.kind = "int" -> <<"n", Signed(word)>>
    [] OTHER -> <<"n", word>>
RenderWordForType(word, t) ==
  CASE t.kind = "external" ->
         <<"f", word \div (SelectorMod * SelectorShift), (word \div SelectorShift) % SelectorMod>>
    [] t.kind = "bytesN" -> <<"n", word \div ByteMod ^ (WordBytes - t.n)>>
    [] t.kind = "int" -> <<"n", Signed(word)>>
    [] OTHER -> <<"n", word>>

OffsetsFit(region, to, t) == to <= Len(region) \/ IsDynamicType(t)
HeadFits(region, to, t) == to <= Len(region)

HeadBefore(types, i) == SumOf([j \in 1 .. i - 1 |-> HeadSize(types[j])])

RECURSIVE DecodeValue(_, _)
DecodePart(region, from, t) ==
  LET to == from + HeadSize(t)
      head == Slice(region, from, to)
      dynamic == IsDynamicType(t)
  IN IF ~HeadFits(region, to, t) \/ (dynamic /\ Number(head) > Len(region)) THEN Raises
     ELSE DecodeValue(IF dynamic THEN Rest(region, Number(head)) ELSE head, t)
DecodeTuple(region, types) ==
  AllOf([i \in DOMAIN types |-> DecodePart(region, HeadBefore(types, i), types[i])])
DecodeElements(region, t, n) ==
  IF t.kind # "struct" /\ n * WordBytes > Len(region) THEN Raises
  ELSE LET values == DecodeTuple(region, ElementTypes(t, n))
       IN IF values = Raises THEN Raises
          ELSE Returns(<<IF t.kind = "struct" THEN "(" ELSE "[", values[1]>>)
DecodeScalar(buf, t) ==
  LET first == Number(Slice(buf, 0, WordBytes))
      rest == Rest(buf, WordBytes)
  IN CASE t.kind # "bytes" -> Returns(RenderWordForType(first, t))
       [] Len(rest) < first -> Raises
       [] OTHER -> Returns(<<"b", Slice(rest, 0, first)>>)
DecodeValue(buf, t) ==
  CASE t.kind \in {"fixed", "struct"} -> DecodeElements(buf, t, t.n)
    [] t.kind = "unresolved" \/ Len(buf) < WordBytes -> Raises
    [] t.kind = "dynamic" -> DecodeElements(Rest(buf, WordBytes), t, Number(Slice(buf, 0, WordBytes)))
    [] OTHER -> DecodeScalar(buf, t)

-----------------------------------------------------------------------------
(* The checks on the arguments.                                            *)

RECURSIVE ShapeOk(_, _)
ShapeOk(arg, depth) ==
  /\ depth <= MaxNesting
  /\ IF arg.form = "list"
     THEN /\ Len(arg.items) <= MaxLength
          /\ \A i \in DOMAIN arg.items : ShapeOk(arg.items[i], depth + 1)
     ELSE arg.form \in {"int", "bool"} \/ (arg.form = "dict" /\ DOMAIN arg.of # {})
SafeRenderArgs(args) == \A i \in DOMAIN args : ShapeOk(args[i], 0)

RepresentableParamType(t) == t.kind \notin {"dynamic", "fixed", "struct", "unresolved", "external", "internal"}

RECURSIVE EncodableParamType(_, _)
EncodableParamType(t, externalOk) ==
  CASE t.kind = "external" -> externalOk
    [] t.kind \in {"internal", "unresolved"} -> FALSE
    [] OTHER -> \A i \in DOMAIN t.parts : EncodableParamType(t.parts[i], externalOk)
(* the fence of a return or revert channel is the same walk *)
ComparableChannelType(t, externalOk) == EncodableParamType(t, externalOk)

(* <<w>>, or <<>> for None *)
ArgAsWord(arg) ==
  LET w == CASE arg.form \in {"int", "bool"} -> arg.n [] Has(arg, "word") -> arg.of.word [] OTHER -> -1
  IN IF w >= 0 THEN <<w>> ELSE <<>>
ArgAsSigned(arg) ==
  CASE arg.form = "int" -> <<arg.n>>
    [] Has(arg, "int") -> <<arg.of.int>>
    [] Has(arg, "word") -> ArgAsWord(arg)
    [] OTHER -> <<>>

Within(value, range) == value # <<>> /\ value[1] \in range
WordRange(t) ==
  CASE t.kind = "bool" -> {0, 1}
    [] t.kind \in {"uint", "enum"} -> 0 .. t.n - 1
    [] t.kind = "address" -> 0 .. AddressMod - 1
    [] t.kind = "bytes32" -> 0 .. WordMod - 1
SignedRange(t) == -(t.n \div 2) .. t.n \div 2 - 1

Legal == "legal"
Malformed == "malformed"
OutOfScope == "__OOS__"
Verdict(ok) == IF ok THEN Legal ELSE Malformed
(* the first element that is not legal decides *)
FirstError(verdicts) ==
  LET bad == {i \in DOMAIN verdicts : verdicts[i] # Legal}
  IN IF bad = {} THEN Legal ELSE verdicts[CHOOSE i \in bad : \A j \in bad : i <= j]

RECURSIVE ArgDomainError(_, _, _)
ArgDomainError(arg, t, externalOk) ==
  CASE arg.form = "int" /\ arg.n < 0 -> Malformed
    [] t.kind \in {"dynamic", "fixed", "struct"} ->
         IF ~FitsShape(arg, t) \/ (t.kind = "dynamic" /\ Len(arg.items) > MaxLength) THEN Malformed
         ELSE LET parts == ElementTypes(t, Len(arg.items))
              IN FirstError([i \in DOMAIN arg.items |-> ArgDomainError(arg.items[i], parts[i], externalOk)])
    [] t.kind \in {"external", "internal"} ->
         IF t.kind = "internal" \/ ~externalOk THEN OutOfScope
         ELSE Verdict(/\ arg.form = "list" /\ Len(arg.items) = 2
                      /\ Within(ArgAsWord(arg.items[1]), 0 .. AddressMod - 1)
                      /\ Within(ArgAsWord(arg.items[2]), 0 .. SelectorMod - 1))
    [] t.kind = "unresolved" -> OutOfScope
    [] arg.form = "list" -> Malformed
    [] t.kind = "bytes" -> Verdict(Has(arg, "bytes"))
    [] t.kind \in {"bool", "uint", "address", "bytes32"} -> Verdict(Within(ArgAsWord(arg), WordRange(t)))
    [] t.kind = "int" -> Verdict(Within(ArgAsSigned(arg), SignedRange(t)))
    [] t.kind = "enum" /\ t.n # 0 -> Verdict(Within(ArgAsWord(arg), WordRange(t)))
    [] OTHER -> OutOfScope

(* The steps of adjudicate before anything runs; row is the register's row that
   is active at the submission's version. *)
CheckArgs(args, types, row) ==
  LET externalOk == row = "X-INTFNARG"
      Fits(t) == IF row = "X-ARGVAL" THEN RepresentableParamType(t) ELSE EncodableParamType(t, externalOk)
  IN CASE ~SafeRenderArgs(args) \/ Len(args) # Len(types) -> Malformed
       [] \E i \in DOMAIN types : ~Fits(types[i]) -> OutOfScope
       [] OTHER -> FirstError([i \in DOMAIN args |-> ArgDomainError(args[i], types[i], externalOk)])

-----------------------------------------------------------------------------
(* What the properties say.                                                *)

(* no number outside its type: the EVM's decoder of calldata does not revert *)
RECURSIVE Clean(_, _)
Clean(value, t) ==
  CASE t.kind \in {"dynamic", "fixed", "struct"} ->
         LET parts == ElementTypes(t, Len(value[2]))
         IN \A i \in DOMAIN value[2] : Clean(value[2][i], parts[i])
    [] t.kind = "int" -> value[2] \in SignedRange(t)
    [] t.kind \in {"bytes", "external"} -> TRUE
    [] OTHER -> value[2] \in WordRange(t)

SameCall(args, types) ==
  LET sent == EncodeArgs(args, types)
      rendered == RenderLeanArgs(args, types)
  IN /\ sent # Raises /\ rendered # Raises
     /\ DecodeTuple(sent[1], types) = rendered
     /\ \A i \in DOMAIN types : Clean(rendered[1][i], types[i])

(* An argument in one form, with whole bytes. *)
RECURSIVE Unambiguous(_)
Unambiguous(arg) ==
  CASE arg.form = "list" -> \A i \in DOMAIN arg.items : Unambiguous(arg.items[i])
    [] arg.form = "dict" ->
         /\ \A a, b \in DOMAIN arg.of : a = b
         /\ Has(arg, "bytes") => ~arg.of.bytes.odd
    [] OTHER -> TRUE

(* what solc's encoder does with a bytesN that Lean keeps at the word's low end *)
RECURSIVE Aligned(_, _)
Aligned(arg, t) ==
  CASE arg.form = "list" /\ ~Scalar(t) ->
         [arg EXCEPT !.items = [i \in DOMAIN @ |-> Aligned(@[i], ElementTypes(t, Len(@))[i])]]
    [] t.kind = "bytesN" -> [arg EXCEPT !.n = @ * ByteMod ^ (WordBytes - t.n)]
    [] OTHER -> arg
=============================================================================
