------------------------ MODULE SelfDispatch_proofs ------------------------
(***************************************************************************)
(* How deep self-calls nest, for every budget, and that handing a caller   *)
(* its State back is the EVM's undoing of writes: proofs about             *)
(* SelfDispatch.  The first two properties speak of the stack of frames    *)
(* alone, so their proof says what a step may do to the stack (StackMoves) *)
(* and then that each such move keeps the invariant.  The last ones need   *)
(* of every running frame that the State it was entered in is what the     *)
(* journal says up to the frame's mark.                                    *)
(***************************************************************************)
EXTENDS SelfDispatch, SequenceTheorems, Recursion

IsSequence(s) == \E S : s \in Seq(S)

Shape == IsSequence(stack) /\ NestingBounded /\ NoCallIntoConstruction

EntryFrame(frame) == frame.depth = Fuel
(* The frame of a self-call has one less than its caller's budget. *)
InnerFrame(frame) ==
  HookResolves(Top) /\ frame.depth = Top.depth - 1 /\ ~frame.creation

(* A step leaves the stack alone, ends the innermost frame, drops the run, or
   starts the entry's frame or that of a self-call. *)
LEMMA StackMoves ==
  ASSUME Next
  PROVE  \/ stack' = stack
         \/ stack' = << >>
         \/ stack # << >> /\ stack' = Front(stack)
         \/ \E frame : EntryFrame(frame) /\ stack' = <<frame>>
         \/ \E frame : stack # << >> /\ InnerFrame(frame)
                       /\ stack' = Append(stack, frame)
<1>1. ASSUME NEW creation, NEW clears, NEW value, Enter(creation, clears, value)
      PROVE  \E frame : EntryFrame(frame) /\ stack' = <<frame>>
  BY <1>1 DEF Enter, EntryFrame
<1>2. ASSUME NEW value, SelfCall(value)
      PROVE  \E frame : stack # << >> /\ InnerFrame(frame)
                        /\ stack' = Append(stack, frame)
  BY <1>2 DEF SelfCall, InnerFrame, Running
<1>3. CASE Store \/ SelfCallRefused \/ \E success \in BOOLEAN : Precompile(success)
  BY <1>3 DEF Store, SelfCallRefused, Precompile
<1>4. CASE Return \/ Revert \/ Selfdestruct
  BY <1>4 DEF Return, Revert, Selfdestruct, Fail, Pop, Running
<1>5. ASSUME NEW how, Escape(how)
      PROVE  stack' = << >> \/ (stack # << >> /\ stack' = Front(stack))
  BY <1>5 DEF Escape, Fail, Pop, Running
<1> QED
  BY <1>1, <1>2, <1>3, <1>4, <1>5 DEF Next

(* What is left of a sequence without its last element. *)
LEMMA FrontOf ==
  ASSUME NEW S, NEW s \in Seq(S), s # << >>
  PROVE  /\ Front(s) \in Seq(S) /\ Len(Front(s)) = Len(s) - 1
         /\ \A i \in 1 .. Len(s) - 1 : Front(s)[i] = s[i]
<1>1. PICK n \in Nat : n = Len(s) - 1 /\ Len(s) = n + 1
  OBVIOUS
<1>2. Front(s) = SubSeq(s, 1, n)
  BY <1>1 DEF Front
<1>3. \A i \in 1 .. n : s[i] \in S
  BY <1>1
<1>4. /\ SubSeq(s, 1, n) \in Seq(S)
      /\ Len(SubSeq(s, 1, n)) = IF 1 <= n THEN n - 1 + 1 ELSE 0
      /\ \A i \in 1 .. n - 1 + 1 : SubSeq(s, 1, n)[i] = s[1 + i - 1]
  BY <1>3, SubSeqProperties
<1>5. Len(Front(s)) = n
  BY <1>2, <1>4
<1>6. ASSUME NEW i \in 1 .. n PROVE Front(s)[i] = s[i]
  <2>1. i \in 1 .. n - 1 + 1 /\ 1 + i - 1 = i
    OBVIOUS
  <2> QED
    BY <1>2, <1>4, <2>1
<1> QED
  BY <1>1, <1>2, <1>4, <1>5, <1>6

LEMMA ShapeStep == Shape /\ [Next]_vars => Shape'
<1> SUFFICES ASSUME Shape, [Next]_vars PROVE Shape'
  OBVIOUS
<1>0. PICK S : stack \in Seq(S)
  BY DEF Shape, IsSequence
<1>1. CASE stack' = stack
  BY <1>1 DEF Shape, IsSequence, NestingBounded, NoCallIntoConstruction
<1>2. CASE stack' = << >>
  <2>1. IsSequence(stack') /\ Len(stack') = 0 /\ DOMAIN stack' = {}
    BY <1>2 DEF IsSequence
  <2> QED
    BY <2>1, SelfDispatchAssumption DEF Shape, NestingBounded, NoCallIntoConstruction
<1>3. CASE stack # << >> /\ stack' = Front(stack)
  <2>1. /\ stack' \in Seq(S) /\ Len(stack') = Len(stack) - 1
        /\ \A i \in 1 .. Len(stack) - 1 : stack'[i] = stack[i]
    BY <1>0, <1>3, FrontOf
  <2>2. IsSequence(stack')
    BY <2>1 DEF IsSequence
  <2>3. DOMAIN stack' = 1 .. Len(stack) - 1 /\ DOMAIN stack = 1 .. Len(stack)
        /\ Len(stack) \in Nat /\ Len(stack) > 0
    BY <1>0, <1>3, <2>1
  <2>4. DOMAIN stack' = 1 .. Len(stack) - 1
    BY <2>1, <2>3
  <2>5. \A i \in DOMAIN stack' : i \in DOMAIN stack /\ stack'[i] = stack[i]
    BY <2>1, <2>3, <2>4
  <2>6. NestingBounded'
    BY <2>1, <2>3, <2>5, SelfDispatchAssumption DEF Shape, NestingBounded
  <2>7. NoCallIntoConstruction'
    BY <2>1, <2>3, <2>4, <2>5 DEF Shape, NoCallIntoConstruction
  <2> QED
    BY <2>2, <2>6, <2>7 DEF Shape
<1>4. ASSUME NEW frame, EntryFrame(frame), stack' = <<frame>>
      PROVE  Shape'
  <2>1. /\ Len(stack') = 1 /\ DOMAIN stack' = 1 .. 1 /\ stack'[1] = frame
        /\ stack' \in Seq({frame})
    BY <1>4
  <2>2. IsSequence(stack')
    BY <2>1 DEF IsSequence
  <2>3. \A i \in DOMAIN stack' : i = 1 /\ stack'[i] = frame
    BY <2>1
  <2>4. NestingBounded'
    BY <1>4, <2>1, <2>3, SelfDispatchAssumption DEF EntryFrame, NestingBounded
  <2>5. NoCallIntoConstruction'
    BY <2>1, <2>3 DEF NoCallIntoConstruction
  <2> QED
    BY <2>2, <2>4, <2>5 DEF Shape
<1>5. ASSUME NEW frame, stack # << >>, InnerFrame(frame),
             stack' = Append(stack, frame)
      PROVE  Shape'
  <2> DEFINE n == Len(stack)
  <2>1. /\ stack' \in Seq(S \cup {frame}) /\ Len(stack') = n + 1
        /\ DOMAIN stack' = 1 .. n + 1 /\ DOMAIN stack = 1 .. n
        /\ n \in Nat /\ n > 0 /\ stack'[n + 1] = frame
        /\ \A i \in 1 .. n : stack'[i] = stack[i]
    <3>1. stack \in Seq(S \cup {frame})
      BY <1>0
    <3> QED
      BY <1>5, <3>1
  <2>2. Top = stack[n]
    BY DEF Top, Last
  <2>3. Top.depth = Fuel + 1 - n /\ Top.depth > 0 /\ ~Top.creation
    BY <1>5, <2>1, <2>2 DEF Shape, NestingBounded, InnerFrame, HookResolves
  <2>4. NestingBounded'
    BY <1>5, <2>1, <2>3, SelfDispatchAssumption DEF Shape, NestingBounded, InnerFrame
  <2>5. NoCallIntoConstruction'
    BY <1>5, <2>1, <2>2, <2>3 DEF Shape, NoCallIntoConstruction, InnerFrame
  <2> QED
    BY <2>1, <2>4, <2>5 DEF Shape, IsSequence
<1> QED
  BY <1>1, <1>2, <1>3, <1>4, <1>5, StackMoves DEF vars

LEMMA ShapeInvariant == Spec => []Shape
<1>1. Init => Shape
  BY SelfDispatchAssumption
    DEF Init, Shape, IsSequence, NestingBounded, NoCallIntoConstruction
<1> QED
  BY <1>1, ShapeStep, PTL DEF Spec

(* Self-calls nest at most one deeper than the entry's budget, and every hook
   has one less than its caller's (selfDispatchHook). *)
THEOREM SelfCallsTerminate == Spec => []NestingBounded
<1>1. Shape => NestingBounded
  BY DEF Shape
<1> QED
  BY <1>1, ShapeInvariant, PTL

(* A contract under construction is never called (the hook of a constructor
   resolves to none). *)
THEOREM ConstructorsRunAlone == Spec => []NoCallIntoConstruction
<1>1. Shape => NoCallIntoConstruction
  BY DEF Shape
<1> QED
  BY <1>1, ShapeInvariant, PTL

-----------------------------------------------------------------------------
(* What a sequence of writes makes of some fields. *)

LEMMA ZeroFacts == Zero \in Memory /\ Empty \in Fields
BY SelfDispatchAssumption DEF Zero, Memory, Empty, Fields

LEMMA ApplyFacts ==
  ASSUME NEW f \in Fields, NEW w \in Writes
  PROVE  Apply(f, w) \in Fields
<1>1. f.sto \in Memory /\ f.tr \in Memory /\ f.sds \in Nat /\ f.ext \in Seq(BOOLEAN)
  BY DEF Fields
<1>2. CASE w \in [op: {"sto", "tr"}, at: Slots, val: Values]
  <2>1. w.op \in {"sto", "tr"} /\ w.at \in Slots /\ w.val \in Values
    BY <1>2
  <2>2. [f.sto EXCEPT ![w.at] = w.val] \in Memory /\ [f.tr EXCEPT ![w.at] = w.val] \in Memory
    BY <1>1, <2>1 DEF Memory
  <2>3. CASE w.op = "sto"
    <3>1. Apply(f, w) = [f EXCEPT !.sto = [f.sto EXCEPT ![w.at] = w.val]]
      BY <2>3 DEF Apply
    <3> QED
      BY <2>2, <3>1 DEF Fields
  <2>4. CASE w.op = "tr"
    <3>1. Apply(f, w) = [f EXCEPT !.tr = [f.tr EXCEPT ![w.at] = w.val]]
      BY <2>4 DEF Apply
    <3> QED
      BY <2>2, <3>1 DEF Fields
  <2> QED
    BY <2>1, <2>3, <2>4
<1>3. CASE w \in [op: {"clear", "sds"}]
  <2>1. w.op \in {"clear", "sds"}
    BY <1>3
  <2>2. CASE w.op = "clear"
    <3>1. Apply(f, w) = [f EXCEPT !.tr = Zero]
      BY <2>2 DEF Apply
    <3> QED
      BY <3>1, ZeroFacts DEF Fields
  <2>3. CASE w.op = "sds"
    <3>1. Apply(f, w) = [f EXCEPT !.sds = f.sds + 1]
      BY <2>3 DEF Apply
    <3> QED
      BY <1>1, <3>1 DEF Fields
  <2> QED
    BY <2>1, <2>2, <2>3
<1>4. CASE w \in [op: {"ext"}, val: BOOLEAN]
  <2>1. w.op = "ext" /\ w.val \in BOOLEAN
    BY <1>4
  <2>2. Apply(f, w) = [f EXCEPT !.ext = Append(f.ext, w.val)]
    BY <2>1 DEF Apply
  <2>3. Append(f.ext, w.val) \in Seq(BOOLEAN)
    BY <1>1, <2>1, AppendProperties
  <2> DEFINE e == Append(f.ext, w.val)
  <2> HIDE DEF e
  <2>4. Apply(f, w) = [f EXCEPT !.ext = e] /\ e \in Seq(BOOLEAN)
    BY <2>2, <2>3 DEF e
  <2> QED
    BY <2>4 DEF Fields
<1> QED
  BY <1>2, <1>3, <1>4 DEF Writes

(* The recursive definition of After has a solution: a run of the writes. *)
IsRun(g, f, ws) ==
  g[0] = f /\ \A i \in 0 .. Len(ws) - 1 : g[i + 1] = Apply(g[i], ws[i + 1])
Applier(ws) ==
  [i \in Nat |-> [f \in Fields |-> IF i \in 1 .. Len(ws) THEN Apply(f, ws[i]) ELSE f]]

LEMMA ApplierFacts ==
  ASSUME NEW ws \in Seq(Writes), NEW f \in Fields
  PROVE  /\ Applier(ws) \in [Nat -> [Fields -> Fields]]
         /\ \A g \in [0 .. Len(ws) -> Fields] :
              IsRun(g, f, ws) <=> Obeys(g, Len(ws), f, Applier(ws))
<1>1. Len(ws) \in Nat /\ \A i \in 1 .. Len(ws) : ws[i] \in Writes
  OBVIOUS
<1>2. Applier(ws) \in [Nat -> [Fields -> Fields]]
  BY <1>1, ApplyFacts DEF Applier
<1>3. ASSUME NEW g \in [0 .. Len(ws) -> Fields], NEW i \in 0 .. Len(ws) - 1
      PROVE  Applier(ws)[i + 1][g[i]] = Apply(g[i], ws[i + 1])
  <2>1. i + 1 \in 1 .. Len(ws) /\ i + 1 \in Nat /\ i \in 0 .. Len(ws)
    BY <1>1
  <2>2. g[i] \in Fields
    BY <2>1
  <2> QED
    BY <2>1, <2>2 DEF Applier
<1> QED
  BY <1>2, <1>3 DEF IsRun, Obeys

LEMMA AfterIsRun ==
  ASSUME NEW ws \in Seq(Writes), NEW f \in Fields
  PROVE  \E g \in [0 .. Len(ws) -> Fields] : IsRun(g, f, ws) /\ After(f, ws) = g[Len(ws)]
<1> DEFINE n == Len(ws)
<1>1. n \in Nat /\ \A i \in 1 .. n : ws[i] \in Writes
  OBVIOUS
<1>2. PICK h \in [0 .. n -> Fields] : Obeys(h, n, f, Applier(ws))
  BY <1>1, ApplierFacts, Recursion
<1>3. IsRun(h, f, ws)
  BY <1>2, ApplierFacts
<1> DEFINE Solves(s) ==
      s = [i \in 0 .. Len(ws) |-> IF i = 0 THEN f ELSE Apply(s[i - 1], ws[i])]
<1>4. Solves(h)
  <2>1. \A i \in 0 .. n : h[i] = IF i = 0 THEN f ELSE Apply(h[i - 1], ws[i])
    <3> TAKE i \in 0 .. n
    <3>1. CASE i = 0
      BY <1>3, <3>1 DEF IsRun
    <3>2. CASE i # 0
      <4>1. i - 1 \in 0 .. n - 1 /\ (i - 1) + 1 = i
        BY <1>1, <3>2
      <4> QED
        BY <1>3, <3>2, <4>1 DEF IsRun
    <3> QED
      BY <3>1, <3>2
  <2> QED
    BY <2>1
<1> DEFINE g == CHOOSE s : Solves(s)
<1>5. Solves(g)
  <2> HIDE DEF Solves
  <2> QED
    BY <1>4
<1>6. After(f, ws) = g[n]
  BY DEF After
<1> HIDE DEF g
<1>7. g[0] = f /\ \A i \in 0 .. n - 1 : g[i + 1] = Apply(g[i], ws[i + 1])
  <2>1. \A i \in 0 .. n : g[i] = IF i = 0 THEN f ELSE Apply(g[i - 1], ws[i])
    BY <1>5
  <2> QED
    BY <1>1, <2>1
<1> DEFINE S == {i \in Nat : i <= n => g[i] \in Fields}
<1>8. \A i \in Nat : i \in S
  <2>1. 0 \in S
    BY <1>7
  <2>2. ASSUME NEW i \in Nat, i \in S  PROVE i + 1 \in S
    <3>1. SUFFICES ASSUME i + 1 <= n PROVE g[i + 1] \in Fields
      OBVIOUS
    <3>2. g[i] \in Fields /\ ws[i + 1] \in Writes /\ g[i + 1] = Apply(g[i], ws[i + 1])
      BY <1>1, <1>7, <2>2, <3>1
    <3> QED
      BY <3>2, ApplyFacts
  <2> HIDE DEF S
  <2> QED
    BY <2>1, <2>2, Induction
<1>9. g \in [0 .. n -> Fields]
  BY <1>5, <1>8
<1> QED
  BY <1>6, <1>7, <1>9 DEF IsRun

LEMMA RunIsAfter ==
  ASSUME NEW ws \in Seq(Writes), NEW f \in Fields,
         NEW g \in [0 .. Len(ws) -> Fields], IsRun(g, f, ws)
  PROVE  After(f, ws) = g[Len(ws)]
<1> DEFINE n == Len(ws)
<1>1. PICK h \in [0 .. n -> Fields] : IsRun(h, f, ws) /\ After(f, ws) = h[n]
  BY AfterIsRun
<1>2. n \in Nat
  OBVIOUS
<1>3. Obeys(g, n, f, Applier(ws)) /\ Obeys(h, n, f, Applier(ws))
  BY <1>1, ApplierFacts
<1>4. g[n] = h[n]
  BY <1>2, <1>3, RecursionIsUnique
<1> QED
  BY <1>1, <1>4

LEMMA AfterFacts ==
  ASSUME NEW f \in Fields
  PROVE  /\ After(f, << >>) = f
         /\ \A ws \in Seq(Writes) : After(f, ws) \in Fields
<1>1. ASSUME NEW ws \in Seq(Writes), Len(ws) = 0  PROVE After(f, ws) = f
  <2>1. PICK g \in [0 .. Len(ws) -> Fields] : IsRun(g, f, ws) /\ After(f, ws) = g[Len(ws)]
    BY AfterIsRun
  <2> QED
    BY <1>1, <2>1 DEF IsRun
<1>2. After(f, << >>) = f
  <2> DEFINE none == << >>
  <2>1. none \in Seq(Writes) /\ Len(none) = 0
    OBVIOUS
  <2> HIDE DEF none
  <2>2. After(f, none) = f
    BY <1>1, <2>1
  <2> QED
    BY <2>2 DEF none
<1>3. ASSUME NEW ws \in Seq(Writes)  PROVE After(f, ws) \in Fields
  BY AfterIsRun
<1> QED
  BY <1>2, <1>3

LEMMA AfterConcat ==
  ASSUME NEW f \in Fields, NEW s \in Seq(Writes), NEW u \in Seq(Writes)
  PROVE  After(f, s \o u) = After(After(f, s), u)
<1> DEFINE m == Len(s)
           n == Len(u)
           w == s \o u
<1>1. /\ m \in Nat /\ n \in Nat /\ w \in Seq(Writes) /\ Len(w) = m + n
      /\ \A i \in 1 .. m : w[i] = s[i]
      /\ \A i \in 1 .. n : w[m + i] = u[i]
  BY ConcatProperties
<1> HIDE DEF w
<1>2. PICK g \in [0 .. m + n -> Fields] : IsRun(g, f, w) /\ After(f, w) = g[m + n]
  BY <1>1, AfterIsRun
<1> DEFINE first == [i \in 0 .. m |-> g[i]]
           last == [i \in 0 .. n |-> g[m + i]]
<1>3. /\ first \in [0 .. m -> Fields] /\ last \in [0 .. n -> Fields]
      /\ first[m] = g[m] /\ last[n] = g[m + n]
  <2>1. \A i \in 0 .. m : i \in 0 .. m + n
    BY <1>1
  <2>2. \A i \in 0 .. n : m + i \in 0 .. m + n
    BY <1>1
  <2> QED
    BY <1>1, <2>1, <2>2
<1>4. IsRun(first, f, s)
  <2>1. ASSUME NEW i \in 0 .. m - 1
        PROVE  first[i + 1] = Apply(first[i], s[i + 1])
    <3>1. i \in 0 .. m /\ i + 1 \in 0 .. m /\ i + 1 \in 1 .. m /\ i \in 0 .. Len(w) - 1
      BY <1>1
    <3> QED
      BY <1>1, <1>2, <3>1 DEF IsRun
  <2> QED
    BY <1>1, <1>2, <2>1 DEF IsRun
<1>5. After(f, s) = g[m]
  <2> HIDE DEF first
  <2> QED
    BY <1>3, <1>4, RunIsAfter
<1>6. IsRun(last, g[m], u)
  <2>1. ASSUME NEW i \in 0 .. n - 1
        PROVE  last[i + 1] = Apply(last[i], u[i + 1])
    <3>1. /\ i \in 0 .. n /\ i + 1 \in 0 .. n /\ i + 1 \in 1 .. n
          /\ m + i \in 0 .. Len(w) - 1 /\ m + (i + 1) = (m + i) + 1
      BY <1>1
    <3>2. g[(m + i) + 1] = Apply(g[m + i], w[(m + i) + 1])
      BY <1>2, <3>1 DEF IsRun
    <3>3. w[m + (i + 1)] = u[i + 1]
      BY <1>1, <3>1
    <3> QED
      BY <3>1, <3>2, <3>3
  <2>2. last[0] = g[m]
    BY <1>1
  <2> QED
    BY <2>1, <2>2 DEF IsRun
<1>7. After(g[m], u) = g[m + n]
  <2>1. g[m] \in Fields
    BY <1>1
  <2> HIDE DEF last
  <2> QED
    BY <1>3, <1>6, <2>1, RunIsAfter
<1>8. After(f, w) = g[m + n] /\ After(After(f, s), u) = g[m + n]
  <2> HIDE DEF m, n
  <2> QED
    BY <1>2, <1>5, <1>7
<1> QED
  BY <1>8 DEF w

-----------------------------------------------------------------------------
(* The first elements of a sequence. *)

LEMMA PrefixFacts ==
  ASSUME NEW S, NEW s \in Seq(S), NEW m \in 0 .. Len(s)
  PROVE  /\ SubSeq(s, 1, m) \in Seq(S) /\ Len(SubSeq(s, 1, m)) = m
         /\ \A i \in 1 .. m : SubSeq(s, 1, m)[i] = s[i]
         /\ SubSeq(s, 1, Len(s)) = s
<1>1. ASSUME NEW n \in 0 .. Len(s)
      PROVE  /\ SubSeq(s, 1, n) \in Seq(S) /\ Len(SubSeq(s, 1, n)) = n
             /\ \A i \in 1 .. n : SubSeq(s, 1, n)[i] = s[i]
  <2>1. n \in Int /\ \A i \in 1 .. n : s[i] \in S
    OBVIOUS
  <2>2. /\ SubSeq(s, 1, n) \in Seq(S)
        /\ Len(SubSeq(s, 1, n)) = IF 1 <= n THEN n - 1 + 1 ELSE 0
        /\ \A i \in 1 .. n - 1 + 1 : SubSeq(s, 1, n)[i] = s[1 + i - 1]
    BY <2>1, SubSeqProperties
  <2>3. ASSUME NEW i \in 1 .. n  PROVE SubSeq(s, 1, n)[i] = s[i]
    <3>1. i \in 1 .. n - 1 + 1 /\ 1 + i - 1 = i
      BY <2>1
    <3> QED
      BY <2>2, <3>1
  <2> QED
    BY <2>1, <2>2, <2>3
<1>2. SubSeq(s, 1, Len(s)) = s
  <2> DEFINE u == SubSeq(s, 1, Len(s))
  <2>1. Len(s) \in 0 .. Len(s)
    OBVIOUS
  <2>2. u \in Seq(S) /\ Len(u) = Len(s) /\ \A i \in 1 .. Len(u) : u[i] = s[i]
    BY <1>1, <2>1
  <2> HIDE DEF u
  <2>3. u = s
    BY <2>2, SeqEqual
  <2> QED
    BY <2>3 DEF u
<1> QED
  BY <1>1, <1>2

LEMMA PrefixStays ==
  ASSUME NEW S, NEW s \in Seq(S), NEW u \in Seq(S), NEW m \in 0 .. Len(s), NEW k \in 0 .. m,
         NEW w, w = SubSeq(s, 1, m) \o u
  PROVE  SubSeq(w, 1, k) = SubSeq(s, 1, k)
<1> DEFINE a == SubSeq(s, 1, m)
           c == SubSeq(w, 1, k)
           d == SubSeq(s, 1, k)
<1>1. a \in Seq(S) /\ Len(a) = m /\ \A i \in 1 .. m : a[i] = s[i]
  BY PrefixFacts
<1>0. w = a \o u
  OBVIOUS
<1> HIDE DEF a
<1>2. w \in Seq(S) /\ Len(w) = m + Len(u) /\ \A i \in 1 .. m : w[i] = a[i]
  BY <1>0, <1>1, ConcatProperties
<1>3. c \in Seq(S) /\ Len(c) = k /\ \A i \in 1 .. k : c[i] = w[i]
  <2>1. k \in 0 .. Len(w)
    BY <1>2
  <2> QED
    BY <1>2, <2>1, PrefixFacts
<1>4. d \in Seq(S) /\ Len(d) = k /\ \A i \in 1 .. k : d[i] = s[i]
  <2>1. k \in 0 .. Len(s)
    OBVIOUS
  <2> QED
    BY <2>1, PrefixFacts
<1>5. c = d
  <2> HIDE DEF c, d
  <2>1. \A i \in 1 .. Len(c) : c[i] = d[i]
    BY <1>1, <1>2, <1>3, <1>4
  <2> QED
    BY <1>3, <1>4, <2>1, SeqEqual
<1> QED
  BY <1>5

-----------------------------------------------------------------------------
(* The States the frames were entered in are what the journal says. *)

Recorded(s, j) ==
  \A i \in 1 .. Len(s) :
    /\ s[i].mark <= Len(j)
    /\ s[i].entry.f = After(Empty, SubSeq(j, 1, s[i].mark))
    /\ \A k \in i .. Len(s) : s[i].mark <= s[k].mark

(* The inductive invariant. *)
Rollback == TypeOK /\ LiveIsJournalled /\ Recorded(stack, journal)

(* A step takes the frames s and the journal j to t and k: it keeps m entries
   of the journal and adds ws to them, which makes the fields f.  The frames
   that stay began within what is kept, and at most one begins after it. *)
Moved(s, j, m, ws, f, t, k) ==
  /\ m \in 0 .. Len(j) /\ ws \in Seq(Writes)
  /\ k = SubSeq(j, 1, m) \o ws
  /\ f = After(After(Empty, SubSeq(j, 1, m)), ws)
  /\ \A i \in 1 .. Len(t) :
       \/ i \in 1 .. Len(s) /\ t[i] = s[i] /\ s[i].mark <= m
       \/ i = Len(t) /\ t[i].mark = Len(k) /\ t[i].entry.f = f

LEMMA Moves ==
  ASSUME NEW s \in Seq(Frame), NEW j \in Seq(Writes), Recorded(s, j),
         NEW m, NEW ws, NEW f, NEW k, NEW t \in Seq(Frame),
         Moved(s, j, m, ws, f, t, k)
  PROVE  k \in Seq(Writes) /\ f = After(Empty, k) /\ Recorded(t, k)
<1> USE DEF Moved
<1> DEFINE kept == SubSeq(j, 1, m)
<1>1. kept \in Seq(Writes) /\ Len(kept) = m
  BY PrefixFacts
<1>2. k = kept \o ws /\ f = After(After(Empty, kept), ws)
  OBVIOUS
<1> HIDE DEF kept
<1>3. /\ k \in Seq(Writes) /\ Len(k) = m + Len(ws) /\ Len(k) \in Nat
      /\ m <= Len(k) /\ m \in Nat
  <2>1. k \in Seq(Writes) /\ Len(k) = Len(kept) + Len(ws)
    BY <1>1, <1>2, ConcatProperties
  <2>2. m \in Nat /\ Len(ws) \in Nat
    OBVIOUS
  <2> QED
    BY <1>1, <2>1, <2>2
<1>4. f = After(Empty, k)
  <2>1. After(Empty, kept \o ws) = After(After(Empty, kept), ws)
    BY <1>1, ZeroFacts, AfterConcat
  <2> QED
    BY <1>2, <2>1
<1>5. \A i \in 1 .. Len(t) : t[i].mark \in Nat
  <2>1. \A i \in 1 .. Len(t) : t[i] \in Frame
    OBVIOUS
  <2> QED
    BY <2>1 DEF Frame
<1>6. \A i \in 1 .. Len(s) : s[i].mark \in Nat
  <2>1. \A i \in 1 .. Len(s) : s[i] \in Frame
    OBVIOUS
  <2> QED
    BY <2>1 DEF Frame
<1>7. ASSUME NEW i \in 1 .. Len(t)
      PROVE  t[i].mark <= Len(k) /\ t[i].entry.f = After(Empty, SubSeq(k, 1, t[i].mark))
  <2>1. CASE i \in 1 .. Len(s) /\ t[i] = s[i] /\ s[i].mark <= m
    <3> DEFINE n == s[i].mark
    <3>1. n \in 0 .. m
      BY <1>6, <2>1
    <3>2. s[i].entry.f = After(Empty, SubSeq(j, 1, n))
      BY <2>1 DEF Recorded
    <3>3. t[i].mark = n /\ t[i].entry.f = s[i].entry.f
      BY <2>1
    <3> HIDE DEF n
    <3>4. SubSeq(k, 1, n) = SubSeq(j, 1, n)
      BY <3>1, PrefixStays
    <3>5. n <= Len(k)
      BY <1>3, <3>1
    <3> QED
      BY <3>2, <3>3, <3>4, <3>5
  <2>2. CASE t[i].mark = Len(k) /\ t[i].entry.f = f
    <3>1. SubSeq(k, 1, Len(k)) = k
      <4>1. Len(k) \in 0 .. Len(k)
        BY <1>3
      <4> QED
        BY <1>3, <4>1, PrefixFacts
    <3>2. t[i].mark <= Len(k)
      BY <1>3, <2>2
    <3> QED
      BY <1>4, <2>2, <3>1, <3>2
  <2> QED
    BY <2>1, <2>2
<1>8. ASSUME NEW i \in 1 .. Len(t), NEW n \in i .. Len(t)
      PROVE  t[i].mark <= t[n].mark
  <2>1. n \in 1 .. Len(t) /\ Len(t) \in Nat
    OBVIOUS
  <2>2. CASE i = n
    BY <1>5, <2>2
  <2>3. CASE i # n
    <3>1. i \in 1 .. Len(s) /\ t[i] = s[i] /\ s[i].mark <= m
      BY <2>1, <2>3
    <3>2. CASE n \in 1 .. Len(s) /\ t[n] = s[n]
      <4>1. n \in i .. Len(s)
        BY <3>2
      <4> QED
        BY <3>1, <3>2, <4>1 DEF Recorded
    <3>3. CASE t[n].mark = Len(k)
      BY <1>3, <1>6, <3>1, <3>3
    <3> QED
      BY <2>1, <3>2, <3>3
  <2> QED
    BY <2>2, <2>3
<1> QED
  BY <1>3, <1>4, <1>7, <1>8 DEF Recorded

-----------------------------------------------------------------------------
(* What an action writes. *)

LEMMA WritesOf ==
  /\ \A b \in BOOLEAN : ClearIf(b) \in Seq(Writes) /\ Called(b) \in Seq(Writes)
  /\ <<[op |-> "sds"]>> \in Seq(Writes)
  /\ \A op \in {"sto", "tr"}, k \in Slots, v \in Values :
       <<[op |-> op, at |-> k, val |-> v]>> \in Seq(Writes)
<1>1. [op |-> "clear"] \in Writes /\ [op |-> "sds"] \in Writes
  BY DEF Writes
<1>2. \A b \in BOOLEAN : [op |-> "ext", val |-> b] \in Writes
  BY DEF Writes
<1>3. \A op \in {"sto", "tr"}, k \in Slots, v \in Values :
        [op |-> op, at |-> k, val |-> v] \in Writes
  BY DEF Writes
<1>4. \A w \in Writes : <<w>> \in Seq(Writes)
  OBVIOUS
<1>5. << >> \in Seq(Writes)
  OBVIOUS
<1>6. \A b \in BOOLEAN : ClearIf(b) \in Seq(Writes)
  BY <1>1, <1>4, <1>5 DEF ClearIf
<1>7. \A b \in BOOLEAN : Called(b) \in Seq(Writes)
  <2> TAKE b \in BOOLEAN
  <2> DEFINE w == [op |-> "ext", val |-> b]
  <2>1. w \in Writes
    BY <1>2
  <2> HIDE DEF w
  <2>2. <<w>> \in Seq(Writes)
    BY <1>4, <2>1
  <2> QED
    BY <2>2 DEF Called, w
<1> QED
  BY <1>1, <1>3, <1>4, <1>6, <1>7

LEMMA WriteFacts ==
  ASSUME NEW s \in SolState, NEW ws \in Seq(Writes)
  PROVE  LET r == [s EXCEPT !.f = After(@, ws)]
         IN  r \in SolState /\ r.f = After(s.f, ws)
<1>1. s.f \in Fields
  BY DEF SolState
<1>2. After(s.f, ws) \in Fields
  BY <1>1, AfterFacts
<1> DEFINE f == After(s.f, ws)
<1>3. f \in Fields
  BY <1>2
<1> HIDE DEF f
<1>4. [s EXCEPT !.f = f] \in SolState /\ [s EXCEPT !.f = f].f = f
  BY <1>3 DEF SolState
<1> QED
  BY <1>4 DEF f

LEMMA RebaseFacts ==
  ASSUME NEW s \in SolState, NEW value \in Values
  PROVE  Rebase(s, value) \in SolState /\ Rebase(s, value).f = s.f
<1>1. (SeedBalance + value) % WordMod \in 0 .. (WordMod - 1)
  BY SelfDispatchAssumption
<1> QED
  BY <1>1 DEF Rebase, SolState

(* The innermost of the running frames. *)
LEMMA TopFacts ==
  ASSUME TypeOK, Running
  PROVE  /\ Top \in Frame /\ Len(stack) \in Nat /\ Len(stack) > 0
         /\ Top = stack[Len(stack)]
<1>1. stack \in Seq(Frame) /\ stack # << >>
  BY DEF TypeOK, Running
<1>2. Len(stack) \in Nat /\ Len(stack) > 0
  BY <1>1
<1>3. stack[Len(stack)] \in Frame
  BY <1>1, <1>2
<1> QED
  BY <1>2, <1>3 DEF Top, Last

(* What the steps leave true of the State, the frames and the journal. *)
Kept ==
  /\ st \in SolState /\ stack \in Seq(Frame) /\ journal \in Seq(Writes)
  /\ LiveIsJournalled /\ Recorded(stack, journal)

LEMMA Whole ==
  ASSUME NEW j \in Seq(Writes)
  PROVE  Len(j) \in 0 .. Len(j) /\ SubSeq(j, 1, Len(j)) = j
<1>1. Len(j) \in 0 .. Len(j)
  OBVIOUS
<1> QED
  BY <1>1, PrefixFacts

(* A step that only writes. *)
LEMMA Adds ==
  ASSUME Rollback, NEW ws \in Seq(Writes), Write(st, journal, ws), stack' = stack
  PROVE  Kept'
<1>1. st \in SolState /\ stack \in Seq(Frame) /\ journal \in Seq(Writes) /\ st.f = After(Empty, journal)
      /\ Recorded(stack, journal)
  BY DEF Rollback, TypeOK, LiveIsJournalled
<1>2. st' \in SolState /\ st'.f = After(st.f, ws) /\ journal' = journal \o ws
  BY <1>1, WriteFacts DEF Write
<1> DEFINE m == Len(journal)
           f == st'.f
           k == journal'
           t == stack'
<1>3. m \in 0 .. Len(journal) /\ SubSeq(journal, 1, m) = journal
  BY <1>1, Whole
<1>4. \A i \in 1 .. Len(stack) : stack[i].mark <= m
  BY <1>1 DEF Recorded
<1>5. k = SubSeq(journal, 1, m) \o ws /\ f = After(After(Empty, SubSeq(journal, 1, m)), ws)
  BY <1>1, <1>2, <1>3
<1>6. t \in Seq(Frame) /\ t = stack
  BY <1>1
<1> HIDE DEF m, f, k, t
<1>7. \A i \in 1 .. Len(t) :
        \/ i \in 1 .. Len(stack) /\ t[i] = stack[i] /\ stack[i].mark <= m
        \/ i = Len(t) /\ t[i].mark = Len(k) /\ t[i].entry.f = f
  BY <1>4, <1>6
<1>8. k \in Seq(Writes) /\ f = After(Empty, k) /\ Recorded(t, k)
  <2>1. Moved(stack, journal, m, ws, f, t, k)
    BY <1>3, <1>5, <1>7 DEF Moved
  <2> QED
    BY <1>1, <1>6, <2>1, Moves
<1>9. Recorded(stack', journal') /\ journal' \in Seq(Writes) /\ stack' \in Seq(Frame)
  BY <1>1, <1>6, <1>8 DEF k, t
<1>10. LiveIsJournalled'
  BY <1>8 DEF LiveIsJournalled, f, k
<1> QED
  BY <1>2, <1>9, <1>10 DEF Kept

(* A frame that ends keeps the journal j up to m, where its callers began. *)
LEMMA Pops ==
  ASSUME TypeOK, Running, NEW success \in BOOLEAN, NEW s \in SolState,
         NEW j \in Seq(Writes), Recorded(stack, j), NEW m \in 0 .. Len(j),
         \A i \in 1 .. Len(stack) - 1 : stack[i].mark <= m,
         s.f = After(Empty, SubSeq(j, 1, m)),
         Pop(success, s, SubSeq(j, 1, m))
  PROVE  Kept'
<1>1. stack \in Seq(Frame) /\ stack # << >> /\ Top \in Frame
  BY TopFacts DEF TypeOK, Running
<1> DEFINE ws == IF Len(stack) = 1 THEN ClearIf(Top.clears) ELSE Called(success)
           t == stack'
           f == st'.f
           k == journal'
<1>2. ws \in Seq(Writes)
  <2>1. Top.clears \in BOOLEAN
    BY <1>1 DEF Frame
  <2> QED
    BY <2>1, WritesOf
<1>3. stack' = Front(stack) /\ Write(s, SubSeq(j, 1, m), ws)
  BY DEF Pop
<1> HIDE DEF ws
<1>4. t \in Seq(Frame) /\ Len(t) = Len(stack) - 1 /\ \A i \in 1 .. Len(stack) - 1 : t[i] = stack[i]
  BY <1>1, <1>3, FrontOf
<1>5. st' \in SolState /\ f = After(s.f, ws) /\ k = SubSeq(j, 1, m) \o ws
  BY <1>2, <1>3, WriteFacts DEF Write
<1> HIDE DEF t
<1>6. \A i \in 1 .. Len(t) :
        \/ i \in 1 .. Len(stack) /\ t[i] = stack[i] /\ stack[i].mark <= m
        \/ i = Len(t) /\ t[i].mark = Len(k) /\ t[i].entry.f = f
  <2>1. \A i \in 1 .. Len(t) : i \in 1 .. Len(stack) - 1 /\ i \in 1 .. Len(stack)
    BY <1>1, <1>4
  <2> QED
    BY <1>4, <2>1
<1> HIDE DEF f, k
<1>0. f = After(After(Empty, SubSeq(j, 1, m)), ws)
  BY <1>5
<1>7. k \in Seq(Writes) /\ f = After(Empty, k) /\ Recorded(t, k)
  <2>1. Moved(stack, j, m, ws, f, t, k)
    BY <1>0, <1>2, <1>5, <1>6 DEF Moved
  <2> QED
    BY <1>1, <1>4, <2>1, Moves
<1>8. LiveIsJournalled'
  BY <1>7 DEF LiveIsJournalled, f, k
<1>9. stack' \in Seq(Frame) /\ journal' \in Seq(Writes) /\ Recorded(stack', journal')
  BY <1>4, <1>7 DEF t, k
<1> QED
  BY <1>5, <1>8, <1>9 DEF Kept

(* A frame that fails hands back the State it was entered in. *)
LEMMA Fails ==
  ASSUME Rollback, Running, Fail
  PROVE  Kept'
<1>1. TypeOK /\ journal \in Seq(Writes) /\ Recorded(stack, journal) /\ stack \in Seq(Frame)
  BY DEF Rollback, TypeOK
<1>2. Top \in Frame /\ Len(stack) \in Nat /\ Len(stack) > 0 /\ Top = stack[Len(stack)]
  BY <1>1, TopFacts
<1> DEFINE m == Top.mark
<1>3. Top.entry \in SolState /\ m \in Nat
  BY <1>2 DEF Frame
<1>4. Len(stack) \in 1 .. Len(stack)
  BY <1>2
<1>5. m <= Len(journal) /\ Top.entry.f = After(Empty, SubSeq(journal, 1, m))
  BY <1>1, <1>2, <1>4 DEF Recorded
<1>6. \A i \in 1 .. Len(stack) - 1 : stack[i].mark <= m
  <2> TAKE i \in 1 .. Len(stack) - 1
  <2>1. i \in 1 .. Len(stack) /\ Len(stack) \in i .. Len(stack)
    BY <1>2
  <2> QED
    BY <1>1, <1>2, <2>1 DEF Recorded
<1>7. Pop(FALSE, Top.entry, SubSeq(journal, 1, m))
  BY DEF Fail, FailedState
<1>8. m \in 0 .. Len(journal)
  BY <1>1, <1>3, <1>5
<1> HIDE DEF m
<1> QED
  BY <1>1, <1>3, <1>5, <1>6, <1>7, <1>8, Pops

(* Selfdestruct ends its frame after a write of its own. *)
LEMMA Selfdestructs ==
  ASSUME Rollback, Selfdestruct
  PROVE  Kept'
<1> DEFINE ws == <<[op |-> "sds"]>>
           k == journal \o ws
           f == After(st.f, ws)
           s == [f |-> f, bal |-> 0]
           m == Len(k)
<1>1. Running /\ Pop(TRUE, s, k)
  BY DEF Selfdestruct
<1>2. ws \in Seq(Writes)
  BY WritesOf
<1> HIDE DEF ws
<1>3. /\ TypeOK /\ st \in SolState /\ stack \in Seq(Frame) /\ journal \in Seq(Writes)
      /\ st.f = After(Empty, journal) /\ Recorded(stack, journal)
  BY DEF Rollback, TypeOK, LiveIsJournalled
<1>4. s \in SolState /\ s.f = f
  <2>1. st.f \in Fields
    BY <1>3 DEF SolState
  <2>2. f \in Fields
    BY <1>2, <2>1, AfterFacts
  <2> HIDE DEF f
  <2> QED
    BY <2>2, SelfDispatchAssumption DEF SolState
<1>5. Len(journal) \in 0 .. Len(journal) /\ SubSeq(journal, 1, Len(journal)) = journal
  BY <1>3, Whole
<1>6. \A i \in 1 .. Len(stack) : stack[i].mark <= Len(journal)
  BY <1>3 DEF Recorded
<1> HIDE DEF s
<1>7. Moved(stack, journal, Len(journal), ws, f, stack, k)
  BY <1>2, <1>3, <1>5, <1>6 DEF Moved
<1> HIDE DEF f, k
<1>8. k \in Seq(Writes) /\ f = After(Empty, k) /\ Recorded(stack, k)
  BY <1>3, <1>7, Moves
<1>9. m \in 0 .. Len(k) /\ SubSeq(k, 1, m) = k
  BY <1>8, Whole
<1>10. \A i \in 1 .. Len(stack) - 1 : stack[i].mark <= m
  <2> TAKE i \in 1 .. Len(stack) - 1
  <2>1. i \in 1 .. Len(stack)
    BY <1>3
  <2> QED
    BY <1>8, <2>1 DEF Recorded
<1> HIDE DEF m
<1>11. s.f = After(Empty, SubSeq(k, 1, m)) /\ Pop(TRUE, s, SubSeq(k, 1, m))
  BY <1>1, <1>4, <1>8, <1>9
<1> QED
  BY <1>1, <1>3, <1>4, <1>8, <1>9, <1>10, <1>11, Pops

LEMMA Returns ==
  ASSUME Rollback, Return
  PROVE  Kept'
<1> DEFINE m == Len(journal)
<1>1. /\ TypeOK /\ st \in SolState /\ stack \in Seq(Frame) /\ journal \in Seq(Writes)
      /\ st.f = After(Empty, journal) /\ Recorded(stack, journal)
  BY DEF Rollback, TypeOK, LiveIsJournalled
<1>2. m \in 0 .. Len(journal) /\ SubSeq(journal, 1, m) = journal
  BY <1>1, Whole
<1>3. \A i \in 1 .. Len(stack) - 1 : stack[i].mark <= m
  <2> TAKE i \in 1 .. Len(stack) - 1
  <2>1. i \in 1 .. Len(stack)
    BY <1>1
  <2> QED
    BY <1>1, <2>1 DEF Recorded
<1>4. Running /\ Pop(TRUE, st, journal)
  BY DEF Return, Pop
<1> HIDE DEF m
<1>5. st.f = After(Empty, SubSeq(journal, 1, m)) /\ Pop(TRUE, st, SubSeq(journal, 1, m))
  BY <1>1, <1>2, <1>4
<1> QED
  BY <1>1, <1>2, <1>3, <1>4, <1>5, Pops

(* An entry begins with no frame, and with the writes of its transaction. *)
LEMMA Enters ==
  ASSUME Rollback, NEW creation \in BOOLEAN, NEW clears \in BOOLEAN, NEW value \in Values,
         Enter(creation, clears, value)
  PROVE  Kept'
<1> DEFINE ws == ClearIf(clears)
           s == [st EXCEPT !.f = After(@, ws)]
           m == Len(journal)
           k == journal'
           f == st'.f
           t == stack'
           frame == [entry |-> s, mark |-> Len(k), depth |-> Fuel,
                     creation |-> creation, clears |-> clears]
<1>1. /\ st \in SolState /\ stack \in Seq(Frame) /\ journal \in Seq(Writes)
      /\ st.f = After(Empty, journal) /\ Recorded(stack, journal)
  BY DEF Rollback, TypeOK, LiveIsJournalled
<1>2. st' = Rebase(s, value) /\ k = journal \o ws /\ t = <<frame>>
  BY DEF Enter
<1>3. ws \in Seq(Writes)
  BY WritesOf
<1> HIDE DEF ws
<1>4. s \in SolState /\ s.f = After(st.f, ws)
  BY <1>1, <1>3, WriteFacts
<1> HIDE DEF s
<1>5. st' \in SolState /\ f = s.f
  BY <1>2, <1>4, RebaseFacts
<1>6. Len(k) \in Nat
  BY <1>1, <1>2, <1>3, ConcatProperties
<1> HIDE DEF k
<1>7. frame \in Frame /\ frame.mark = Len(k) /\ frame.entry = s
  BY <1>4, <1>6, SelfDispatchAssumption DEF Frame
<1> HIDE DEF frame
<1>8. t \in Seq(Frame) /\ Len(t) = 1 /\ t[1] = frame
  BY <1>2, <1>7
<1>9. m \in 0 .. Len(journal) /\ SubSeq(journal, 1, m) = journal
  BY <1>1, Whole
<1> HIDE DEF f, t, m
<1>10. Moved(stack, journal, m, ws, f, t, k)
  <2>1. \A i \in 1 .. Len(t) : i = Len(t) /\ t[i].mark = Len(k) /\ t[i].entry.f = f
    BY <1>5, <1>7, <1>8
  <2> QED
    BY <1>1, <1>2, <1>3, <1>4, <1>5, <1>9, <2>1 DEF Moved
<1>11. k \in Seq(Writes) /\ f = After(Empty, k) /\ Recorded(t, k)
  BY <1>1, <1>8, <1>10, Moves
<1>12. LiveIsJournalled'
  BY <1>11 DEF LiveIsJournalled, f, k
<1>13. stack' \in Seq(Frame) /\ journal' \in Seq(Writes) /\ Recorded(stack', journal')
  BY <1>8, <1>11 DEF t, k
<1> QED
  BY <1>5, <1>12, <1>13 DEF Kept

(* A self-call begins a frame where the journal stands. *)
LEMMA SelfCalls ==
  ASSUME Rollback, NEW value \in Values, SelfCall(value)
  PROVE  Kept'
<1> DEFINE none == << >>
           n == Len(stack)
           m == Len(journal)
           f == st'.f
           t == stack'
           frame == [entry |-> st, mark |-> m, depth |-> Top.depth - 1,
                     creation |-> FALSE, clears |-> FALSE]
<1>1. /\ TypeOK /\ st \in SolState /\ stack \in Seq(Frame) /\ journal \in Seq(Writes)
      /\ st.f = After(Empty, journal) /\ Recorded(stack, journal)
  BY DEF Rollback, TypeOK, LiveIsJournalled
<1>2. /\ Running /\ HookResolves(Top) /\ st' = Rebase(st, value)
      /\ journal' = journal /\ t = Append(stack, frame)
  BY DEF SelfCall
<1>3. st' \in SolState /\ f = st.f
  BY <1>1, <1>2, RebaseFacts
<1>4. m \in 0 .. Len(journal) /\ m \in Nat /\ SubSeq(journal, 1, m) = journal
  BY <1>1, Whole
<1>5. frame \in Frame /\ frame.mark = m /\ frame.entry = st
  <2>1. Top \in Frame /\ Top.depth > 0
    BY <1>1, <1>2, TopFacts DEF HookResolves
  <2>2. Top.depth - 1 \in 0 .. Fuel
    BY <2>1, SelfDispatchAssumption DEF Frame
  <2> QED
    BY <1>1, <1>4, <2>2 DEF Frame
<1> HIDE DEF frame
<1>6. /\ t \in Seq(Frame) /\ Len(t) = n + 1 /\ t[n + 1] = frame
      /\ \A i \in 1 .. n : t[i] = stack[i]
  BY <1>1, <1>2, <1>5, AppendProperties
<1>7. none \in Seq(Writes) /\ journal \o none = journal /\ After(st.f, none) = st.f
  <2>1. st.f \in Fields
    BY <1>1 DEF SolState
  <2> QED
    BY <1>1, <2>1, AfterFacts, ConcatEmptySeq
<1>8. \A i \in 1 .. n : stack[i].mark <= m
  BY <1>1 DEF Recorded
<1>9. n \in Nat
  BY <1>1
<1> HIDE DEF none, f, t, m, n
<1>10. Moved(stack, journal, m, none, f, t, journal)
  <2>1. \A i \in 1 .. Len(t) :
          \/ i \in 1 .. n /\ t[i] = stack[i] /\ stack[i].mark <= m
          \/ i = Len(t) /\ t[i].mark = m /\ t[i].entry.f = f
    <3> TAKE i \in 1 .. Len(t)
    <3>1. i \in 1 .. n \/ i = n + 1
      BY <1>6, <1>9
    <3> QED
      BY <1>3, <1>5, <1>6, <1>8, <3>1
  <2>2. m = Len(journal) /\ n = Len(stack)
    BY DEF m, n
  <2>3. f = After(After(Empty, SubSeq(journal, 1, m)), none)
    BY <1>1, <1>3, <1>4, <1>7
  <2>4. journal = SubSeq(journal, 1, m) \o none
    BY <1>4, <1>7
  <2>5. \A i \in 1 .. Len(t) :
          \/ i \in 1 .. Len(stack) /\ t[i] = stack[i] /\ stack[i].mark <= m
          \/ i = Len(t) /\ t[i].mark = Len(journal) /\ t[i].entry.f = f
    BY <2>1, <2>2
  <2> QED
    BY <1>4, <1>7, <2>3, <2>4, <2>5, Zenon DEF Moved
<1>11. f = After(Empty, journal) /\ Recorded(t, journal)
  BY <1>1, <1>6, <1>10, Moves
<1>12. LiveIsJournalled'
  BY <1>2, <1>11 DEF LiveIsJournalled, f
<1>13. stack' \in Seq(Frame) /\ journal' \in Seq(Writes) /\ Recorded(stack', journal')
  BY <1>1, <1>2, <1>6, <1>11 DEF t
<1> QED
  BY <1>3, <1>12, <1>13 DEF Kept

(* The history variables stay in their types. *)
LEMMA Counted ==
  ASSUME Rollback, Next
  PROVE  lost' \in SUBSET Losses /\ aborted' \in BOOLEAN /\ left' \in 0 .. MaxOps
<1>1. lost \in SUBSET Losses /\ aborted \in BOOLEAN /\ left \in 0 .. MaxOps
  BY DEF Rollback, TypeOK
<1>2. Spend => left' \in 0 .. MaxOps
  BY <1>1, SelfDispatchAssumption DEF Spend
<1>3. ASSUME NEW creation, NEW clears, NEW value, Enter(creation, clears, value)
      PROVE  lost' = lost /\ aborted' = aborted /\ Spend
  BY <1>3 DEF Enter
<1>4. ASSUME NEW value, SelfCall(value)
      PROVE  lost' = lost /\ aborted' = aborted /\ Spend
  BY <1>4 DEF SelfCall
<1>5. ASSUME NEW success, Precompile(success)
      PROVE  lost' = lost /\ aborted' = aborted /\ Spend
  BY <1>5 DEF Precompile
<1>6. ASSUME Store \/ SelfCallRefused \/ Selfdestruct
      PROVE  lost' = lost /\ aborted' = aborted /\ Spend
  BY <1>6 DEF Store, SelfCallRefused, Selfdestruct
<1>7. ASSUME Return \/ Revert
      PROVE  lost' = lost /\ aborted' = aborted /\ left' = left
  BY <1>7 DEF Return, Revert, Fail, Pop
<1>8. ASSUME NEW how \in Losses, Escape(how)
      PROVE  lost' \in SUBSET Losses /\ aborted' \in BOOLEAN /\ Spend
  BY <1>1, <1>8 DEF Escape
<1> QED
  BY <1>1, <1>2, <1>3, <1>4, <1>5, <1>6, <1>7, <1>8 DEF Next

LEMMA KeptStep ==
  ASSUME Rollback, Next
  PROVE  Kept'
<1>1. ASSUME NEW creation \in BOOLEAN, NEW clears \in BOOLEAN, NEW value \in Values,
             Enter(creation, clears, value)
      PROVE  Kept'
  BY <1>1, Enters
<1>2. CASE Store
  <2>1. PICK op \in {"sto", "tr"}, k \in Slots, v \in Values :
          Write(st, journal, <<[op |-> op, at |-> k, val |-> v]>>)
    BY <1>2 DEF Store
  <2> DEFINE ws == <<[op |-> op, at |-> k, val |-> v]>>
  <2>2. ws \in Seq(Writes) /\ Write(st, journal, ws) /\ stack' = stack
    BY <1>2, <2>1, WritesOf DEF Store
  <2> HIDE DEF ws
  <2> QED
    BY <2>2, Adds
<1>3. CASE SelfCallRefused
  <2>1. Called(FALSE) \in Seq(Writes) /\ Write(st, journal, Called(FALSE)) /\ stack' = stack
    BY <1>3, WritesOf DEF SelfCallRefused
  <2> QED
    BY <2>1, Adds
<1>4. ASSUME NEW success \in BOOLEAN, Precompile(success)
      PROVE  Kept'
  <2> DEFINE ws == Called(success)
  <2>1. ws \in Seq(Writes) /\ Write(st, journal, ws) /\ stack' = stack
    BY <1>4, WritesOf DEF Precompile
  <2> HIDE DEF ws
  <2> QED
    BY <2>1, Adds
<1>5. CASE Return
  BY <1>5, Returns
<1>6. CASE Revert
  BY <1>6, Fails DEF Revert
<1>7. CASE Selfdestruct
  BY <1>7, Selfdestructs
<1>8. ASSUME NEW value \in Values, SelfCall(value)
      PROVE  Kept'
  BY <1>8, SelfCalls
<1>9. ASSUME NEW how \in Losses, Escape(how)
      PROVE  Kept'
  <2>1. CASE Len(stack) = 1
    <3> DEFINE none == << >>
    <3>1. st' = st /\ journal' = journal /\ stack' = none
      BY <1>9, <2>1 DEF Escape
    <3>2. none \in Seq(Frame) /\ Len(none) = 0
      OBVIOUS
    <3> HIDE DEF none
    <3>3. Recorded(none, journal)
      BY <3>2 DEF Recorded
    <3>4. /\ st \in SolState /\ journal \in Seq(Writes)
          /\ st.f = After(Empty, journal)
      BY DEF Rollback, TypeOK, LiveIsJournalled
    <3>5. LiveIsJournalled' /\ Recorded(stack', journal')
      BY <3>1, <3>3, <3>4 DEF LiveIsJournalled
    <3> QED
      BY <3>1, <3>2, <3>4, <3>5 DEF Kept
  <2>2. CASE Len(stack) # 1
    BY <1>9, <2>2, Fails DEF Escape
  <2> QED
    BY <2>1, <2>2
<1> QED
  BY <1>1, <1>2, <1>3, <1>4, <1>5, <1>6, <1>7, <1>8, <1>9 DEF Next

LEMMA RollbackInvariant == Spec => []Rollback
<1>1. Init => Rollback
  <2> SUFFICES ASSUME Init PROVE Rollback
    OBVIOUS
  <2> DEFINE none == << >>
  <2>1. st = [f |-> Empty, bal |-> 0] /\ journal = none /\ stack = none
    BY DEF Init
  <2>2. none \in Seq(Writes) /\ none \in Seq(Frame) /\ Len(none) = 0
    OBVIOUS
  <2> HIDE DEF none
  <2>3. After(Empty, none) = Empty
    BY ZeroFacts, AfterFacts DEF none
  <2>4. st \in SolState
    BY <2>1, ZeroFacts, SelfDispatchAssumption DEF SolState
  <2>5. lost \in SUBSET Losses /\ aborted \in BOOLEAN
    BY DEF Init
  <2>10. left \in 0 .. MaxOps
    BY SelfDispatchAssumption DEF Init
  <2>6. TypeOK
    BY <2>1, <2>2, <2>4, <2>5, <2>10 DEF TypeOK
  <2>7. LiveIsJournalled
    BY <2>1, <2>3 DEF LiveIsJournalled
  <2>8. Recorded(stack, journal)
    BY <2>1, <2>2 DEF Recorded
  <2> QED
    BY <2>6, <2>7, <2>8 DEF Rollback
<1>2. Rollback /\ [Next]_vars => Rollback'
  <2>1. ASSUME Rollback, Next  PROVE Rollback'
    <3>1. Kept' /\ lost' \in SUBSET Losses /\ aborted' \in BOOLEAN /\ left' \in 0 .. MaxOps
      BY <2>1, KeptStep, Counted
    <3> QED
      BY <3>1 DEF Rollback, TypeOK, Kept
  <2>2. ASSUME Rollback, UNCHANGED vars  PROVE Rollback'
    <3>1. /\ st' = st /\ stack' = stack /\ journal' = journal /\ lost' = lost
          /\ aborted' = aborted /\ left' = left
      BY <2>2 DEF vars
    <3>2. TypeOK'
      BY <2>2, <3>1 DEF Rollback, TypeOK
    <3>3. LiveIsJournalled'
      BY <2>2, <3>1 DEF Rollback, LiveIsJournalled
    <3>4. Recorded(stack', journal')
      BY <2>2, <3>1 DEF Rollback
    <3> QED
      BY <3>2, <3>3, <3>4 DEF Rollback
  <2> QED
    BY <2>1, <2>2
<1> QED
  BY <1>1, <1>2, PTL DEF Spec

(* The State, the frames and the journal stay in their types: the balance is
   a word of the EVM's width whatever the entries sent (evalBodyEntry). *)
THEOREM TypesHold == Spec => []TypeOK
<1>1. Rollback => TypeOK
  BY DEF Rollback
<1> QED
  BY <1>1, RollbackInvariant, PTL

(* Putting the caller's State back is the EVM's undoing of writes, for any
   nesting of frames that return, revert, fail or are refused
   (callBodyResult, selfDispatchCall). *)
THEOREM RollbackIsUndo == Spec => []JournalAgrees
<1>1. Rollback => JournalAgrees
  BY DEF Rollback, JournalAgrees
<1> QED
  BY <1>1, RollbackInvariant, PTL
=============================================================================
