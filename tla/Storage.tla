------------------------------- MODULE Storage -------------------------------
(***************************************************************************)
(* The storage of the interpreter: where the lowering places the variables *)
(* of a contract, and what assignment, delete, push, pop and storage       *)
(* pointers do to the slots.                                               *)
(*                                                                         *)
(* A word has WordBytes bytes of ByteMod values, instead of 32 of 256.  A  *)
(* slot is an offset `at` in a region: the contract's slots, or what one   *)
(* hash points to, which is named by the slots and keys hashed (0: an      *)
(* array's data), so that hashes do not collide and regions do not meet.   *)
(* A layout is [kind, n, off, parts]: a "lane" is n bytes at the byte off  *)
(* of its slot; a scalar is the lane of a whole word.  n of an array, of   *)
(* bytes and of a mapping is as in the types: only a fixed array's counts  *)
(* in the code.                                                            *)
(***************************************************************************)
EXTENDS StorageTypes, Functions

CONSTANTS Contracts, WordBytes, ByteMod

-----------------------------------------------------------------------------
(* Layouts.                                                                *)

Lane(off, n) == [kind |-> "lane", n |-> n, off |-> off, parts |-> <<>>]
Cursor(slot, off) == [slot |-> slot, off |-> off]
(* Mutant: a struct or array starts in the slot its predecessor left half full. *)
AlignNever(cursor) == cursor.slot
Align(cursor) == IF cursor.off = 0 THEN cursor.slot ELSE cursor.slot + 1
Advance(slot, off) == IF off = WordBytes THEN Cursor(slot + 1, 0) ELSE Cursor(slot, off)
PerSlot(lane) == WordBytes \div lane.n

RECURSIVE SlotSpan(_)
(* the slot of a layout placed at the cursor, and the cursor after it *)
CursorStep(cursor, layout) ==
  IF layout.kind = "lane"
  THEN LET slot == IF layout.off < cursor.off THEN cursor.slot + 1 ELSE cursor.slot
       IN [slot |-> slot, next |-> Advance(slot, layout.off + layout.n)]
  ELSE [slot |-> Align(cursor), next |-> Cursor(Align(cursor) + SlotSpan(layout), 0)]
CursorAfter(layouts) == FoldLeft(LAMBDA cursor, layout : CursorStep(cursor, layout).next, Cursor(0, 0), layouts)
SlotSpan(layout) ==
  CASE layout.kind = "struct" -> Align(CursorAfter(layout.parts))
    [] layout.kind # "fixed" -> 1
    [] layout.parts[1].kind = "lane" -> (layout.n + PerSlot(layout.parts[1]) - 1) \div PerSlot(layout.parts[1])
    [] OTHER -> layout.n * SlotSpan(layout.parts[1])

FieldOffset(layouts, i) == CursorStep(CursorAfter(SubSeq(layouts, 1, i - 1)), layouts[i]).slot

(* a narrow member shares its slot with the one before it if it fits *)
PlaceInPackedCursor(placed, layout) ==
  IF layout.kind # "lane"
  THEN [parts |-> Append(placed.parts, layout), next |-> Cursor(Align(placed.next) + SlotSpan(layout), 0)]
  ELSE LET fits == placed.next.off + layout.n <= WordBytes
           off == IF fits THEN placed.next.off ELSE 0
           slot == IF fits THEN placed.next.slot ELSE placed.next.slot + 1
       IN [parts |-> Append(placed.parts, [layout EXCEPT !.off = off]), next |-> Advance(slot, off + layout.n)]
Packed(layouts) == FoldLeft(PlaceInPackedCursor, [parts |-> <<>>, next |-> Cursor(0, 0)], layouts).parts

ElementWidth(n) == IF n <= WordBytes \div 2 THEN n ELSE WordBytes
RECURSIVE LayoutOf(_)
MemberLayout(t) == IF t.kind = "word" THEN Lane(0, t.n) ELSE LayoutOf(t)
ElementLayout(t) == IF t.kind = "word" THEN Lane(0, ElementWidth(t.n)) ELSE LayoutOf(t)
PartLayouts(t) ==
  CASE t.kind = "struct" -> Packed([i \in DOMAIN t.parts |-> MemberLayout(t.parts[i])])
    [] t.kind = "mapping" -> <<LayoutOf(t.parts[1])>>
    [] OTHER -> [i \in DOMAIN t.parts |-> ElementLayout(t.parts[i])]
LayoutOf(t) ==
  IF t.kind = "word" THEN Lane(0, WordBytes)
  ELSE [kind |-> t.kind, n |-> t.n, off |-> 0, parts |-> PartLayouts(t)]

(* the state variables are packed as a struct's members *)
StorageFields(variables) == LayoutOf(variables)

-----------------------------------------------------------------------------
(* Words, slots and bytes.                                                 *)

WordBitRange(word, off, n) == (word \div ByteMod ^ off) % ByteMod ^ n
WordReplaceBitRange(word, off, n, value) ==
  word - WordBitRange(word, off, n) * ByteMod ^ off + (value % ByteMod ^ n) * ByteMod ^ off

Slot(region, at) == [region |-> region, at |-> at]
Plus(slot, d) == [slot EXCEPT !.at = @ + d]
MappingStorageSlot(slot, key) == Slot(Append(slot.region, <<slot.at, key>>), 0)
DynamicArrayDataSlot(slot) == MappingStorageSlot(slot, 0)

(* a slot that was never written reads as 0 *)
LoadSlot(s, slot) == IF slot \in DOMAIN s THEN s[slot] ELSE 0
StoreSlot(s, slot, word) ==
  LET others == Restrict(s, DOMAIN s \ {slot})
  IN IF word = 0 THEN others ELSE [x \in DOMAIN others \cup {slot} |-> IF x = slot THEN word ELSE others[x]]

Short == WordBytes - 1
Header(word) ==
  IF word % 2 = 0 THEN [length |-> (word % ByteMod) \div 2, long |-> FALSE]
  ELSE [length |-> (word - 1) \div 2, long |-> TRUE]
LongHeader(length) == length * 2 + 1
ChunkCount(length) == IF length <= Short THEN 0 ELSE (length + WordBytes - 1) \div WordBytes
BytesToWord(bytes) ==      \* left-aligned
  FoldLeft(LAMBDA word, i : word * ByteMod + (IF i <= Len(bytes) THEN bytes[i] ELSE 0), 0, [i \in 1 .. WordBytes |-> i])
ShortWord(bytes) == BytesToWord(bytes) + 2 * Len(bytes)

(* Mutant: the form a byte string had is not asked for. *)
ByteSlotByIndex(s, slot, index) ==
  IF index >= Short
  THEN [slot |-> Plus(DynamicArrayDataSlot(slot), index \div WordBytes), off |-> WordBytes - 1 - (index % WordBytes)]
  ELSE [slot |-> slot, off |-> WordBytes - 1 - index]
ByteSlotAndOffset(s, slot, index) ==     \* index from 0
  IF Header(LoadSlot(s, slot)).long
  THEN [slot |-> Plus(DynamicArrayDataSlot(slot), index \div WordBytes), off |-> WordBytes - 1 - (index % WordBytes)]
  ELSE [slot |-> slot, off |-> WordBytes - 1 - index]
LoadBytes(s, slot) ==
  <<>> \o [i \in 1 .. Header(LoadSlot(s, slot)).length |->
    LET b == ByteSlotAndOffset(s, slot, i - 1) IN WordBitRange(LoadSlot(s, b.slot), b.off, 1)]

StoreLongSlots(s, slot, bytes) ==
  LET StoreChunk(acc, k) ==
        StoreSlot(acc, Plus(DynamicArrayDataSlot(slot), k - 1),
                  BytesToWord(SubSeq(bytes, (k - 1) * WordBytes + 1, IF k * WordBytes < Len(bytes) THEN k * WordBytes ELSE Len(bytes))))
  IN FoldLeft(StoreChunk, s, [k \in 1 .. ChunkCount(Len(bytes)) |-> k])
ClearLongSlots(s, slot, from, to) ==
  FoldLeft(LAMBDA acc, k : StoreSlot(acc, Plus(DynamicArrayDataSlot(slot), k - 1), 0),
           s, [k \in 1 .. to - from |-> from + k])
StoreBytes(s, slot, bytes) ==
  LET old == ChunkCount(Header(LoadSlot(s, slot)).length)
      written ==
        IF Len(bytes) <= Short THEN StoreSlot(s, slot, ShortWord(bytes))
        ELSE StoreSlot(StoreLongSlots(s, slot, bytes), slot, LongHeader(Len(bytes)))
  IN ClearLongSlots(written, slot, ChunkCount(Len(bytes)), old)

PushByte(s, slot, byte) ==
  LET word == LoadSlot(s, slot)
      length == Header(word).length
      chunk == Plus(DynamicArrayDataSlot(slot), length \div WordBytes)
      lane == WordBytes - 1 - (length % WordBytes)
  IN CASE ~Header(word).long /\ length < Short ->
            StoreSlot(s, slot,
              WordReplaceBitRange(WordReplaceBitRange(word, lane, 1, byte), 0, 1, 2 * (length + 1)))
       [] Header(word).long ->
            StoreSlot(StoreSlot(s, chunk, WordReplaceBitRange(LoadSlot(s, chunk), lane, 1, byte)),
                      slot, LongHeader(length + 1))
       [] OTHER -> StoreBytes(s, slot, Append(LoadBytes(s, slot), byte))

-----------------------------------------------------------------------------
(* Places: [slot, layout].                                                 *)

Place(slot, layout) == [slot |-> slot, layout |-> layout]
Nowhere == [slot |-> Slot(<<>>, 0), layout |-> [kind |-> "nowhere", n |-> 0, off |-> 0, parts |-> <<>>]]

ElementAt(slot, layout, index) ==     \* index from 0
  IF layout.kind = "lane"
  THEN Place(Plus(slot, index \div PerSlot(layout)), [layout EXCEPT !.off = (index % PerSlot(layout)) * layout.n])
  ELSE Place(Plus(slot, index * SlotSpan(layout)), layout)

LengthAt(s, place) ==
  CASE place.layout.kind = "dynamic" -> LoadSlot(s, place.slot)
    [] place.layout.kind = "bytes" -> Header(LoadSlot(s, place.slot)).length
    [] place.layout.kind = "struct" -> Len(place.layout.parts)
    [] place.layout.kind = "lane" -> 0
    [] OTHER -> place.layout.n

PartAt(s, place, i) ==
  LET slot == place.slot
      parts == place.layout.parts
  IN CASE place.layout.kind = "struct" -> Place(Plus(slot, FieldOffset(parts, i)), parts[i])
       [] place.layout.kind = "mapping" -> Place(MappingStorageSlot(slot, i), parts[1])
       [] place.layout.kind = "fixed" -> ElementAt(slot, parts[1], i - 1)
       [] place.layout.kind = "dynamic" -> ElementAt(DynamicArrayDataSlot(slot), parts[1], i - 1)
       [] OTHER -> LET b == ByteSlotAndOffset(s, slot, i - 1) IN Place(b.slot, Lane(b.off, 1))

(* resolveStoragePathSlot; an index out of bounds panics *)
Resolve(s, place, path) ==
  FoldLeft(LAMBDA p, i : IF p = Nowhere \/ i > LengthAt(s, p) THEN Nowhere ELSE PartAt(s, p, i), place, path)

LoadLane(s, place) == WordBitRange(LoadSlot(s, place.slot), place.layout.off, place.layout.n)
StoreLane(s, place, value) ==
  StoreSlot(s, place.slot, WordReplaceBitRange(LoadSlot(s, place.slot), place.layout.off, place.layout.n, value))

Indexes(n) == [i \in 1 .. n |-> i]

RECURSIVE LoadAt(_, _)
LoadAt(s, place) ==
  CASE place.layout.kind = "lane" -> LoadLane(s, place)
    [] place.layout.kind = "bytes" -> LoadBytes(s, place.slot)
    [] OTHER -> [i \in 1 .. LengthAt(s, place) |-> LoadAt(s, PartAt(s, place, i))]

(* clearStorageLayoutAtDeep *)
RECURSIVE ClearAt(_, _)
ClearAt(s, place) ==
  CASE place.layout.kind = "lane" -> StoreLane(s, place, 0)
    [] place.layout.kind = "bytes" -> StoreBytes(s, place.slot, <<>>)
    [] place.layout.kind = "mapping" -> s
    [] OTHER ->
         LET parts == FoldLeft(LAMBDA acc, i : ClearAt(acc, PartAt(s, place, i)), s, Indexes(LengthAt(s, place)))
         IN IF place.layout.kind = "dynamic" THEN StoreSlot(parts, place.slot, 0) ELSE parts

(* Mutant: a shorter array leaves the rest of the longer one behind. *)
TailStays(s, place, from, to) == s
ClearTail(s, place, from, to) ==
  FoldLeft(LAMBDA acc, i : ClearAt(acc, PartAt(s, place, i)), s, [k \in 1 .. to - from |-> from + k])

(* a copy clears every word that packed elements are written to *)
ZeroPackedWords(s, place, n) ==
  IF place.layout.parts[1].kind # "lane" THEN s
  ELSE FoldLeft(LAMBDA acc, i : StoreSlot(acc, PartAt(s, place, i).slot, 0), s, Indexes(n))

(* storeStorageLayoutAtWithDeepClear; defaults fill a fixed array that is longer
   than its source *)
RECURSIVE StoreAt(_, _, _)
StoreAt(s, place, value) ==
  LET StorePart(acc, i) ==
        IF i <= Len(value) THEN StoreAt(acc, PartAt(s, place, i), value[i]) ELSE ClearAt(acc, PartAt(s, place, i))
  IN CASE place.layout.kind = "lane" -> StoreLane(s, place, value)
       [] place.layout.kind = "bytes" -> StoreBytes(s, place.slot, value)
       [] place.layout.kind = "dynamic" ->
            LET zeroed == ZeroPackedWords(s, place, Len(value))
                stored == FoldLeft(StorePart, zeroed, Indexes(Len(value)))
            IN StoreSlot(ClearTail(stored, place, Len(value), LengthAt(s, place)), place.slot, Len(value))
       [] OTHER -> FoldLeft(StorePart, s, Indexes(LengthAt(s, place)))

-----------------------------------------------------------------------------
VARIABLES
  contract,       \* the contract that runs
  fields,         \* Context.storageFields: the layout of its variables
  call,           \* the number of the statement to execute, or 0
  storage,        \* the slots that are not zero
  pointer,        \* Value.storageSlotRef, Nowhere before the local is bound
  tree,           \* history: what the slots hold
  bound,          \* history: the path it was bound to
  strayed         \* history: a statement went through a pointer past its array
vars == <<contract, fields, call, storage, pointer, tree, bound, strayed>>

Root == Place(Slot(<<>>, 0), fields)
Base(c) == IF c.base = "pointer" THEN pointer ELSE Root
Target(c) == Resolve(storage, Base(c), c.path)

(* a body pushes no further than the model's bound *)
Fits(c) ==
  (c.op \in {"push", "grow", "pushref"} /\ Target(c) # Nowhere) =>
    LengthAt(storage, Target(c)) < Target(c).layout.n

ArrayPush(place, value) ==
  IF place.layout.kind = "bytes" THEN PushByte(storage, place.slot, value)
  ELSE LET length == LengthAt(storage, place)
       IN StoreSlot(StoreAt(storage, PartAt(storage, place, length + 1), value), place.slot, length + 1)
ArrayGrow(place) ==
  IF place.layout.kind = "bytes" THEN PushByte(storage, place.slot, 0)
  ELSE StoreSlot(storage, place.slot, LengthAt(storage, place) + 1)
(* Mutant: only the length shrinks. *)
ArrayPopLength(place) ==
  IF place.layout.kind = "bytes" THEN StoreBytes(storage, place.slot, Front(LoadBytes(storage, place.slot)))
  ELSE StoreSlot(storage, place.slot, LengthAt(storage, place) - 1)
ArrayPop(place) ==
  LET length == LengthAt(storage, place)
  IN IF place.layout.kind = "bytes" THEN StoreBytes(storage, place.slot, Front(LoadBytes(storage, place.slot)))
     ELSE StoreSlot(ClearAt(storage, PartAt(storage, place, length)), place.slot, length - 1)

(* the tree in the slots, and in the cells past the lengths *)
RECURSIVE Content(_, _)
Content(s, place) ==
  CASE place.layout.kind = "lane" -> LoadLane(s, place)
    [] place.layout.kind = "bytes" -> LoadBytes(s, place.slot)
    [] place.layout.kind = "dynamic" ->
         [length |-> LengthAt(s, place), cells |-> [i \in 1 .. place.layout.n |-> Content(s, PartAt(s, place, i))]]
    [] OTHER -> [i \in 1 .. LengthAt(s, place) |-> Content(s, PartAt(s, place, i))]

Init ==
  /\ contract \in Contracts /\ call = 0
  /\ fields = StorageFields(contract.variables)
  /\ storage = [slot \in {} |-> 0] /\ tree = Content(storage, Root)
  /\ pointer = Nowhere /\ bound = <<>> /\ strayed = FALSE

(* a body's next statement *)
Choose ==
  /\ call = 0
  /\ \E k \in DOMAIN contract.body :
       /\ call' = k
       /\ LET c == contract.body[k] IN (c.base = "pointer" => pointer # Nowhere) /\ Fits(c)
  /\ UNCHANGED <<contract, fields, storage, pointer, tree, bound, strayed>>

Running == contract.body[call]
Reached == Target(Running)
Source == Resolve(storage, Root, Running.from)
Path == (IF Running.base = "pointer" THEN bound ELSE <<>>) \o Running.path

(* A revert leaves everything as it was. *)
Panics ==
  \/ Reached = Nowhere
  \/ Running.op = "pop" /\ LengthAt(storage, Reached) = 0
  \/ Running.op = "copy" /\ Source = Nowhere
Goes(op) == Running.op = op /\ ~Panics
Stores(new) == storage' = new /\ tree' = Content(new, Root)
Writes(new) == Stores(new) /\ UNCHANGED <<pointer, bound>>
Binds(place, path) == pointer' = place /\ bound' = path

Revert == Panics /\ UNCHANGED <<storage, tree, pointer, bound>>
Assign == Goes("assign") /\ Writes(StoreAt(storage, Reached, Running.value))
Copy == Goes("copy") /\ Writes(StoreAt(storage, Reached, LoadAt(storage, Source)))
Delete == Goes("delete") /\ Writes(ClearAt(storage, Reached))
Push == Goes("push") /\ Writes(ArrayPush(Reached, Running.value))
Grow == Goes("grow") /\ Writes(ArrayGrow(Reached))
Pop == Goes("pop") /\ Writes(ArrayPop(Reached))
(* the pointer is resolved here and not again *)
Bind == Goes("bind") /\ Binds(Reached, Path) /\ UNCHANGED <<storage, tree>>
PushRef ==
  /\ Goes("pushref")
  /\ Stores(ArrayGrow(Reached))
  /\ LET last == LengthAt(storage, Reached) + 1
     IN Binds(PartAt(storage, Reached, last), Append(Path, last))

Stray == Running.base = "pointer" /\ ~Live(contract.variables, tree, bound)
Execute ==
  /\ call # 0 /\ call' = 0
  /\ UNCHANGED <<contract, fields>>
  /\ strayed' = (strayed \/ Stray)
  /\ Revert \/ Assign \/ Copy \/ Delete \/ Push \/ Grow \/ Pop \/ Bind \/ PushRef

Next == Choose \/ Execute
Spec == Init /\ [][Next]_vars

-----------------------------------------------------------------------------
(* "solc NEVER splits a value element across a slot boundary"
   (Interpreter.lean:1599) and no two variables share a byte: whatever the types
   and the statements, the slots hold the tree of StorageSpec, in the bits and
   words the packing, the hashed data and the two forms of bytes give them, and a
   pointer resolved at its binding reaches what its path named. *)
Abs == INSTANCE StorageSpec
Implements == Abs!Spec

(* "the storage zero-invariant (slots past the length are zero, maintained by
   pop/delete)" (Interpreter.lean:5090-5092), on which push() without a value
   relies: whatever was popped, shortened, deleted or overwritten on any level,
   only a dangling pointer, and a mapping inside an element, leave something past
   an array's length. *)
RECURSIVE Tidy(_, _)
Tidy(t, old) ==
  CASE t.kind \in {"word", "bytes"} -> TRUE
    [] t.kind = "dynamic" ->
         \A i \in 1 .. t.n :
           /\ Tidy(t.parts[1], old.cells[i])
           /\ i > old.length => old.cells[i] = Abs!Cleared(t.parts[1], old.cells[i])
    [] OTHER -> \A i \in 1 .. Size(t) : Tidy(PartOf(t, i), old[i])
PastTheEndIsZero == ~strayed => Tidy(contract.variables, tree)
=============================================================================
