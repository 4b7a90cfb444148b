------------------------- MODULE HarnessCache_proofs -------------------------
(***************************************************************************)
(* What HarnessCache's runs check on a small instance, proved for all      *)
(* processes, workers, inputs, sizes and limits.                           *)
(***************************************************************************)
EXTENDS HarnessCache, SequenceTheorems, Recursion

Entries == Keys \X Values

-----------------------------------------------------------------------------
(* The size of a dictionary *)

LEMMA SizeIsNat == ASSUME NEW k \in Keys PROVE Size(k) \in Nat
BY HarnessCacheAssumption DEF Keys, Size

(* The recursive definition of Bytes has a solution, the running sums. *)
IsSum(f, m) ==
  f[0] = 0 /\ \A i \in 0 .. Len(m) - 1 : f[i + 1] = f[i] + Size(m[i + 1][1])

Adder(m) ==
  [i \in Nat |-> [x \in Nat |->
     IF i \in 1 .. Len(m) THEN x + Size(m[i][1]) ELSE x]]

LEMMA AdderFacts ==
  ASSUME NEW m \in Seq(Entries)
  PROVE  /\ Adder(m) \in [Nat -> [Nat -> Nat]]
         /\ \A f \in [0 .. Len(m) -> Nat] :
              IsSum(f, m) <=> Obeys(f, Len(m), 0, Adder(m))
<1>1. Len(m) \in Nat /\ \A i \in 1 .. Len(m) : Size(m[i][1]) \in Nat
  BY SizeIsNat DEF Entries
<1>2. Adder(m) \in [Nat -> [Nat -> Nat]]
  BY <1>1 DEF Adder
<1>3. ASSUME NEW f \in [0 .. Len(m) -> Nat], NEW i \in 0 .. Len(m) - 1
      PROVE  Adder(m)[i + 1][f[i]] = f[i] + Size(m[i + 1][1])
  <2>1. i + 1 \in 1 .. Len(m) /\ i + 1 \in Nat /\ i \in 0 .. Len(m)
    BY <1>1
  <2>2. f[i] \in Nat
    BY <2>1
  <2> QED BY <2>1, <2>2 DEF Adder
<1> QED BY <1>2, <1>3 DEF IsSum, Obeys

LEMMA BytesIsSum ==
  ASSUME NEW m \in Seq(Entries)
  PROVE  \E f \in [0 .. Len(m) -> Nat] : IsSum(f, m) /\ Bytes(m) = f[Len(m)]
<1> DEFINE n == Len(m)
<1>1. n \in Nat /\ \A i \in 1 .. n : Size(m[i][1]) \in Nat
  BY SizeIsNat DEF Entries
<1>3. PICK f \in [0 .. n -> Nat] : Obeys(f, n, 0, Adder(m))
  BY <1>1, AdderFacts, Recursion
<1>4. IsSum(f, m)
  BY <1>3, AdderFacts
<1> DEFINE Solves(s) ==
      s = [i \in 0 .. Len(m) |-> IF i = 0 THEN 0 ELSE s[i - 1] + Size(m[i][1])]
<1>5. Solves(f)
  <2>1. \A i \in 0 .. n : f[i] = IF i = 0 THEN 0 ELSE f[i - 1] + Size(m[i][1])
    <3> TAKE i \in 0 .. n
    <3>1. CASE i = 0
      BY <3>1, <1>4 DEF IsSum
    <3>2. CASE i # 0
      <4>1. i - 1 \in 0 .. n - 1 /\ (i - 1) + 1 = i
        BY <3>2, <1>1
      <4> QED BY <3>2, <4>1, <1>4 DEF IsSum
    <3> QED BY <3>1, <3>2
  <2> QED BY <2>1
<1> DEFINE g == CHOOSE s : Solves(s)
<1>6. Solves(g)
  <2> HIDE DEF Solves
  <2> QED BY <1>5
<1>7. Bytes(m) = g[n]
  BY DEF Bytes
<1> HIDE DEF g
<1>8. g[0] = 0 /\ \A i \in 0 .. n - 1 : g[i + 1] = g[i] + Size(m[i + 1][1])
  <2>1. \A i \in 0 .. n : g[i] = IF i = 0 THEN 0 ELSE g[i - 1] + Size(m[i][1])
    BY <1>6
  <2> QED BY <1>1, <2>1
<1> DEFINE S == {i \in Nat : i <= n => g[i] \in Nat}
<1>9. \A i \in Nat : i \in S
  <2>1. 0 \in S
    BY <1>8
  <2>2. \A i \in Nat : i \in S => i + 1 \in S
    BY <1>1, <1>8
  <2> HIDE DEF S
  <2> QED BY <2>1, <2>2, Induction
<1>10. g \in [0 .. n -> Nat]
  BY <1>6, <1>9
<1> QED
  BY <1>7, <1>8, <1>10 DEF IsSum

LEMMA SumIsBytes ==
  ASSUME NEW m \in Seq(Entries), NEW f \in [0 .. Len(m) -> Nat], IsSum(f, m)
  PROVE  Bytes(m) = f[Len(m)]
<1> DEFINE n == Len(m)
<1>1. PICK g \in [0 .. n -> Nat] : IsSum(g, m) /\ Bytes(m) = g[n]
  BY BytesIsSum
<1>2. n \in Nat
  OBVIOUS
<1>3. Obeys(f, n, 0, Adder(m)) /\ Obeys(g, n, 0, Adder(m))
  BY <1>1, AdderFacts
<1>4. f[n] = g[n]
  BY <1>2, <1>3, RecursionIsUnique
<1> QED BY <1>1, <1>4

LEMMA BytesOfNone == Bytes(<< >>) = 0
<1>1. << >> \in Seq(Entries) /\ Len(<< >>) = 0
  OBVIOUS
<1> QED BY <1>1, BytesIsSum DEF IsSum

LEMMA BytesIsNat == ASSUME NEW m \in Seq(Entries) PROVE Bytes(m) \in Nat
BY BytesIsSum

LEMMA BytesOfAppend ==
  ASSUME NEW m \in Seq(Entries), NEW e \in Entries
  PROVE  Bytes(Append(m, e)) = Bytes(m) + Size(e[1])
<1> DEFINE n == Len(m)
           a == Append(m, e)
<1>1. n \in Nat /\ a \in Seq(Entries) /\ Len(a) = n + 1 /\ a[n + 1] = e
      /\ \A i \in 1 .. n : a[i] = m[i]
  BY AppendProperties
<1>2. Size(e[1]) \in Nat
  BY SizeIsNat DEF Entries
<1>3. PICK f \in [0 .. n -> Nat] : IsSum(f, m) /\ Bytes(m) = f[n]
  BY BytesIsSum
<1> DEFINE g == [i \in 0 .. n + 1 |-> IF i = n + 1 THEN f[n] + Size(e[1]) ELSE f[i]]
<1>4. g \in [0 .. Len(a) -> Nat]
  BY <1>1, <1>2
<1>5. g[0] = 0
  BY <1>1, <1>3 DEF IsSum
<1>6. ASSUME NEW i \in 0 .. Len(a) - 1  PROVE g[i + 1] = g[i] + Size(a[i + 1][1])
  <2>1. CASE i = n
    BY <1>1, <2>1
  <2>2. CASE i # n
    <3>1. i \in 0 .. n - 1 /\ i + 1 \in 1 .. n /\ i + 1 # n + 1 /\ i # n + 1
          /\ i \in 0 .. n + 1 /\ i + 1 \in 0 .. n + 1
      BY <1>1, <2>2
    <3>2. g[i] = f[i] /\ g[i + 1] = f[i + 1]
      BY <3>1
    <3> HIDE DEF g, a, n
    <3>3. f[i + 1] = f[i] + Size(m[i + 1][1])
      BY <1>3, <3>1 DEF IsSum, n
    <3> QED BY <1>1, <3>1, <3>2, <3>3
  <2> QED BY <2>1, <2>2
<1>7. g[n + 1] = f[n] + Size(e[1])
  BY <1>1
<1> HIDE DEF g, a, n
<1>8. IsSum(g, a)
  BY <1>5, <1>6 DEF IsSum
<1>9. Bytes(a) = g[n + 1]
  BY <1>1, <1>4, <1>8, SumIsBytes
<1> QED BY <1>3, <1>7, <1>9 DEF a

LEMMA BytesOfConcat ==
  ASSUME NEW l \in Seq(Entries), NEW m \in Seq(Entries)
  PROVE  Bytes(l \o m) = Bytes(l) + Bytes(m)
<1> DEFINE S == {n \in Nat : \A r \in Seq(Entries) :
                   Len(r) = n => Bytes(l \o r) = Bytes(l) + Bytes(r)}
<1>1. 0 \in S
  <2> SUFFICES ASSUME NEW r \in Seq(Entries), Len(r) = 0
               PROVE  Bytes(l \o r) = Bytes(l) + Bytes(r)
    OBVIOUS
  <2>1. r = << >> /\ l \o r = l
    BY EmptySeq, ConcatEmptySeq
  <2> QED BY <2>1, BytesOfNone, BytesIsNat
<1>2. ASSUME NEW n \in Nat, n \in S  PROVE n + 1 \in S
  <2> SUFFICES ASSUME NEW r \in Seq(Entries), Len(r) = n + 1
               PROVE  Bytes(l \o r) = Bytes(l) + Bytes(r)
    OBVIOUS
  <2>1. PICK q \in Seq(Entries), e \in Entries : r = Append(q, e)
    BY SequenceEmptyOrAppend, SMTT(30)
  <2>2. Len(q) = n /\ l \o q \in Seq(Entries)
    BY <2>1, AppendProperties, ConcatProperties
  <2>3. Append(l \o q, e) = l \o r
    <3>1. r = q \o <<e>> /\ Append(l \o q, e) = (l \o q) \o <<e>> /\ <<e>> \in Seq(Entries)
      BY <2>1, <2>2, AppendIsConcat
    <3> QED BY <3>1, ConcatAssociative, SMTT(30)
  <2>4. Bytes(l \o q) = Bytes(l) + Bytes(q)
    BY <1>2, <2>2
  <2>5. Bytes(l \o r) = Bytes(l \o q) + Size(e[1]) /\ Bytes(r) = Bytes(q) + Size(e[1])
    BY <2>1, <2>2, <2>3, BytesOfAppend
  <2>6. Size(e[1]) \in Nat /\ Bytes(l) \in Nat /\ Bytes(q) \in Nat
    BY SizeIsNat, BytesIsNat DEF Entries
  <2> QED BY <2>4, <2>5, <2>6
<1> HIDE DEF S
<1>3. \A n \in Nat : n \in S
  BY <1>1, <1>2, Induction
<1> QED BY <1>3 DEF S

-----------------------------------------------------------------------------
(* The operations on a dictionary *)

Distinct(m) == \A i, j \in 1 .. Len(m) : m[i][1] = m[j][1] => i = j

(* Every entry of l is one of m. *)
From(l, m) == \A i \in 1 .. Len(l) : \E j \in 1 .. Len(m) : l[i] = m[j]

LEMMA PositionFacts ==
  ASSUME NEW m \in Seq(Entries), NEW k, Stored(m, k) # {}
  PROVE  Position(m, k) \in 1 .. Len(m) /\ m[Position(m, k)][1] = k
<1>1. \E i \in DOMAIN m : m[i][1] = k
  BY DEF Stored
<1>2. DOMAIN m = 1 .. Len(m)
  OBVIOUS
<1> QED BY <1>1, <1>2 DEF Position

LEMMA RemoveFacts ==
  ASSUME NEW m \in Seq(Entries), NEW p \in 1 .. Len(m), Distinct(m)
  PROVE  LET r == RemoveAt(m, p) IN
         /\ r \in Seq(Entries) /\ Len(r) = Len(m) - 1
         /\ Distinct(r) /\ From(r, m)
         /\ \A i \in 1 .. Len(r) : r[i][1] # m[p][1]
         /\ Bytes(r) = Bytes(m) - Size(m[p][1])
<1> DEFINE n == Len(m)
           l == SubSeq(m, 1, p - 1)
           u == SubSeq(m, p + 1, n)
           r == RemoveAt(m, p)
<1>1. n \in Nat /\ p \in 1 .. n /\ p \in Nat /\ \A i \in 1 .. n : m[i] \in Entries
  OBVIOUS
<1>2. l \in Seq(Entries) /\ Len(l) = p - 1 /\ \A i \in 1 .. p - 1 : l[i] = m[i]
  <2>1. \A i \in 1 .. p - 1 : m[i] \in Entries
    BY <1>1
  <2> QED BY <1>1, <2>1, SubSeqProperties
<1>3. u \in Seq(Entries) /\ Len(u) = n - p /\ \A i \in 1 .. n - p : u[i] = m[p + i]
  <2>1. \A i \in p + 1 .. n : m[i] \in Entries
    BY <1>1
  <2> QED BY <1>1, <2>1, SubSeqProperties
<1>4. r = l \o u
  BY DEF RemoveAt
<1> HIDE DEF l, u, r
<1>5. r \in Seq(Entries) /\ Len(r) = n - 1
      /\ \A i \in 1 .. n - 1 : r[i] = IF i < p THEN m[i] ELSE m[i + 1]
  <2>1. r \in Seq(Entries) /\ Len(r) = n - 1
    <3>1. r \in Seq(Entries) /\ Len(r) = Len(l) + Len(u)
      BY <1>2, <1>3, <1>4, ConcatProperties
    <3> QED BY <1>1, <1>2, <1>3, <3>1
  <2>2. \A i \in 1 .. n - 1 : r[i] = IF i <= Len(l) THEN l[i] ELSE u[i - Len(l)]
    BY <1>1, <1>2, <1>3, <1>4, ConcatProperties
  <2>3. ASSUME NEW i \in 1 .. n - 1  PROVE r[i] = IF i < p THEN m[i] ELSE m[i + 1]
    <3>1. CASE i < p
      BY <1>1, <1>2, <2>2, <3>1
    <3>2. CASE ~(i < p)
      <4>1. i - (p - 1) \in 1 .. n - p /\ p + (i - (p - 1)) = i + 1 /\ ~(i <= p - 1)
        BY <1>1, <3>2
      <4> QED BY <1>2, <1>3, <2>2, <3>2, <4>1
    <3> QED BY <3>1, <3>2
  <2> QED BY <2>1, <2>3
<1>6. Bytes(r) = Bytes(m) - Size(m[p][1])
  <2>1. SubSeq(m, 1, p) = Append(l, m[p]) /\ SubSeq(m, 1, p) \in Seq(Entries)
    <3>1. \A i \in 1 .. p : m[i] \in Entries
      BY <1>1
    <3>2. Append(l, m[p]) \in Seq(Entries) /\ Len(Append(l, m[p])) = p
          /\ \A i \in 1 .. p : Append(l, m[p])[i] = m[i]
      <4>1. m[p] \in Entries /\ (p - 1) + 1 = p
        BY <1>1
      <4>2. /\ Append(l, m[p]) \in Seq(Entries) /\ Len(Append(l, m[p])) = p
            /\ \A i \in 1 .. p - 1 : Append(l, m[p])[i] = l[i]
            /\ Append(l, m[p])[p] = m[p]
        BY <1>2, <4>1, AppendProperties
      <4>3. ASSUME NEW i \in 1 .. p  PROVE Append(l, m[p])[i] = m[i]
        <5>1. i = p \/ i \in 1 .. p - 1
          BY <1>1
        <5> QED BY <1>2, <4>2, <5>1
      <4> QED BY <4>2, <4>3
    <3>3. SubSeq(m, 1, p) \in Seq(Entries) /\ Len(SubSeq(m, 1, p)) = p
          /\ \A i \in 1 .. p : SubSeq(m, 1, p)[i] = m[i]
      BY <1>1, <3>1, SubSeqProperties
    <3> QED BY <3>2, <3>3, SeqEqual
  <2>2. m = SubSeq(m, 1, p) \o u
    BY <1>1, ConcatAdjacentSubSeq, SubSeqFull DEF u
  <2>3. Bytes(m) = Bytes(l) + Size(m[p][1]) + Bytes(u)
    <3> DEFINE s == SubSeq(m, 1, p)
    <3>1. Bytes(s) = Bytes(l) + Size(m[p][1])
      BY <1>1, <1>2, <2>1, BytesOfAppend
    <3>2. s \in Seq(Entries) /\ m = s \o u
      BY <2>1, <2>2
    <3> HIDE DEF s, l, u
    <3>3. Bytes(m) = Bytes(s) + Bytes(u)
      BY <1>3, <3>2, BytesOfConcat
    <3> QED BY <3>1, <3>3
  <2>4. Bytes(r) = Bytes(l) + Bytes(u)
    BY <1>2, <1>3, <1>4, BytesOfConcat
  <2>5. Bytes(l) \in Nat /\ Bytes(u) \in Nat /\ Size(m[p][1]) \in Nat
    BY <1>1, <1>2, <1>3, BytesIsNat, SizeIsNat DEF Entries
  <2> QED BY <2>3, <2>4, <2>5
<1>7. \A i \in 1 .. n - 1 : r[i][1] # m[p][1]
  BY <1>1, <1>5 DEF Distinct
<1>8. Distinct(r)
  BY <1>1, <1>5, SMTT(30) DEF Distinct
<1>9. From(r, m)
  BY <1>1, <1>5 DEF From
<1> QED BY <1>5, <1>6, <1>7, <1>8, <1>9 DEF r

LEMMA WithoutFacts ==
  ASSUME NEW m \in Seq(Entries), NEW k \in Keys, Distinct(m)
  PROVE  LET r == Without(m, k) IN
         /\ r \in Seq(Entries) /\ Len(r) <= Len(m)
         /\ Distinct(r) /\ From(r, m)
         /\ \A i \in 1 .. Len(r) : r[i][1] # k
         /\ Bytes(r) = LeftAfterPop(m, Bytes(m), k)
<1>1. CASE Stored(m, k) = {}
  <2>1. ASSUME NEW i \in 1 .. Len(m)  PROVE m[i][1] # k
    <3>1. i \in DOMAIN m
      OBVIOUS
    <3> QED BY <1>1, <3>1 DEF Stored
  <2> QED BY <1>1, <2>1 DEF Without, LeftAfterPop, From
<1>2. CASE Stored(m, k) # {}
  <2>1. Position(m, k) \in 1 .. Len(m) /\ m[Position(m, k)][1] = k
    BY <1>2, PositionFacts
  <2> DEFINE r == RemoveAt(m, Position(m, k))
  <2>2. Without(m, k) = r /\ LeftAfterPop(m, Bytes(m), k) = Bytes(m) - Size(k)
    BY <1>2 DEF Without, LeftAfterPop
  <2>3. /\ r \in Seq(Entries) /\ Len(r) = Len(m) - 1 /\ Distinct(r) /\ From(r, m)
        /\ \A i \in 1 .. Len(r) : r[i][1] # k
        /\ Bytes(r) = Bytes(m) - Size(k)
    BY <2>1, RemoveFacts
  <2>4. Len(m) \in Nat
    OBVIOUS
  <2> HIDE DEF r
  <2> QED BY <2>2, <2>3, <2>4
<1> QED BY <1>1, <1>2

(* An entry with a key that is not there goes to the end. *)
LEMMA AppendFacts ==
  ASSUME NEW m \in Seq(Entries), Distinct(m), NEW e \in Entries,
         \A i \in 1 .. Len(m) : m[i][1] # e[1]
  PROVE  /\ Append(m, e) \in Seq(Entries) /\ Len(Append(m, e)) = Len(m) + 1
         /\ Append(m, e)[Len(m) + 1] = e
         /\ \A i \in 1 .. Len(m) : Append(m, e)[i] = m[i]
         /\ Distinct(Append(m, e))
<1>1. /\ Append(m, e) \in Seq(Entries) /\ Len(Append(m, e)) = Len(m) + 1
      /\ Append(m, e)[Len(m) + 1] = e
      /\ \A i \in 1 .. Len(m) : Append(m, e)[i] = m[i]
      /\ Len(m) \in Nat
  BY AppendProperties
<1> QED BY <1>1 DEF Distinct

LEMMA MoveFacts ==
  ASSUME NEW m \in Seq(Entries), NEW k \in Keys, Distinct(m), Stored(m, k) # {}
  PROVE  LET r == MoveToEnd(m, k) IN
         /\ r \in Seq(Entries) /\ Len(r) = Len(m) /\ Distinct(r) /\ From(r, m)
         /\ Bytes(r) = Bytes(m)
<1> DEFINE p == Position(m, k)
           w == Without(m, k)
           r == MoveToEnd(m, k)
<1>1. p \in 1 .. Len(m) /\ m[p][1] = k /\ m[p] \in Entries
  BY PositionFacts
<1>2. w = RemoveAt(m, p) /\ r = Append(w, m[p])
  BY DEF Without, MoveToEnd
<1> HIDE DEF w, r, p
<1>3. /\ w \in Seq(Entries) /\ Len(w) = Len(m) - 1 /\ Distinct(w) /\ From(w, m)
      /\ \A i \in 1 .. Len(w) : w[i][1] # m[p][1]
      /\ Bytes(w) = Bytes(m) - Size(m[p][1])
  BY <1>1, <1>2, RemoveFacts
<1>4. /\ r \in Seq(Entries) /\ Len(r) = Len(w) + 1 /\ Distinct(r)
      /\ r[Len(w) + 1] = m[p] /\ \A i \in 1 .. Len(w) : r[i] = w[i]
  BY <1>1, <1>2, <1>3, AppendFacts
<1>5. Bytes(r) = Bytes(w) + Size(m[p][1])
  BY <1>1, <1>2, <1>3, BytesOfAppend
<1>6. Bytes(m) \in Nat /\ Size(m[p][1]) \in Nat /\ Len(m) \in Nat
  BY <1>1, BytesIsNat, SizeIsNat
<1>7. From(r, m)
  BY <1>1, <1>3, <1>4, <1>6 DEF From
<1> QED BY <1>3, <1>4, <1>5, <1>6, <1>7 DEF r

(* What is left when the oldest entries have been dropped. *)
LEMMA SuffixFacts ==
  ASSUME NEW m \in Seq(Entries), Distinct(m), NEW i \in 1 .. Len(m) + 1
  PROVE  LET r == SubSeq(m, i, Len(m)) IN
         /\ r \in Seq(Entries) /\ Len(r) = Len(m) - i + 1
         /\ \A j \in 1 .. Len(r) : r[j] = m[i + j - 1]
         /\ Distinct(r) /\ From(r, m)
         /\ Bytes(r) = Bytes(m) - Bytes(SubSeq(m, 1, i - 1))
<1> DEFINE n == Len(m)
           r == SubSeq(m, i, n)
           l == SubSeq(m, 1, i - 1)
<1>1. n \in Nat /\ i \in Nat /\ i >= 1 /\ i <= n + 1 /\ \A j \in 1 .. n : m[j] \in Entries
  OBVIOUS
<1>2. r \in Seq(Entries) /\ Len(r) = n - i + 1 /\ \A j \in 1 .. n - i + 1 : r[j] = m[i + j - 1]
  <2>1. \A j \in i .. n : m[j] \in Entries
    BY <1>1
  <2> QED BY <1>1, <2>1, SubSeqProperties
<1>3. l \in Seq(Entries)
  <2>1. \A j \in 1 .. i - 1 : m[j] \in Entries
    BY <1>1
  <2> QED BY <1>1, <2>1, SubSeqProperties
<1>4. l \o r = m
  <2>1. 1 \in 1 .. Len(m) + 1 /\ i - 1 \in 1 - 1 .. Len(m) /\ Len(m) \in i - 1 .. Len(m)
        /\ (i - 1) + 1 = i
    BY <1>1
  <2>2. l \o r = SubSeq(m, 1, n)
    BY <2>1, ConcatAdjacentSubSeq
  <2> QED BY <2>2, SubSeqFull
<1> HIDE DEF l, r
<1>5. Bytes(m) = Bytes(l) + Bytes(r) /\ Bytes(l) \in Nat /\ Bytes(r) \in Nat
  BY <1>2, <1>3, <1>4, BytesOfConcat, BytesIsNat
<1>6. \A j \in 1 .. Len(r) : r[j] = m[i + j - 1] /\ i + j - 1 \in 1 .. n
  BY <1>1, <1>2
<1>7. From(r, m)
  BY <1>6 DEF From
<1>8. Distinct(r)
  <2> SUFFICES ASSUME NEW j \in 1 .. Len(r), NEW h \in 1 .. Len(r), r[j][1] = r[h][1]
               PROVE  j = h
    BY DEF Distinct
  <2>1. PICK a \in 1 .. n : a = i + j - 1 /\ r[j] = m[a]
    BY <1>6
  <2>2. PICK b \in 1 .. n : b = i + h - 1 /\ r[h] = m[b]
    BY <1>6
  <2>3. a = b
    BY <2>1, <2>2 DEF Distinct
  <2> QED BY <1>1, <1>2, <2>1, <2>2, <2>3
<1> QED BY <1>1, <1>2, <1>5, <1>7, <1>8 DEF l, r

(* put pops the key, appends the entry and drops what has no room.  The    *)
(* entry itself always has room, which is why the loop ends.               *)
LEMMA PutFacts ==
  ASSUME NEW m \in Seq(Entries), Distinct(m), NEW k \in Keys, NEW v \in Values,
         ~TooLarge(k)
  PROVE  LET a == Append(Without(m, k), <<k, v>>)
             b == LeftAfterPop(m, Bytes(m), k) + Size(k)
             i == FirstKept(a, b)
             r == SubSeq(a, i, Len(a))
         IN  /\ r \in Seq(Entries) /\ Distinct(r)
             /\ Len(r) \in 1 .. MaxEntries /\ r[Len(r)] = <<k, v>>
             /\ \A j \in 1 .. Len(r) : r[j] = <<k, v>> \/ \E h \in 1 .. Len(m) : r[j] = m[h]
             /\ b - Bytes(SubSeq(a, 1, i - 1)) = Bytes(r)
             /\ Bytes(r) <= MaxEntry
<1> DEFINE w == Without(m, k)
           e == <<k, v>>
           a == Append(w, e)
           b == LeftAfterPop(m, Bytes(m), k) + Size(k)
           i == FirstKept(a, b)
           r == SubSeq(a, i, Len(a))
<1>1. e \in Entries /\ e[1] = k /\ Size(k) \in Nat /\ Size(k) <= MaxEntry
  BY SizeIsNat, HarnessCacheAssumption DEF Entries, TooLarge
<1>2. /\ w \in Seq(Entries) /\ Distinct(w) /\ From(w, m)
      /\ \A j \in 1 .. Len(w) : w[j][1] # k
      /\ Bytes(w) = LeftAfterPop(m, Bytes(m), k)
  BY WithoutFacts
<1> HIDE DEF w
<1>3. /\ a \in Seq(Entries) /\ Len(a) = Len(w) + 1 /\ a[Len(w) + 1] = e
      /\ \A j \in 1 .. Len(w) : a[j] = w[j]
      /\ Distinct(a)
  BY <1>1, <1>2, AppendFacts
<1>4. b = Bytes(a)
  BY <1>1, <1>2, BytesOfAppend
<1> HIDE DEF a, b, e
<1> DEFINE n == Len(a)
           Fits(j) == /\ n - j + 1 <= MaxEntries
                      /\ b - Bytes(SubSeq(a, 1, j - 1)) <= MaxEntry \/ j = n + 1
           S == {j \in 1 .. (n + 1) : Fits(j)}
<1>5. n \in Nat /\ n = Len(w) + 1 /\ Len(w) \in Nat /\ MaxEntries \in Nat /\ MaxEntries >= 1
  BY <1>2, <1>3, HarnessCacheAssumption
<1>6. n \in S
  <2>1. Bytes(SubSeq(a, n, n)) = b - Bytes(SubSeq(a, 1, n - 1))
    BY <1>3, <1>4, <1>5, SuffixFacts
  <2>2. SubSeq(a, n, n) = Append(<< >>, e) /\ << >> \in Seq(Entries)
    <3>1. \A j \in n .. n : a[j] \in Entries
      BY <1>3, <1>5
    <3>2. SubSeq(a, n, n) \in Seq(Entries) /\ Len(SubSeq(a, n, n)) = 1
          /\ SubSeq(a, n, n)[1] = a[n]
      BY <1>3, <1>5, <3>1, SubSeqProperties
    <3>3. << >> \in Seq(Entries) /\ Append(<< >>, e) = <<e>> /\ <<e>> \in Seq(Entries)
      BY <1>1
    <3>4. a[n] = e
      BY <1>3, <1>5
    <3>5. SubSeq(a, n, n) = <<e>>
      <4> DEFINE u == SubSeq(a, n, n)
                 q == <<e>>
      <4>1. u \in Seq(Entries) /\ q \in Seq(Entries) /\ Len(u) = 1 /\ Len(q) = 1
            /\ u[1] = e /\ q[1] = e
        BY <3>2, <3>3, <3>4
      <4> HIDE DEF u, q
      <4>2. \A j \in 1 .. Len(u) : u[j] = q[j]
        BY <4>1
      <4>3. u = q
        BY <4>1, <4>2, SeqEqual
      <4> QED BY <4>3 DEF u, q
    <3> QED BY <3>3, <3>5
  <2>3. Bytes(SubSeq(a, n, n)) = Size(k)
    <3>1. Bytes(Append(<< >>, e)) = Bytes(<< >>) + Size(e[1])
      BY <1>1, <2>2, BytesOfAppend
    <3> QED BY <1>1, <2>2, <3>1, BytesOfNone
  <2>4. b - Bytes(SubSeq(a, 1, n - 1)) <= MaxEntry
    BY <1>1, <2>1, <2>3
  <2>5. n \in 1 .. (n + 1) /\ n - n + 1 <= MaxEntries
    BY <1>5
  <2> QED BY <2>4, <2>5
<1>7. i \in S /\ i <= n
  <2>1. i = Min(S)
    BY DEF FirstKept
  <2>2. S \in SUBSET Nat
    BY <1>5
  <2> HIDE DEF S, i
  <2>3. \E j \in S : \A h \in S : j <= h
    BY <1>6, <2>2, LeastNumber
  <2>4. i \in S /\ \A h \in S : i <= h
    BY <2>1, <2>3 DEF Min
  <2> QED BY <1>6, <2>4
<1> HIDE DEF i
<1>8. i \in 1 .. n /\ i \in 1 .. Len(a) + 1 /\ n - i + 1 <= MaxEntries
      /\ b - Bytes(SubSeq(a, 1, i - 1)) <= MaxEntry
  BY <1>5, <1>7
<1>9. /\ r \in Seq(Entries) /\ Len(r) = n - i + 1
      /\ \A j \in 1 .. Len(r) : r[j] = a[i + j - 1]
      /\ Distinct(r) /\ From(r, a)
      /\ Bytes(r) = Bytes(a) - Bytes(SubSeq(a, 1, i - 1))
  BY <1>3, <1>8, SuffixFacts
<1> HIDE DEF r
<1>10. Len(r) \in 1 .. MaxEntries /\ r[Len(r)] = e
  <2>1. Len(r) \in 1 .. MaxEntries /\ Len(r) \in 1 .. Len(r) /\ i + Len(r) - 1 = Len(w) + 1
    BY <1>5, <1>8, <1>9
  <2> QED BY <1>3, <1>9, <2>1
<1>11. \A j \in 1 .. Len(r) : r[j] = e \/ \E h \in 1 .. Len(m) : r[j] = m[h]
  <2> TAKE j \in 1 .. Len(r)
  <2>1. PICK h \in 1 .. Len(a) : r[j] = a[h]
    BY <1>9 DEF From
  <2>2. h = Len(w) + 1 \/ h \in 1 .. Len(w)
    BY <1>3, <1>5
  <2> QED BY <1>2, <1>3, <2>1, <2>2 DEF From
<1>12. Bytes(r) = b - Bytes(SubSeq(a, 1, i - 1)) /\ Bytes(r) <= MaxEntry
  BY <1>4, <1>8, <1>9
<1> QED BY <1>9, <1>10, <1>11, <1>12 DEF w, a, b, e, i, r

-----------------------------------------------------------------------------
(* The invariant *)

MemoryOK ==
  \A p \in Procs :
    /\ bytes[p] = Bytes(memory[p]) /\ bytes[p] <= MaxEntry
    /\ Len(memory[p]) <= MaxEntries /\ Distinct(memory[p])

(* A worker has a key during a call, and after its computation the value of *)
(* that key.                                                                *)
Late == {"publish", "open", "write", "replace", "unlink"}
StageOK ==
  \A w \in Workers :
    /\ pc[w] = "idle" <=> key[w] = NoKey
    /\ pc[w] \in Late => <<key[w], value[w]>> \in computed

(* What is kept was computed for the key it is kept under. *)
Known ==
  /\ \A p \in Procs : \A i \in 1 .. Len(memory[p]) : memory[p][i] \in computed
  /\ \A k \in Keys : disk[k] \in Values => <<k, disk[k]>> \in computed

Inv == TypeOK /\ MemoryOK /\ StageOK /\ Known

LEMMA InvInit == Init => Inv
<1> SUFFICES ASSUME Init PROVE Inv
  OBVIOUS
<1>1. << >> \in Seq(Entries) /\ Len(<< >>) = 0 /\ Distinct(<< >>)
  BY DEF Distinct
<1>2. TypeOK
  BY <1>1, HarnessCacheAssumption DEF Init, TypeOK, PCs, Entries, Values
<1>3. MemoryOK
  BY <1>1, BytesOfNone, HarnessCacheAssumption DEF Init, MemoryOK
<1>4. StageOK
  BY DEF Init, StageOK, Late
<1>5. Known
  BY <1>1, HarnessCacheAssumption DEF Init, Known, Values, Keys
<1> QED BY <1>2, <1>3, <1>4, <1>5 DEF Inv

(* The memory, and what of the invariant speaks of it only *)
MemoryInv ==
  /\ memory \in [Procs -> Seq(Entries)] /\ bytes \in [Procs -> Nat] /\ MemoryOK
  /\ \A p \in Procs : \A i \in 1 .. Len(memory[p]) : memory[p][i] \in computed

LEMMA InvIsMemoryInv == Inv => MemoryInv
BY DEF Inv, TypeOK, Known, MemoryInv, Entries

(* One memory is replaced by another that is as good. *)
Fits(m) ==
  /\ m \in Seq(Entries) /\ Distinct(m) /\ Len(m) <= MaxEntries /\ Bytes(m) <= MaxEntry
  /\ \A i \in 1 .. Len(m) : m[i] \in computed

LEMMA MemoryReplaced ==
  ASSUME MemoryInv, computed' = computed,
         NEW p \in Procs, NEW m, Fits(m),
         memory' = [memory EXCEPT ![p] = m], bytes' = [bytes EXCEPT ![p] = Bytes(m)]
  PROVE  MemoryInv'
<1> USE DEF Fits
<1>1. Bytes(m) \in Nat
  BY BytesIsNat
<1>2. memory' \in [Procs -> Seq(Entries)] /\ bytes' \in [Procs -> Nat]
  BY <1>1 DEF MemoryInv
<1>3. ASSUME NEW q \in Procs
      PROVE  /\ bytes'[q] = Bytes(memory'[q]) /\ bytes'[q] <= MaxEntry
             /\ Len(memory'[q]) <= MaxEntries /\ Distinct(memory'[q])
             /\ \A i \in 1 .. Len(memory'[q]) : memory'[q][i] \in computed'
  <2>1. CASE q = p
    <3>1. memory'[q] = m /\ bytes'[q] = Bytes(m)
      BY <2>1 DEF MemoryInv
    <3> QED BY <3>1
  <2>2. CASE q # p
    <3>1. memory'[q] = memory[q] /\ bytes'[q] = bytes[q]
      BY <2>2 DEF MemoryInv
    <3> QED BY <3>1 DEF MemoryInv, MemoryOK
  <2> QED BY <2>1, <2>2
<1> QED BY <1>2, <1>3 DEF MemoryInv, MemoryOK

LEMMA HitKeepsMemory ==
  ASSUME Inv, NEW w \in Workers, LookInMemory(w)
  PROVE  MemoryInv'
<1> DEFINE p == ProcOf[w]
           k == key[w]
           m == MoveToEnd(memory[p], k)
<1>1. MemoryInv /\ p \in Procs /\ computed' = computed /\ bytes' = bytes
  BY InvIsMemoryInv, HarnessCacheAssumption DEF LookInMemory
<1>2. CASE Stored(memory[p], k) = {}
  BY <1>1, <1>2 DEF LookInMemory, MemoryInv, MemoryOK
<1>3. CASE Stored(memory[p], k) # {}
  <2>1. memory' = [memory EXCEPT ![p] = m]
    BY <1>3 DEF LookInMemory
  <2>2. /\ memory[p] \in Seq(Entries) /\ Distinct(memory[p])
        /\ bytes[p] = Bytes(memory[p]) /\ bytes[p] <= MaxEntry
        /\ Len(memory[p]) <= MaxEntries
        /\ \A i \in 1 .. Len(memory[p]) : memory[p][i] \in computed
    BY <1>1 DEF MemoryInv, MemoryOK
  <2>3. k \in Keys
    BY DEF Inv, TypeOK, StageOK, LookInMemory
  <2>4. /\ m \in Seq(Entries) /\ Len(m) = Len(memory[p]) /\ Distinct(m)
        /\ From(m, memory[p]) /\ Bytes(m) = Bytes(memory[p])
    BY <1>3, <2>2, <2>3, MoveFacts
  <2> HIDE DEF m
  <2>5. \A i \in 1 .. Len(m) : m[i] \in computed
    BY <2>2, <2>4 DEF From
  <2>6. bytes' = [bytes EXCEPT ![p] = Bytes(m)]
    BY <1>1, <2>2, <2>4 DEF MemoryInv
  <2>7. Fits(m)
    BY <2>2, <2>4, <2>5 DEF Fits
  <2> QED BY <1>1, <2>1, <2>6, <2>7, MemoryReplaced
<1> QED BY <1>2, <1>3

LEMMA PutKeepsMemory ==
  ASSUME Inv, NEW w \in Workers, Publish(w)
  PROVE  /\ MemoryInv'
         /\ TooLarge(key[w]) => memory' = memory
         /\ ~TooLarge(key[w]) => value[w] \in Stored(memory'[ProcOf[w]], key[w])
<1> DEFINE p == ProcOf[w]
           k == key[w]
           v == value[w]
<1>1. MemoryInv /\ p \in Procs /\ computed' = computed
  BY InvIsMemoryInv, HarnessCacheAssumption DEF Publish
<1>2. CASE TooLarge(k)
  BY <1>1, <1>2 DEF Publish, MemoryInv, MemoryOK, shared
<1>3. CASE ~TooLarge(k)
  <2> DEFINE a == Append(Without(memory[p], k), <<k, v>>)
             b == LeftAfterPop(memory[p], Bytes(memory[p]), k) + Size(k)
             i == FirstKept(a, b)
             m == SubSeq(a, i, Len(a))
  <2>1. /\ memory[p] \in Seq(Entries) /\ Distinct(memory[p])
        /\ bytes[p] = Bytes(memory[p])
        /\ \A j \in 1 .. Len(memory[p]) : memory[p][j] \in computed
    BY <1>1 DEF MemoryInv, MemoryOK
  <2>2. k \in Keys /\ v \in Values /\ <<k, v>> \in computed
    BY DEF Inv, TypeOK, StageOK, Publish, Late
  <2>3. /\ memory' = [memory EXCEPT ![p] = m]
        /\ bytes' = [bytes EXCEPT ![p] = b - Bytes(SubSeq(a, 1, i - 1))]
    BY <1>3, <2>1 DEF Publish, PutInMemory
  <2>4. /\ m \in Seq(Entries) /\ Distinct(m)
        /\ Len(m) \in 1 .. MaxEntries /\ m[Len(m)] = <<k, v>>
        /\ \A j \in 1 .. Len(m) : m[j] = <<k, v>> \/ \E h \in 1 .. Len(memory[p]) : m[j] = memory[p][h]
        /\ b - Bytes(SubSeq(a, 1, i - 1)) = Bytes(m)
        /\ Bytes(m) <= MaxEntry
    BY <1>3, <2>1, <2>2, PutFacts
  <2> HIDE DEF a, b, i, m
  <2>5. \A j \in 1 .. Len(m) : m[j] \in computed
    BY <2>1, <2>2, <2>4
  <2>6. MemoryInv'
    <3>1. Len(m) <= MaxEntries
      BY <2>4, HarnessCacheAssumption
    <3>2. bytes' = [bytes EXCEPT ![p] = Bytes(m)]
      BY <2>3, <2>4
    <3>3. Fits(m)
      BY <2>4, <2>5, <3>1 DEF Fits
    <3> QED BY <1>1, <2>3, <3>2, <3>3, MemoryReplaced
  <2>7. v \in Stored(memory'[p], k)
    <3>1. memory'[p] = m /\ Len(m) \in DOMAIN m /\ m[Len(m)][1] = k /\ m[Len(m)][2] = v
      BY <1>1, <2>3, <2>4 DEF MemoryInv
    <3> QED BY <3>1 DEF Stored
  <2> QED BY <1>3, <2>6, <2>7
<1> QED BY <1>2, <1>3

LEMMA CrashKeepsMemory ==
  ASSUME Inv, NEW p \in Procs, Crash(p)
  PROVE  MemoryInv'
<1>1. << >> \in Seq(Entries) /\ Len(<< >>) = 0 /\ Distinct(<< >>)
  BY DEF Distinct
<1>2. memory' = [memory EXCEPT ![p] = << >>] /\ bytes' = [bytes EXCEPT ![p] = 0]
      /\ computed' = computed
  BY DEF Crash
<1>3. Bytes(<< >>) <= MaxEntry /\ Len(<< >>) <= MaxEntries
  BY <1>1, BytesOfNone, HarnessCacheAssumption
<1> DEFINE m == << >>
<1>4. m \in Seq(Entries) /\ Distinct(m) /\ Len(m) = 0
      /\ Len(m) <= MaxEntries /\ Bytes(m) <= MaxEntry /\ Bytes(m) = 0
      /\ memory' = [memory EXCEPT ![p] = m]
  BY <1>1, <1>2, <1>3, BytesOfNone
<1> HIDE DEF m
<1>5. bytes' = [bytes EXCEPT ![p] = Bytes(m)] /\ \A i \in 1 .. Len(m) : m[i] \in computed
  BY <1>2, <1>4
<1>6. Fits(m)
  BY <1>4, <1>5 DEF Fits
<1> QED BY <1>2, <1>4, <1>5, <1>6, InvIsMemoryInv, MemoryReplaced

(* The rest of the invariant *)
RestInv ==
  /\ pc \in [Workers -> PCs] /\ key \in [Workers -> Keys \cup {NoKey}]
  /\ value \in [Workers -> Values \cup {NoAnswer}]
  /\ answer \in [Workers -> Values \cup {NoAnswer, Failed}]
  /\ disk \in [Keys -> Values \cup {Absent, Torn}]
  /\ calls \in 0 .. Calls /\ tool \in 0 .. Upgrades
  /\ crashes \in 0 .. Crashes /\ tears \in 0 .. Tears
  /\ computed \subseteq Keys \X Values
  /\ StageOK
  /\ \A k \in Keys : disk[k] \in Values => <<k, disk[k]>> \in computed

LEMMA InvIsBoth == Inv <=> MemoryInv /\ RestInv
BY DEF Inv, TypeOK, Known, MemoryInv, RestInv, Entries

LEMMA InvIsBothPrimed == Inv' <=> MemoryInv' /\ RestInv'
BY DEF Inv, TypeOK, Known, MemoryInv, RestInv, Entries

LEMMA MemoryRests ==
  ASSUME MemoryInv, UNCHANGED shared, computed \subseteq computed'
  PROVE  MemoryInv'
BY DEF MemoryInv, MemoryOK, shared

(* The end of a call leaves its worker without a key. *)
LEMMA EndsCall ==
  ASSUME RestInv, NEW w \in Workers, NEW v \in Values \cup {NoAnswer, Failed},
         AnswerWith(w, v), UNCHANGED <<disk, world, computed>>
  PROVE  RestInv'
<1>1. /\ pc' = [pc EXCEPT ![w] = "idle"] /\ key' = [key EXCEPT ![w] = NoKey]
      /\ value' = [value EXCEPT ![w] = NoAnswer] /\ answer' = [answer EXCEPT ![w] = v]
      /\ UNCHANGED <<disk, calls, tool, crashes, tears, computed>>
  BY DEF AnswerWith, Goto, world
<1>2. StageOK'
  BY <1>1 DEF RestInv, StageOK, Late
<1> QED BY <1>1, <1>2 DEF RestInv, PCs

(* Neither idle before nor after: only the place changes. *)
LEMMA MovesOn ==
  ASSUME RestInv, NEW w \in Workers, NEW l \in PCs \ {"idle"},
         pc[w] # "idle", l \in Late => pc[w] \in Late,
         Goto(w, l), UNCHANGED <<key, value, answer, disk, world, computed>>
  PROVE  RestInv'
<1>1. /\ pc' = [pc EXCEPT ![w] = l]
      /\ UNCHANGED <<key, value, answer, disk, calls, tool, crashes, tears, computed>>
  BY DEF Goto, world
<1>2. StageOK'
  BY <1>1 DEF RestInv, StageOK
<1> QED BY <1>1, <1>2 DEF RestInv

LEMMA CallStep ==
  ASSUME Inv, NEW w \in Workers, NEW i \in Inputs, Call(w, i)
  PROVE  Inv'
<1>1. MemoryInv /\ RestInv
  BY InvIsBoth
<1>2. <<i, tool>> \in Keys /\ <<i, tool>> # NoKey
  BY <1>1, HarnessCacheAssumption DEF RestInv, Keys
<1>3. StageOK'
  BY <1>1, <1>2 DEF Call, Goto, RestInv, StageOK, Late
<1>4. calls' \in 0 .. Calls
  BY <1>1, HarnessCacheAssumption DEF Call, RestInv
<1>5. RestInv'
  BY <1>1, <1>2, <1>3, <1>4 DEF Call, Goto, RestInv, PCs
<1> QED BY <1>1, <1>5, MemoryRests, InvIsBothPrimed DEF Call

LEMMA LookInMemoryStep ==
  ASSUME Inv, NEW w \in Workers, LookInMemory(w)
  PROVE  Inv'
<1> DEFINE m == memory[ProcOf[w]]
<1>1. MemoryInv /\ RestInv /\ ProcOf[w] \in Procs
  BY InvIsBoth, HarnessCacheAssumption
<1>2. RestInv'
  <2>1. CASE Stored(m, key[w]) = {}
    BY <1>1, <2>1, MovesOn DEF LookInMemory, PCs, Late
  <2>2. CASE Stored(m, key[w]) # {}
    <3>1. PICK v \in Stored(m, key[w]) : AnswerWith(w, v)
      BY <2>2 DEF LookInMemory
    <3>2. v \in Values
      BY <1>1 DEF Stored, MemoryInv, Entries
    <3> QED BY <1>1, <3>1, <3>2, EndsCall DEF LookInMemory
  <2> QED BY <2>1, <2>2
<1> QED BY <1>2, HitKeepsMemory, InvIsBothPrimed

LEMMA LookOnDiskStep ==
  ASSUME Inv, NEW w \in Workers, LookOnDisk(w)
  PROVE  Inv'
<1>1. MemoryInv /\ RestInv /\ key[w] \in Keys
  BY InvIsBoth DEF LookOnDisk, RestInv, StageOK
<1>2. RestInv'
  <2>1. CASE Accepts(key[w]) /\ AnswerWith(w, disk[key[w]])
    <3>1. disk[key[w]] \in Values
      BY <1>1, <2>1 DEF Accepts, RestInv
    <3> QED BY <1>1, <2>1, <3>1, EndsCall DEF LookOnDisk
  <2>2. CASE Goto(w, "compute") /\ UNCHANGED <<key, value, answer>>
    BY <1>1, <2>2, MovesOn DEF LookOnDisk, PCs, Late
  <2> QED BY <2>1, <2>2 DEF LookOnDisk
<1> QED BY <1>1, <1>2, MemoryRests, InvIsBothPrimed DEF LookOnDisk

LEMMA ComputeStep ==
  ASSUME Inv, NEW w \in Workers, Compute(w)
  PROVE  Inv'
<1>1. MemoryInv /\ RestInv /\ key[w] \in Keys
  BY InvIsBoth DEF Compute, RestInv, StageOK
<1> DEFINE v == <<key[w][1], tool>>
<1>2. v \in Values
  BY <1>1 DEF RestInv, Keys, Values
<1> HIDE DEF v
<1>3. /\ pc[w] = "compute" /\ pc' = [pc EXCEPT ![w] = "publish"]
      /\ value' = [value EXCEPT ![w] = v]
      /\ computed' = computed \cup {<<key[w], v>>}
      /\ UNCHANGED <<key, answer, shared, disk, calls, tool, crashes, tears>>
  BY DEF Compute, Goto, world, v
<1>4. StageOK'
  BY <1>1, <1>3 DEF RestInv, StageOK, Late
<1>5. RestInv'
  BY <1>1, <1>2, <1>3, <1>4 DEF RestInv, PCs
<1> QED BY <1>1, <1>3, <1>5, MemoryRests, InvIsBothPrimed

LEMMA PublishStep ==
  ASSUME Inv, NEW w \in Workers, Publish(w)
  PROVE  Inv'
<1>1. MemoryInv /\ RestInv /\ value[w] \in Values
  BY InvIsBoth DEF Publish, RestInv, StageOK, Late
<1>2. RestInv'
  <2>1. CASE AnswerWith(w, value[w])
    BY <1>1, <2>1, EndsCall DEF Publish
  <2>2. CASE Goto(w, "open") /\ UNCHANGED <<key, value, answer>>
    BY <1>1, <2>2, MovesOn DEF Publish, PCs, Late
  <2> QED BY <2>1, <2>2 DEF Publish
<1> QED BY <1>2, PutKeepsMemory, InvIsBothPrimed

LEMMA ReplaceStep ==
  ASSUME Inv, NEW w \in Workers, Replace(w)
  PROVE  Inv'
<1>1. MemoryInv /\ RestInv
  BY InvIsBoth
<1>2. key[w] \in Keys /\ value[w] \in Values /\ <<key[w], value[w]>> \in computed
  BY <1>1 DEF Replace, RestInv, StageOK, Late
<1>3. /\ pc[w] = "replace" /\ pc' = [pc EXCEPT ![w] = "unlink"]
      /\ disk' = [disk EXCEPT ![key[w]] = value[w]] \/ disk' = disk
      /\ UNCHANGED <<key, value, answer, shared, calls, tool, crashes, tears, computed>>
  BY DEF Replace, Goto, world
<1>4. StageOK'
  BY <1>1, <1>3 DEF RestInv, StageOK, Late
<1>5. disk' \in [Keys -> Values \cup {Absent, Torn}]
      /\ \A k \in Keys : disk'[k] \in Values => <<k, disk'[k]>> \in computed
  BY <1>1, <1>2, <1>3 DEF RestInv
<1>6. RestInv'
  BY <1>1, <1>3, <1>4, <1>5 DEF RestInv, PCs
<1> QED BY <1>1, <1>3, <1>6, MemoryRests, InvIsBothPrimed

LEMMA CrashStep ==
  ASSUME Inv, NEW p \in Procs, Crash(p)
  PROVE  Inv'
<1>1. RestInv
  BY InvIsBoth
<1>2. StageOK'
  BY <1>1 DEF RestInv, StageOK, Crash, Late
<1>3. crashes' \in 0 .. Crashes
  BY <1>1, HarnessCacheAssumption DEF RestInv, Crash
<1>4. RestInv'
  BY <1>1, <1>2, <1>3 DEF RestInv, Crash, PCs
<1> QED BY <1>4, CrashKeepsMemory, InvIsBothPrimed

LEMMA TearStep ==
  ASSUME Inv, NEW k \in Keys, Tear(k)
  PROVE  Inv'
<1>1. MemoryInv /\ RestInv
  BY InvIsBoth
<1>2. StageOK'
  BY <1>1 DEF RestInv, StageOK, Tear, private
<1>3. tears' \in 0 .. Tears
  BY <1>1, HarnessCacheAssumption DEF RestInv, Tear
<1>4. Torn \notin Values
  BY HarnessCacheAssumption DEF Values, Keys
<1>5. RestInv'
  BY <1>1, <1>2, <1>3, <1>4 DEF RestInv, Tear, private
<1> QED BY <1>1, <1>5, MemoryRests, InvIsBothPrimed DEF Tear

LEMMA InvStep == Inv /\ [Next]_vars => Inv'
<1> SUFFICES ASSUME Inv, [Next]_vars PROVE Inv'
  OBVIOUS
<1>1. MemoryInv /\ RestInv
  BY InvIsBoth
<1>2. ASSUME NEW w \in Workers, Raise(w)  PROVE Inv'
  BY <1>1, <1>2, EndsCall, MemoryRests, InvIsBothPrimed DEF Raise
<1>3. ASSUME NEW w \in Workers, Open(w)  PROVE Inv'
  <2>1. value[w] \in Values
    BY <1>1, <1>3 DEF Open, RestInv, StageOK, Late
  <2>2. CASE AnswerWith(w, value[w])
    BY <1>1, <1>3, <2>1, <2>2, EndsCall, MemoryRests, InvIsBothPrimed DEF Open
  <2>3. CASE Goto(w, "write") /\ UNCHANGED <<key, value, answer>>
    <3>1. RestInv'
      BY <1>1, <1>3, <2>3, MovesOn DEF Open, PCs, Late
    <3> QED BY <1>1, <1>3, <3>1, MemoryRests, InvIsBothPrimed DEF Open
  <2> QED BY <1>3, <2>2, <2>3 DEF Open
<1>4. ASSUME NEW w \in Workers, WriteTemp(w)  PROVE Inv'
  <2>1. RestInv'
    BY <1>1, <1>4, MovesOn DEF WriteTemp, PCs, Late
  <2> QED BY <1>1, <1>4, <2>1, MemoryRests, InvIsBothPrimed DEF WriteTemp
<1>5. ASSUME NEW w \in Workers, Unlink(w)  PROVE Inv'
  <2>1. value[w] \in Values
    BY <1>1, <1>5 DEF Unlink, RestInv, StageOK, Late
  <2> QED BY <1>1, <1>5, <2>1, EndsCall, MemoryRests, InvIsBothPrimed DEF Unlink
<1>6. ASSUME Upgrade  PROVE Inv'
  <2>1. tool' \in 0 .. Upgrades
    BY <1>1, <1>6, HarnessCacheAssumption DEF RestInv, Upgrade
  <2>2. RestInv'
    BY <1>1, <1>6, <2>1 DEF RestInv, StageOK, Upgrade, private
  <2> QED BY <1>1, <1>6, <2>2, MemoryRests, InvIsBothPrimed DEF Upgrade
<1>7. CASE UNCHANGED vars
  <2>1. RestInv'
    BY <1>1, <1>7 DEF RestInv, StageOK, vars, private, world
  <2> QED BY <1>1, <1>7, <2>1, MemoryRests, InvIsBothPrimed DEF vars
<1> QED
  BY <1>2, <1>3, <1>4, <1>5, <1>6, <1>7, CallStep, LookInMemoryStep,
     LookOnDiskStep, ComputeStep, PublishStep, ReplaceStep, CrashStep, TearStep
  DEF Next, Step

LEMMA InvHolds == Spec => []Inv
<1> QED BY InvInit, InvStep, PTL DEF Spec

-----------------------------------------------------------------------------
(* The theorems *)

(* _MEMORY_BYTES is the size of what a process's memory stores, whatever   *)
(* its threads put at once; it never passes _MAX_ENTRY, and no key is      *)
(* stored twice.                                                           *)
THEOREM MemoryBounded == Spec => []MemoryIsBounded
<1>1. Inv => MemoryIsBounded
  <2> SUFFICES ASSUME Inv, NEW p \in Procs
               PROVE  /\ bytes[p] = Bytes(memory[p]) /\ bytes[p] <= MaxEntry
                      /\ Len(memory[p]) <= MaxEntries
                      /\ IsInjective([i \in DOMAIN memory[p] |-> memory[p][i][1]])
    BY DEF MemoryIsBounded, Inv
  <2>1. memory[p] \in Seq(Entries) /\ DOMAIN memory[p] = 1 .. Len(memory[p])
    BY DEF Inv, TypeOK, Entries
  <2> QED BY <2>1 DEF Inv, MemoryOK, Distinct, IsInjective
<1> QED BY <1>1, InvHolds, PTL

(* Whoever leaves put's lock finds its own entry in the memory: making     *)
(* room has dropped others.                                                *)
THEOREM NewestStays == Spec => NewestSurvives
<1> DEFINE Kept(w) ==
      pc[w] = "publish" /\ pc'[w] # "publish" /\ ~TooLarge(key[w]) /\ crashes' = crashes
        => value[w] \in Stored(memory'[ProcOf[w]], key[w])
<1>1. Inv /\ [Next]_vars => \A w \in Workers : Kept(w)
  <2> SUFFICES ASSUME Inv, [Next]_vars, NEW w \in Workers, pc[w] = "publish",
                      pc'[w] # "publish", ~TooLarge(key[w]), crashes' = crashes
               PROVE  value[w] \in Stored(memory'[ProcOf[w]], key[w])
    OBVIOUS
  <2>1. pc \in [Workers -> PCs] /\ crashes \in Nat
    BY HarnessCacheAssumption DEF Inv, TypeOK
  <2>2. ASSUME NEW u \in Workers, Step(u)  PROVE Publish(w)
    <3>1. u = w
      BY <2>1, <2>2 DEF Step, LookInMemory, LookOnDisk, Compute, Raise, Publish, Open, WriteTemp,
         Replace, Unlink, AnswerWith, Goto
    <3> QED
      BY <2>1, <2>2, <3>1 DEF Step, LookInMemory, LookOnDisk, Compute, Raise, Open, WriteTemp, Replace, Unlink
  <2>3. ASSUME NEW u \in Workers, NEW i \in Inputs, Call(u, i)  PROVE FALSE
    BY <2>1, <2>3 DEF Call, Goto
  <2>4. Publish(w)
    BY <2>1, <2>2, <2>3 DEF Next, Crash, Tear, Upgrade, vars, private
  <2> QED BY <2>4, PutKeepsMemory
<1>2. Inv /\ [Next]_vars => [\A w \in Workers : Kept(w)]_vars
  BY <1>1
<1> QED BY <1>2, InvHolds, PTL DEF Spec, NewestSurvives

(* Whatever fails, stops or overlaps, only the world outside breaks an     *)
(* entry: a good one is replaced by a good one, and a new one is good.     *)
THEOREM GoodStay == Spec => GoodEntriesStay
<1> DEFINE Stays ==
      tears' = tears =>
        \A k \in Keys : /\ disk[k] \in Values => disk'[k] \in Values
                        /\ disk[k] = Absent => disk'[k] # Torn
<1>1. Inv /\ [Next]_vars => Stays
  <2> SUFFICES ASSUME Inv, [Next]_vars, tears' = tears, NEW k \in Keys
               PROVE  disk'[k] = disk[k] \/ (disk'[k] \in Values /\ disk'[k] # Torn)
    BY HarnessCacheAssumption
  <2>1. tears \in Nat /\ disk \in [Keys -> Values \cup {Absent, Torn}]
    BY HarnessCacheAssumption DEF Inv, TypeOK
  <2>2. ASSUME NEW w \in Workers, Replace(w)
        PROVE  disk'[k] = disk[k] \/ (disk'[k] \in Values /\ disk'[k] # Torn)
    <3>1. value[w] \in Values /\ Torn \notin Values
      BY <2>2, HarnessCacheAssumption DEF Inv, TypeOK, StageOK, Replace, Late, Values, Keys
    <3> QED BY <2>1, <2>2, <3>1 DEF Replace
  <2> QED
    BY <2>1, <2>2 DEF Next, Step, Call, LookInMemory, LookOnDisk, Compute, Raise,
       Publish, Open, WriteTemp, Unlink, Crash, Tear, Upgrade, vars
<1>2. Inv /\ [Next]_vars => [Stays]_vars
  BY <1>1
<1> QED BY <1>2, InvHolds, PTL DEF Spec, GoodEntriesStay

-----------------------------------------------------------------------------
(* The refinement *)

LEMMA MemoInit == Init => Memo!Init
BY DEF Init, Memo!Init

(* What a call of cached may answer, and what a step may leave alone *)
LEMMA AnswersMemo ==
  ASSUME Inv, NEW w \in Workers, pc[w] # "idle", NEW v,
         v = Failed \/ <<key[w], v>> \in computed,
         AnswerWith(w, v), UNCHANGED computed
  PROVE  Memo!Answer(w)
<1>1. key[w] # NoKey
  BY DEF Inv, StageOK
<1>2. v \in {c[2] : c \in {c \in computed : c[1] = key[w]}} \cup {Failed}
  BY DEF Inv, TypeOK
<1> QED BY <1>1, <1>2 DEF AnswerWith, Memo!Answer

LEMMA StepIsMemo ==
  ASSUME Inv, NEW w \in Workers, Step(w)
  PROVE  Memo!Next \/ UNCHANGED Memo!vars
<1> DEFINE k == key[w]
<1>1. CASE LookInMemory(w)
  <2>1. CASE Stored(memory[ProcOf[w]], k) = {}
    BY <1>1, <2>1 DEF LookInMemory, Memo!vars
  <2>2. CASE Stored(memory[ProcOf[w]], k) # {}
    <3> DEFINE m == memory[ProcOf[w]]
    <3>1. PICK v \in Stored(m, k) : AnswerWith(w, v)
      BY <1>1, <2>2 DEF LookInMemory
    <3>2. PICK i \in 1 .. Len(m) : m[i][1] = k /\ m[i][2] = v
      <4>1. m \in Seq(Entries)
        BY HarnessCacheAssumption DEF Inv, TypeOK, Entries
      <4> QED BY <3>1, <4>1 DEF Stored
    <3>3. m[i] \in computed /\ m[i] = <<k, v>>
      BY <3>2, HarnessCacheAssumption DEF Inv, Known, TypeOK
    <3> QED BY <1>1, <3>1, <3>3, AnswersMemo DEF LookInMemory, Memo!Next
  <2> QED BY <2>1, <2>2
<1>2. CASE LookOnDisk(w)
  <2>1. CASE Accepts(k) /\ AnswerWith(w, disk[k])
    <3>1. k \in Keys
      BY <1>2 DEF LookOnDisk, Inv, TypeOK, StageOK
    <3>2. <<k, disk[k]>> \in computed
      BY <2>1, <3>1 DEF Accepts, Inv, Known, TypeOK
    <3> QED BY <1>2, <2>1, <3>2, AnswersMemo DEF LookOnDisk, Memo!Next
  <2>2. CASE UNCHANGED <<key, value, answer>>
    BY <1>2, <2>2 DEF LookOnDisk, Memo!vars
  <2> QED BY <1>2, <2>1, <2>2 DEF LookOnDisk
<1>3. CASE Compute(w)
  <2>1. k # NoKey /\ k \in Keys /\ <<k[1], tool>> \in Values
    BY <1>3 DEF Compute, Inv, TypeOK, StageOK, Keys, Values
  <2> QED BY <1>3, <2>1 DEF Compute, Memo!Compute, Memo!Next
<1>4. CASE Raise(w)
  BY <1>4, AnswersMemo DEF Raise, Memo!Next
<1>5. ASSUME pc[w] \in Late, AnswerWith(w, value[w]), UNCHANGED computed
      PROVE  Memo!Next
  BY <1>5, AnswersMemo DEF Inv, StageOK, Late, Memo!Next
<1>6. CASE Publish(w)
  BY <1>5, <1>6 DEF Publish, Late, Memo!vars
<1>7. CASE Open(w)
  BY <1>5, <1>7 DEF Open, Late, Memo!vars
<1>8. CASE WriteTemp(w)
  BY <1>8 DEF WriteTemp, Memo!vars
<1>9. CASE Replace(w)
  BY <1>9 DEF Replace, Memo!vars
<1>10. CASE Unlink(w)
  BY <1>5, <1>10 DEF Unlink, Late
<1> QED
  BY <1>1, <1>2, <1>3, <1>4, <1>6, <1>7, <1>8, <1>9, <1>10 DEF Step

LEMMA NextIsMemo ==
  ASSUME Inv, [Next]_vars
  PROVE  Memo!Next \/ UNCHANGED Memo!vars
<1>1. ASSUME NEW w \in Workers, NEW i \in Inputs, Call(w, i)  PROVE Memo!Next
  <2>1. key[w] = NoKey /\ <<i, tool>> \in Keys
    BY <1>1 DEF Call, Inv, TypeOK, StageOK, Keys
  <2> QED BY <1>1, <2>1 DEF Call, Memo!Ask, Memo!Next
<1>2. ASSUME NEW p \in Procs, Crash(p)  PROVE Memo!Next
  <2> DEFINE W == {w \in Workers : ProcOf[w] = p}
  <2>1. /\ key' = [w \in Workers |-> IF w \in W THEN NoKey ELSE key[w]]
        /\ answer' = [w \in Workers |-> IF w \in W THEN NoAnswer ELSE answer[w]]
        /\ computed' = computed
    BY <1>2 DEF Crash
  <2>2. W \in SUBSET Workers
    OBVIOUS
  <2> HIDE DEF W
  <2> QED BY <2>1, <2>2 DEF Memo!Stop, Memo!Next
<1>3. CASE UNCHANGED vars
  BY <1>3 DEF vars, private, Memo!vars
<1>4. ASSUME NEW k \in Keys, Tear(k)  PROVE UNCHANGED Memo!vars
  BY <1>4 DEF Tear, private, Memo!vars
<1>5. ASSUME Upgrade  PROVE UNCHANGED Memo!vars
  BY <1>5 DEF Upgrade, private, Memo!vars
<1> QED
  BY <1>1, <1>2, <1>3, <1>4, <1>5, StepIsMemo DEF Next

(* A caller of cached gets what a computation for its own key returned, or *)
(* its own exception: never a failure kept, a broken entry, or another     *)
(* key's value.                                                            *)
THEOREM AnswersAreComputed == Spec => Implements
<1>1. Inv /\ [Next]_vars => [Memo!Next]_(Memo!vars)
  BY NextIsMemo
<1> QED BY <1>1, MemoInit, InvHolds, PTL DEF Spec, Implements, Memo!Spec
=============================================================================
