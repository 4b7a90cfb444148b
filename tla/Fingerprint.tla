---------------------------- MODULE Fingerprint ----------------------------
(***************************************************************************)
(* The key that tells whether a submission is a published repro            *)
(* (contest/fingerprint.py): a structural hash of solc's AST in which a    *)
(* declaration is known only by the number of its first visit.  A node is  *)
(* a record: its type, the id of the declaration it is (0 for none), its   *)
(* scalars, the declaration it refers to (0 for none, negative for a       *)
(* builtin), the name it spells, the names of its arguments, and its       *)
(* children by field.  A name is a number: the id of a declaration that    *)
(* has it, or negative for a builtin.  A digest is the sequence of tokens  *)
(* that is hashed, so digests collide when the hashed texts are equal.     *)
(***************************************************************************)
EXTENDS Integers, Sequences, SequencesExt, FiniteSets

CONSTANT Words    \* the words of an AST, in some order

Token(s) == CHOOSE i \in DOMAIN Words : Words[i] = s

DeclNodeTypes == {"VariableDeclaration", "FunctionDefinition", "SourceUnit"}
NamedNodeTypes == {"Identifier"}
SalientAttrs == {"operator", "value", "memberName"}
KeyPriority == <<"parameters">>
SortedKeys == <<"arguments", "body", "expression", "leftExpression", "nodes", "parameters", "rightExpression">>

(* The declarations met so far, in the order of their first visit; the     *)
(* preliminary pass, which only orders the members of a file, keeps none.  *)
Preliminary == <<0>>
Met(refmap, id) ==
  IF refmap = Preliminary \/ id \in ToSet(refmap) THEN refmap ELSE Append(refmap, id)
(* Mutant: solc's own id. *)
RawId(refmap, id) == id
Number(refmap, id) == CHOOSE i \in DOMAIN refmap : refmap[i] = id

MetDeclaration(refmap, node) ==
  IF node.type \in DeclNodeTypes THEN Met(refmap, node.id) ELSE refmap

Scalars(node) ==
  FlattenSeq([i \in DOMAIN node.attrs |->
    IF node.attrs[i][1] \in SalientAttrs
    THEN <<Token(node.attrs[i][1]), node.attrs[i][2]>> ELSE <<>>])

Reference(node, refmap) ==
  CASE node.ref # 0 /\ refmap = Preliminary -> <<Token("?")>>
    [] node.ref < 0 /\ refmap # Preliminary -> <<Token("builtin"), -node.ref>>
    [] node.ref > 0 /\ refmap # Preliminary -> <<Token("ref"), Number(refmap, node.ref)>>
    [] node.ref = 0 /\ node.type \in NamedNodeTypes -> <<Token("name"), node.name>>
    [] OTHER -> <<>>
(* Mutant: named arguments are like others. *)
ArgNamesDropped(node) == <<>>
ArgNames(node) == IF node.names = <<>> THEN <<>> ELSE <<Token("argnames"), Len(node.names)>> \o node.names

(* Mutant: plain sorted order. *)
PlainKeys(node) == SelectSeq(SortedKeys, LAMBDA k : k \in DOMAIN node.kids)
(* parameters first, so that a body finds them declared *)
KeysOf(node) ==
  LET has(keys) == SelectSeq(keys, LAMBDA k : k \in DOMAIN node.kids)
  IN has(KeyPriority) \o SelectSeq(has(SortedKeys), LAMBDA k : k \notin ToSet(KeyPriority))

(* some fixed order of the digests *)
Before(s, t) ==
  \/ IsStrictPrefix(s, t)
  \/ \E i \in 1 .. Len(s) :
       /\ i <= Len(t) /\ s[i] < t[i]
       /\ \A j \in 1 .. i - 1 : s[j] = t[j]
(* a stable sort of a sequence by the digests of its elements *)
SortedBy(digests, seq) ==
  LET digested == [i \in DOMAIN seq |-> <<digests[i], i>>]
      inOrder == SortSeq(digested, LAMBDA d, e : Before(d[1], e[1]) \/ (d[1] = e[1] /\ d[2] < e[2]))
  IN [r \in DOMAIN seq |-> seq[inOrder[r][2]]]

(* The tokens of a node, and the declarations met when it has been left.   *)
RECURSIVE Canon(_, _)
CanonAll(nodes, refmap) ==
  FoldLeft(LAMBDA acc, node :
             LET c == Canon(node, acc.refmap)
             IN [digest |-> acc.digest \o c.digest, refmap |-> c.refmap],
           [digest |-> <<Len(nodes)>>, refmap |-> refmap], nodes)
InOrder(node, key) ==
  IF node.type = "SourceUnit" /\ key = "nodes"
  THEN LET members == node.kids[key]
       IN SortedBy([i \in DOMAIN members |-> Canon(members[i], Preliminary).digest], members)
  ELSE node.kids[key]
Canon(node, refmap) ==
  LET met == MetDeclaration(refmap, node)
      seen == IF node.ref > 0 THEN Met(met, node.ref) ELSE met
  IN FoldLeft(LAMBDA acc, key :
                LET c == CanonAll(InOrder(node, key), acc.refmap)
                IN [digest |-> acc.digest \o <<Token(key)>> \o c.digest, refmap |-> c.refmap],
              [digest |-> <<Token(node.type)>> \o Scalars(node) \o Reference(node, seen) \o ArgNames(node),
               refmap |-> seen],
              KeysOf(node))

(* one map per file; the files' digests are sorted *)
CanonicalAstHash(asts) ==
  LET perFile == [i \in DOMAIN asts |-> Canon(asts[i], <<>>).digest]
  IN FlattenSeq(SortedBy(perFile, perFile))

(* A compiler that rejects the sources gives an AST without references.    *)
RECURSIVE ParseOnly(_)
ParseOnly(node) ==
  [node EXCEPT !.ref = 0,
     !.kids = [k \in DOMAIN node.kids |-> [i \in DOMAIN node.kids[k] |-> ParseOnly(node.kids[k][i])]]]

Key(asts, mode) ==
  <<mode, CanonicalAstHash(IF mode = "full" THEN asts
                           ELSE [i \in DOMAIN asts |-> ParseOnly(asts[i])])>>

-----------------------------------------------------------------------------
(* What a program is, for the properties: its trees, with the declarations *)
(* named by their position.                                                *)
PlainFields(node) == SelectSeq(SortedKeys, LAMBDA k : k \in DOMAIN node.kids)
RECURSIVE Subtrees(_)
Subtrees(node) ==
  <<node>> \o FlattenSeq([i \in DOMAIN PlainFields(node) |->
     LET kids == node.kids[PlainFields(node)[i]]
     IN FlattenSeq([j \in DOMAIN kids |-> Subtrees(kids[j])])])
Declared(node) ==
  LET decls == SelectSeq(Subtrees(node), LAMBDA n : n.type \in DeclNodeTypes)
  IN [i \in DOMAIN decls |-> decls[i].id]
Referred(node) == {n.ref : n \in ToSet(Subtrees(node))} \ {0}

(* every id, and every name of a declaration, by another one *)
RECURSIVE Renamed(_, _)
Renamed(node, f) ==
  LET to(id) == IF id \in DOMAIN f THEN f[id] ELSE id
  IN [node EXCEPT !.id = to(@), !.ref = to(@), !.name = to(@),
        !.names = [i \in DOMAIN @ |-> to(@[i])],
        !.attrs = [i \in DOMAIN @ |-> IF @[i][1] = "memberName" THEN <<"memberName", to(@[i][2])>> ELSE @[i]],
        !.kids = [k \in DOMAIN node.kids |->
                    [i \in DOMAIN node.kids[k] |-> Renamed(node.kids[k][i], f)]]]

Members(asts) == FlattenSeq([i \in DOMAIN asts |-> asts[i].kids["nodes"]])
(* the same members up to their order and the names of the declarations *)
SameProgram(a, b) ==
  LET A == Members(a)
      B == Members(b)
  IN /\ Len(A) = Len(B)
     /\ \E p \in [DOMAIN A -> DOMAIN B] :
          LET from == FlattenSeq([i \in DOMAIN A |-> Declared(A[i])])
              to == FlattenSeq([i \in DOMAIN A |-> Declared(B[p[i]])])
              f == [id \in ToSet(from) |-> to[CHOOSE i \in DOMAIN from : from[i] = id]]
          IN /\ \A i, j \in DOMAIN A : i # j => p[i] # p[j]
             /\ Len(from) = Len(to)
             /\ \A i \in DOMAIN A : Renamed(A[i], f) = Renamed(B[p[i]], <<>>)

(* no two members of a file have the same digest before references are numbered *)
Untied(asts) ==
  \A u \in DOMAIN asts : \A m, n \in ToSet(asts[u].kids["nodes"]) :
    m # n => Canon(m, Preliminary).digest # Canon(n, Preliminary).digest
(* every reference of a file is to a declaration of that file which the    *)
(* hash has visited before it                                              *)
ResolvedInOrder(asts) ==
  \A u \in DOMAIN asts :
    LET members == InOrder(asts[u], "nodes")
    IN \A i \in DOMAIN members :
         \A id \in Referred(members[i]) :
            id < 0 \/ \E j \in 1 .. i : id \in ToSet(Declared(members[j]))
(* no name of a declaration is hashed: members and arguments of builtins only *)
NamesOnlyRefer(asts) ==
  \A u \in DOMAIN asts : \A n \in ToSet(Subtrees(asts[u])) :
    \A name \in ToSet(n.names) \cup {a[2] : a \in {b \in ToSet(n.attrs) : b[1] = "memberName"}} : name < 0
(* no scalar is left out of the hash *)
FullySpelled(asts) ==
  \A m \in ToSet(Members(asts)) : \A n \in ToSet(Subtrees(m)) :
    \A i \in DOMAIN n.attrs : n.attrs[i][1] \in SalientAttrs
=============================================================================
