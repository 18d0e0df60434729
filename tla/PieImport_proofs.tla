---------------------------- MODULE PieImport_proofs ----------------------------
(* Includes and imports of any files: the result stays a tree, no file of a   *)
(* kind that is looked at for circles is expanded inside itself but for what  *)
(* an instruction has made, what was expanded has the items of its file in    *)
(* their order, and no import is left open.  The invariant is Inv.            *)
EXTENDS PieImport, TLAPS, SequenceTheorems, FiniteSetTheorems, WellFoundedInduction

-----------------------------------------------------------------------------
(* Numbers and sequences *)

LEMMA SeqFacts ==
    ASSUME NEW S, NEW p \in Seq(S)
    PROVE  /\ Len(p) \in Nat /\ DOMAIN p = 1..Len(p) /\ (p # <<>> <=> Len(p) > 0)
           /\ \A i \in 1..Len(p) : p[i] \in S
BY EmptySeq, LenProperties, ElementOfSeq

LEMMA FunctionSeq ==
    ASSUME NEW S, NEW n \in Nat, NEW f, DOMAIN f = 1..n, f = [i \in 1..n |-> f[i]], \A i \in 1..n : f[i] \in S
    PROVE  f \in Seq(S) /\ Len(f) = n
<1>1. f \in [1..n -> S]
  OBVIOUS
<1> QED
  BY <1>1, SeqDef

LEMMA ConcatFacts ==
    ASSUME NEW S, NEW p \in Seq(S), NEW q \in Seq(S), NEW c, c = p \o q
    PROVE  /\ c \in Seq(S) /\ Len(c) = Len(p) + Len(q)
           /\ \A i \in 1..Len(p) : c[i] = p[i]
           /\ \A i \in 1..Len(q) : c[Len(p) + i] = q[i]
<1>1. Len(p) \in Nat /\ Len(q) \in Nat
  BY SeqFacts
<1>2. c \in Seq(S) /\ Len(c) = Len(p) + Len(q)
      /\ \A i \in 1..Len(p) + Len(q) : c[i] = IF i <= Len(p) THEN p[i] ELSE q[i - Len(p)]
  BY ConcatProperties
<1>3. ASSUME NEW i \in 1..Len(q) PROVE c[Len(p) + i] = q[i]
  <2>1. Len(p) + i \in 1..Len(p) + Len(q) /\ ~(Len(p) + i <= Len(p)) /\ (Len(p) + i) - Len(p) = i
    BY <1>1
  <2> QED BY <1>2, <2>1
<1> QED
  BY <1>1, <1>2, <1>3

LEMMA SubSeqFacts ==
    ASSUME NEW S, NEW s, NEW m \in Nat, NEW n \in Nat, m <= n + 1, \A i \in m..n : s[i] \in S,
           NEW c, c = SubSeq(s, m, n)
    PROVE  c \in Seq(S) /\ Len(c) = n - m + 1 /\ \A k \in 1..(n - m + 1) : c[k] = s[m + k - 1]
<1>1. m \in Int /\ n \in Int
  OBVIOUS
<1>2. c \in Seq(S) /\ Len(c) = (IF m <= n THEN n - m + 1 ELSE 0) /\ \A k \in 1..(n - m + 1) : c[k] = s[m + k - 1]
  BY <1>1, SubSeqProperties
<1> QED
  BY <1>2

LEMMA LeastNat ==
    ASSUME NEW S \in SUBSET Nat, S # {}
    PROVE  \E i \in S : \A j \in S : i <= j
<1>1. PICK i \in S : \A j \in S : ~(<<j, i>> \in OpToRel(<, Nat))
  BY NatLessThanWellFounded, WFMin
<1>2. \A j \in S : ~(j < i)
  BY <1>1 DEF OpToRel
<1> QED
  BY <1>2

-----------------------------------------------------------------------------
(* Nodes *)

Names  == {"p", "import", "include", "#import", "#include", "text", "block"}
Errors == {"none", "circular", "read", "empty", "struct", "unknown"}
Origin == Files \cup Inner \cup Bare \cup {None}
NodeType == [name : Names, of : Origin, file : Origin, inner : Files \cup {None},
             parent : Nat, context : Origin, error : Errors]

(* What the processing of a node leaves as it was. *)
Same(n, m) ==
    /\ m.of = n.of /\ m.file = n.file /\ m.inner = n.inner /\ m.parent = n.parent
    /\ KindOf(m) = KindOf(n) /\ FileOf(m) = FileOf(n)
    /\ m.name = "p" <=> n.name = "p"
    /\ n.name = "block" => m.name = "block"

(* What is no paragraph has a file, or what an element can hold instead.     *)
Filed(n) == n.name # "p" => n.file \in Files \cup Bare \/ (n.file \in Inner /\ n.inner \in Files)

LEMMA NamesApart ==
    /\ \A x \in Inner \cup Bare : x \notin Files /\ x # None
    /\ None \notin Files /\ Root \in Files
    /\ \A x \in Inner : x \notin Bare
BY RootAssumption DEF Inner, Bare

LEMMA NodeFacts ==
    ASSUME NEW n \in NodeType
    PROVE  /\ n.name \in Names /\ n.of \in Origin /\ n.file \in Origin /\ n.inner \in Files \cup {None}
           /\ n.parent \in Nat /\ n.context \in Origin /\ n.error \in Errors
BY DEF NodeType

LEMMA SameRefl == ASSUME NEW n PROVE Same(n, n)
BY DEF Same

LEMMA SameTrans ==
    ASSUME NEW n, NEW m, NEW l, Same(n, m), Same(m, l)
    PROVE  Same(n, l)
BY DEF Same

(* The names of an include follow each other, as do those of an import. *)
LEMMA Renamed ==
    ASSUME NEW n \in NodeType, NEW x \in Names,
           \/ n.name = "include" /\ x = "text"
           \/ n.name = "#include" /\ x = "include"
           \/ n.name = "#import" /\ x = "import"
           \/ n.name = "import" /\ x = "block"
    PROVE  /\ [n EXCEPT !.name = x] \in NodeType /\ Same(n, [n EXCEPT !.name = x])
           /\ [n EXCEPT !.name = x].name = x
           /\ [n EXCEPT !.name = x].context = n.context /\ [n EXCEPT !.name = x].error = n.error
<1> DEFINE m == [n EXCEPT !.name = x]
<1>1. m \in NodeType /\ m.name = x /\ m.context = n.context /\ m.error = n.error
  BY DEF NodeType
<1>2. m.of = n.of /\ m.file = n.file /\ m.inner = n.inner /\ m.parent = n.parent
  BY DEF NodeType
<1> HIDE DEF m
<1>3. Same(n, m)
  BY <1>1, <1>2 DEF Same, KindOf, FileOf
<1> QED
  BY <1>1, <1>3 DEF m

LEMMA Failed ==
    ASSUME NEW n \in NodeType, NEW e \in Errors
    PROVE  /\ [n EXCEPT !.error = e] \in NodeType /\ Same(n, [n EXCEPT !.error = e])
           /\ [n EXCEPT !.error = e].name = n.name
           /\ [n EXCEPT !.error = e].context = n.context /\ [n EXCEPT !.error = e].error = e
<1> DEFINE m == [n EXCEPT !.error = e]
<1>1. m \in NodeType /\ m.name = n.name /\ m.context = n.context /\ m.error = e
  BY DEF NodeType
<1>2. m.of = n.of /\ m.file = n.file /\ m.inner = n.inner /\ m.parent = n.parent
  BY DEF NodeType
<1> HIDE DEF m
<1>3. Same(n, m)
  BY <1>1, <1>2 DEF Same, KindOf, FileOf
<1> QED
  BY <1>1, <1>3 DEF m

LEMMA Labelled ==
    ASSUME NEW n \in NodeType, NEW c \in Origin
    PROVE  /\ [n EXCEPT !.context = c] \in NodeType /\ Same(n, [n EXCEPT !.context = c])
           /\ [n EXCEPT !.context = c].name = n.name
           /\ [n EXCEPT !.context = c].context = c /\ [n EXCEPT !.context = c].error = n.error
<1> DEFINE m == [n EXCEPT !.context = c]
<1>1. m \in NodeType /\ m.name = n.name /\ m.context = c /\ m.error = n.error
  BY DEF NodeType
<1>2. m.of = n.of /\ m.file = n.file /\ m.inner = n.inner /\ m.parent = n.parent
  BY DEF NodeType
<1> HIDE DEF m
<1>3. Same(n, m)
  BY <1>1, <1>2 DEF Same, KindOf, FileOf
<1> QED
  BY <1>1, <1>3 DEF m

LEMMA ItemNodeFacts ==
    ASSUME NEW x \in Item, NEW textual \in BOOLEAN, NEW of \in Origin, NEW p \in Nat
    PROVE  /\ ItemNode(x, textual, of, p) \in NodeType
           /\ ItemNode(x, textual, of, p).of = of
           /\ ItemNode(x, textual, of, p).parent = p
           /\ ItemNode(x, textual, of, p).context = None
           /\ ItemNode(x, textual, of, p).name # "block"
           /\ ItemNode(x, textual, of, p).name # "p" => x.k # "p"
           /\ KindOf(ItemNode(x, textual, of, p)) = x.k
           /\ FileOf(ItemNode(x, textual, of, p)) = x.f
           /\ Filed(ItemNode(x, textual, of, p))
<1> DEFINE n == ItemNode(x, textual, of, p)
<1>1. /\ x.k \in {"p", "import", "include"} \cup Inner \cup Bare
      /\ x.k \in {"p"} \cup Bare => x.f = None
      /\ x.k \in {"import", "include"} \cup Inner => x.f \in Files
  BY DEF Item, Inner, Bare
<1>2. /\ \A z \in Inner \cup Bare : z \notin Files /\ z # None
      /\ None \notin Files /\ (\A z \in Inner : z \notin Bare)
      /\ \A z \in Inner \cup Bare : z \notin {"p", "import", "include"}
  BY NamesApart DEF Inner, Bare
<1>3. ASSUME NEW name \in Names, NEW file \in Origin, NEW inner \in Files \cup {None},
             n = Node(name, of, file, inner, p)
      PROVE  /\ n \in NodeType /\ n.name = name /\ n.file = file /\ n.inner = inner
             /\ n.of = of /\ n.parent = p /\ n.context = None
  <2> HIDE DEF n
  <2> QED BY <1>3 DEF Node, NodeType, Errors, Origin
<1>4. CASE x.k = "p"
  <2>1. n = Node("p", of, None, None, p)
    BY <1>4 DEF ItemNode
  <2>2. /\ n \in NodeType /\ n.name = "p" /\ n.file = None /\ n.inner = None
        /\ n.of = of /\ n.parent = p /\ n.context = None
    <3> HIDE DEF n
    <3> QED BY <1>3, <2>1 DEF Names, Origin
  <2> HIDE DEF n
  <2>3. KindOf(n) = x.k /\ FileOf(n) = x.f
    BY <1>1, <1>2, <1>4, <2>2 DEF KindOf, FileOf
  <2>4. Filed(n)
    BY <2>2 DEF Filed
  <2> QED BY <2>2, <2>3, <2>4 DEF n
<1>5. CASE x.k \in Inner
  <2>1. n = Node("import", of, x.k, x.f, p)
    BY <1>2, <1>5 DEF ItemNode
  <2>2. /\ n \in NodeType /\ n.name = "import" /\ n.file = x.k /\ n.inner = x.f
        /\ n.of = of /\ n.parent = p /\ n.context = None
    <3> HIDE DEF n
    <3> QED BY <1>1, <1>3, <1>5, <2>1 DEF Names, Origin
  <2> HIDE DEF n
  <2>3. KindOf(n) = x.k /\ FileOf(n) = x.f
    BY <1>1, <1>2, <1>5, <2>2 DEF KindOf, FileOf
  <2>4. Filed(n)
    BY <1>1, <1>5, <2>2 DEF Filed
  <2> QED BY <1>2, <1>5, <2>2, <2>3, <2>4 DEF n
<1>7. CASE x.k = "bare"
  <2>1. n = Node("import", of, "bare", None, p)
    BY <1>7 DEF ItemNode, Inner
  <2>2. /\ n \in NodeType /\ n.name = "import" /\ n.file = "bare" /\ n.inner = None
        /\ n.of = of /\ n.parent = p /\ n.context = None
    <3> HIDE DEF n
    <3> QED BY <1>3, <2>1 DEF Names, Origin, Bare
  <2> HIDE DEF n
  <2>3. KindOf(n) = x.k /\ FileOf(n) = x.f
    BY <1>1, <1>7, <2>2 DEF KindOf, FileOf, Inner, Bare
  <2>4. Filed(n)
    BY <2>2 DEF Filed, Bare
  <2> QED BY <1>7, <2>2, <2>3, <2>4 DEF n
<1>6. CASE x.k \notin {"p", "bare"} \cup Inner
  <2> DEFINE insert == IF x.k = "include" THEN "include" ELSE "import"
             name == IF textual THEN Directive(insert) ELSE insert
             file == IF x.k = "stdin" THEN "stdin" ELSE x.f
  <2>1. n = Node(name, of, file, None, p)
    BY <1>6 DEF ItemNode
  <2>2. name \in Names /\ name \in IF x.k = "include" THEN {"include", "#include"} ELSE {"import", "#import"}
    BY DEF Directive, Names
  <2>3. x.k \in {"stdin", "import", "include"}
    BY <1>1, <1>6 DEF Bare
  <2>4. x.k = "stdin" => file = "stdin" /\ x.f = None
    BY <1>1 DEF Bare
  <2>5. x.k # "stdin" => file = x.f /\ file \in Files
    BY <1>1, <2>3
  <2>6. file \in Origin
    BY <2>4, <2>5 DEF Origin, Bare
  <2> HIDE DEF name, file, n
  <2>7. /\ n \in NodeType /\ n.name = name /\ n.file = file /\ n.inner = None
        /\ n.of = of /\ n.parent = p /\ n.context = None
    BY <1>3, <2>1, <2>2, <2>6
  <2>8. KindOf(n) = x.k /\ FileOf(n) = x.f
    <3>1. CASE x.k = "stdin"
      BY <2>2, <2>4, <2>7, <3>1 DEF KindOf, FileOf, Inner, Bare
    <3>2. CASE x.k # "stdin"
      BY <1>2, <2>2, <2>3, <2>5, <2>7, <3>2 DEF KindOf, FileOf
    <3> QED BY <3>1, <3>2
  <2>9. n.name # "block" /\ n.name # "p"
    BY <2>2, <2>7
  <2>10. Filed(n)
    BY <2>4, <2>5, <2>7 DEF Filed, Bare
  <2> QED BY <2>3, <2>7, <2>8, <2>9, <2>10 DEF n
<1> QED
  BY <1>4, <1>5, <1>6, <1>7

LEMMA FreshFacts ==
    ASSUME NEW c \in Seq(Item), NEW textual \in BOOLEAN, NEW of \in Origin, NEW p \in Nat
    PROVE  /\ Fresh(c, textual, of, p) \in Seq(NodeType) /\ Len(Fresh(c, textual, of, p)) = Len(c)
           /\ \A k \in 1..Len(c) : Fresh(c, textual, of, p)[k] = ItemNode(c[k], textual, of, p)
<1>1. Len(c) \in Nat /\ DOMAIN c = 1..Len(c) /\ \A k \in 1..Len(c) : c[k] \in Item
  BY SeqFacts
<1> DEFINE f == Fresh(c, textual, of, p)
<1>2. f = [k \in 1..Len(c) |-> ItemNode(c[k], textual, of, p)]
  BY <1>1 DEF Fresh
<1>3. \A k \in 1..Len(c) : f[k] = ItemNode(c[k], textual, of, p) /\ f[k] \in NodeType
  <2> HIDE DEF f
  <2> QED BY <1>1, <1>2, ItemNodeFacts
<1>4. f \in Seq(NodeType) /\ Len(f) = Len(c)
  <2>1. DOMAIN f = 1..Len(c) /\ f = [k \in 1..Len(c) |-> f[k]]
    <3> HIDE DEF f
    <3> QED BY <1>2
  <2> HIDE DEF f
  <2> QED BY <1>1, <1>3, <2>1, FunctionSeq
<1> QED
  BY <1>3, <1>4

LEMMA RecognizedFacts ==
    ASSUME NEW ns \in Seq(NodeType), NEW insert \in {"import", "include"}, NEW ids
    PROVE  /\ Recognized(ns, insert, ids) \in Seq(NodeType)
           /\ Len(Recognized(ns, insert, ids)) = Len(ns)
           /\ \A i \in 1..Len(ns) : /\ Same(ns[i], Recognized(ns, insert, ids)[i])
                                    /\ Recognized(ns, insert, ids)[i].context = ns[i].context
                                    /\ Recognized(ns, insert, ids)[i].error = ns[i].error
                                    /\ Recognized(ns, insert, ids)[i].name \in {"block", "p"} =>
                                          Recognized(ns, insert, ids)[i].name = ns[i].name
                                    /\ Recognized(ns, insert, ids)[i].name # ns[i].name =>
                                          /\ Recognized(ns, insert, ids)[i].name = insert
                                          /\ \E k \in DOMAIN ids : ids[k] = i
<1>1. Len(ns) \in Nat /\ DOMAIN ns = 1..Len(ns) /\ \A i \in 1..Len(ns) : ns[i] \in NodeType
  BY SeqFacts
<1> DEFINE us == Recognized(ns, insert, ids)
<1>2. us = [i \in 1..Len(ns) |->
                IF ns[i].name = Directive(insert) /\ \E k \in DOMAIN ids : ids[k] = i
                THEN [ns[i] EXCEPT !.name = insert] ELSE ns[i]]
  BY <1>1 DEF Recognized
<1> HIDE DEF us
<1>3. ASSUME NEW i \in 1..Len(ns)
      PROVE  /\ us[i] \in NodeType
             /\ Same(ns[i], us[i]) /\ us[i].context = ns[i].context /\ us[i].error = ns[i].error
             /\ us[i].name \in {"block", "p"} => us[i].name = ns[i].name
             /\ us[i].name # ns[i].name => us[i].name = insert /\ \E k \in DOMAIN ids : ids[k] = i
  <2>1. CASE ns[i].name = Directive(insert) /\ \E k \in DOMAIN ids : ids[k] = i
    <3>1. us[i] = [ns[i] EXCEPT !.name = insert]
      BY <1>2, <2>1
    <3>2. PICK n : n = ns[i]
      OBVIOUS
    <3>3. n \in NodeType /\ insert \in Names
      BY <1>1, <3>2 DEF Names
    <3>4. \/ n.name = "#include" /\ insert = "include"
          \/ n.name = "#import" /\ insert = "import"
      BY <2>1, <3>2 DEF Directive
    <3>5. /\ us[i] \in NodeType /\ Same(n, us[i]) /\ us[i].name = insert
          /\ us[i].context = n.context /\ us[i].error = n.error
      BY <3>1, <3>2, <3>3, <3>4, Renamed
    <3> QED BY <2>1, <3>2, <3>5
  <2>2. CASE ~(ns[i].name = Directive(insert) /\ \E k \in DOMAIN ids : ids[k] = i)
    <3>1. us[i] = ns[i]
      BY <1>2, <2>2
    <3> QED BY <1>1, <3>1, SameRefl
  <2> QED BY <2>1, <2>2
<1>4. us \in Seq(NodeType) /\ Len(us) = Len(ns)
  <2>1. DOMAIN us = 1..Len(ns) /\ us = [i \in 1..Len(ns) |-> us[i]]
    BY <1>2
  <2> QED BY <1>1, <1>3, <2>1, FunctionSeq
<1> QED
  BY <1>3, <1>4 DEF us

-----------------------------------------------------------------------------
(* The tree *)

(* A node but the root is once among the children of one that is older, and  *)
(* only blocks have children.                                                *)
Older(ns) == ns[1].parent = 0 /\ \A j \in 2..Len(ns) : ns[j].parent \in 1..(j - 1)
KidsOf(ns, ks) ==
    /\ \A i \in 1..Len(ns) : \A k \in 1..Len(ks[i]) : ks[i][k] \in 2..Len(ns) /\ ns[ks[i][k]].parent = i
    /\ \A i \in 1..Len(ns) : \A k, l \in 1..Len(ks[i]) : ks[i][k] = ks[i][l] => k = l
    /\ \A j \in 2..Len(ns) : \E k \in 1..Len(ks[ns[j].parent]) : ks[ns[j].parent][k] = j
    /\ \A i \in 1..Len(ns) : ns[i].name # "block" => ks[i] = <<>>
Tree(ns, ks) ==
    /\ ns \in Seq(NodeType) /\ Len(ns) > 0 /\ ks \in Seq(Seq(Nat)) /\ Len(ks) = Len(ns)
    /\ Older(ns) /\ KidsOf(ns, ks)
    /\ \A j \in 2..Len(ns) : Filed(ns[j])

LEMMA TreeFacts ==
    ASSUME NEW ns, NEW ks, Tree(ns, ks)
    PROVE  /\ Len(ns) \in Nat /\ Len(ns) > 0 /\ DOMAIN ns = 1..Len(ns) /\ 1 \in 1..Len(ns)
           /\ Len(ks) = Len(ns) /\ DOMAIN ks = 1..Len(ns)
           /\ \A i \in 1..Len(ns) : /\ ns[i] \in NodeType /\ ks[i] \in Seq(Nat)
                                    /\ Len(ks[i]) \in Nat /\ DOMAIN ks[i] = 1..Len(ks[i])
           /\ \A j \in 1..Len(ns) : ns[j].parent \in 0..(j - 1) /\ ns[j].parent \in 0..Len(ns)
<1>1. /\ Len(ns) \in Nat /\ DOMAIN ns = 1..Len(ns) /\ Len(ns) > 0
      /\ \A i \in 1..Len(ns) : ns[i] \in NodeType
  BY SeqFacts DEF Tree
<1>2. Len(ks) = Len(ns) /\ DOMAIN ks = 1..Len(ks) /\ \A i \in 1..Len(ks) : ks[i] \in Seq(Nat)
  BY SeqFacts DEF Tree
<1>3. \A s \in Seq(Nat) : Len(s) \in Nat /\ DOMAIN s = 1..Len(s)
  BY SeqFacts
<1>4. ASSUME NEW j \in 1..Len(ns)
      PROVE  ns[j].parent \in 0..(j - 1) /\ ns[j].parent \in 0..Len(ns)
  <2>1. CASE j = 1
    BY <1>1, <2>1 DEF Tree, Older
  <2>2. CASE j # 1
    <3>1. j \in 2..Len(ns)
      BY <1>1, <2>2
    <3>2. ns[j].parent \in 1..(j - 1)
      BY <3>1 DEF Tree, Older
    <3> QED BY <1>1, <3>2
  <2> QED BY <2>1, <2>2
<1> QED
  BY <1>1, <1>2, <1>3, <1>4

(* a gives the nodes around each node. *)
Ways(ns, a) == a = [j \in 0..Len(ns) |-> IF j = 0 THEN {} ELSE {j} \cup a[ns[j].parent]]

LEMMA AroundIs ==
    ASSUME NEW ns, NEW ks, Tree(ns, ks), NEW a, Ways(ns, a)
    PROVE  \A i \in 0..Len(ns) : Around(ns, i) = a[i]
<1> DEFINE c == CHOOSE b : Ways(ns, b)
<1>1. Ways(ns, c)
  OBVIOUS
<1>2. \A i : Around(ns, i) = c[i]
  BY DEF Around, Ways
<1> HIDE DEF c
<1> DEFINE S == {j \in 0..Len(ns) : c[j] # a[j]}
<1> SUFFICES ASSUME S # {} PROVE FALSE
  BY <1>2
<1>3. S \in SUBSET Nat
  OBVIOUS
<1>4. PICK j \in S : \A i \in S : j <= i
  <2> HIDE DEF S
  <2> QED BY <1>3, LeastNat
<1>5. j \in 0..Len(ns) /\ c[j] # a[j] /\ Len(ns) \in Nat
  BY TreeFacts
<1>6. /\ c[j] = IF j = 0 THEN {} ELSE {j} \cup c[ns[j].parent]
      /\ a[j] = IF j = 0 THEN {} ELSE {j} \cup a[ns[j].parent]
  BY <1>1, <1>5 DEF Ways
<1>7. j \in 1..Len(ns)
  BY <1>5, <1>6
<1>8. ns[j].parent \in 0..(j - 1) /\ ns[j].parent \in 0..Len(ns)
  BY <1>7, TreeFacts
<1>9. ns[j].parent \in S
  BY <1>5, <1>6, <1>8
<1>10. j <= ns[j].parent
  <2> HIDE DEF S
  <2> QED BY <1>4, <1>9
<1> QED
  BY <1>7, <1>8, <1>10

LEMMA AroundFacts ==
    ASSUME NEW ns, NEW ks, Tree(ns, ks), \E a : Ways(ns, a)
    PROVE  /\ Around(ns, 0) = {}
           /\ \A j \in 1..Len(ns) : Around(ns, j) = {j} \cup Around(ns, ns[j].parent)
<1>1. PICK a : Ways(ns, a)
  OBVIOUS
<1>2. Len(ns) \in Nat /\ \A j \in 1..Len(ns) : ns[j].parent \in 0..Len(ns)
  BY TreeFacts
<1>3. \A i \in 0..Len(ns) : Around(ns, i) = a[i]
  BY <1>1, AroundIs
<1>4. a[0] = {} /\ \A j \in 1..Len(ns) : a[j] = {j} \cup a[ns[j].parent]
  BY <1>1, <1>2 DEF Ways
<1> QED
  BY <1>2, <1>3, <1>4

(* What is around a node and not it has children: it is a block. *)
LEMMA AroundBlocks ==
    ASSUME NEW ns, NEW ks, Tree(ns, ks), \E a : Ways(ns, a)
    PROVE  /\ \A j \in 0..Len(ns) : Around(ns, j) \subseteq 1..Len(ns)
           /\ \A j \in 1..Len(ns) : \A i \in Around(ns, ns[j].parent) : ns[i].name = "block"
           /\ \A j \in 1..Len(ns) : \A i \in Around(ns, j) : i = j \/ ns[i].name = "block"
<1>1. /\ Len(ns) \in Nat /\ Len(ns) > 0 /\ 1 \in 1..Len(ns)
      /\ \A j \in 1..Len(ns) : ns[j].parent \in 0..(j - 1) /\ ns[j].parent \in 0..Len(ns)
      /\ \A j \in 1..Len(ns) : Len(ks[j]) \in Nat
  BY TreeFacts
<1>2. /\ Around(ns, 0) = {}
      /\ \A j \in 1..Len(ns) : Around(ns, j) = {j} \cup Around(ns, ns[j].parent)
  BY AroundFacts
<1>3. \A j \in 1..Len(ns) : ns[j].parent \in 1..Len(ns) => ns[ns[j].parent].name = "block"
  <2> SUFFICES ASSUME NEW j \in 1..Len(ns), ns[j].parent \in 1..Len(ns) PROVE ns[ns[j].parent].name = "block"
    OBVIOUS
  <2>1. j \in 2..Len(ns)
    BY <1>1 DEF Tree, Older
  <2>2. PICK k \in 1..Len(ks[ns[j].parent]) : ks[ns[j].parent][k] = j
    BY <2>1 DEF Tree, KidsOf
  <2>3. ks[ns[j].parent] # <<>>
    BY <2>2, EmptySeq
  <2> QED BY <2>3 DEF Tree, KidsOf
<1> DEFINE Good(j) == Around(ns, j) \subseteq 1..Len(ns) /\ \A i \in Around(ns, j) : i = j \/ ns[i].name = "block"
           S == {j \in 0..Len(ns) : ~Good(j)}
<1>4. ASSUME S # {} PROVE FALSE
  <2>1. S \in SUBSET Nat
    OBVIOUS
  <2>2. PICK j \in S : \A i \in S : j <= i
    <3> HIDE DEF S
    <3> QED BY <1>4, <2>1, LeastNat
  <2>3. j \in 0..Len(ns) /\ ~Good(j)
    OBVIOUS
  <2>4. j \in 1..Len(ns)
    BY <1>2, <2>3
  <2>5. PICK p : p = ns[j].parent
    OBVIOUS
  <2>6. p \in 0..(j - 1) /\ p \in 0..Len(ns)
    BY <1>1, <2>4, <2>5
  <2>7. Good(p)
    <3>1. p \in S => j <= p
      <4> HIDE DEF S
      <4> QED BY <2>2
    <3>2. ~(j <= p)
      BY <2>4, <2>6
    <3> QED BY <2>6, <3>1, <3>2
  <2>8. Around(ns, j) = {j} \cup Around(ns, p)
    BY <1>2, <2>4, <2>5
  <2>9. p \in 1..Len(ns) => ns[p].name = "block"
    BY <1>3, <2>4, <2>5
  <2>10. p \notin 1..Len(ns) => Around(ns, p) = {}
    BY <1>2, <2>6
  <2> QED BY <2>3, <2>4, <2>7, <2>8, <2>9, <2>10
<1>5. \A j \in 0..Len(ns) : Good(j)
  BY <1>4
<1> HIDE DEF S
<1>6. ASSUME NEW j \in 1..Len(ns), NEW i \in Around(ns, ns[j].parent) PROVE ns[i].name = "block"
  <2>1. PICK p : p = ns[j].parent
    OBVIOUS
  <2>2. p \in 0..Len(ns)
    BY <1>1, <2>1
  <2>3. i \in Around(ns, p) /\ Good(p)
    BY <1>5, <2>1, <2>2
  <2>4. p # 0
    BY <1>2, <2>3
  <2>5. p \in 1..Len(ns)
    BY <1>1, <2>2, <2>4
  <2> QED BY <1>3, <2>1, <2>3, <2>5
<1> QED
  BY <1>1, <1>5, <1>6

(* A node that is below another is at or below a child of it. *)
LEMMA AroundChild ==
    ASSUME NEW ns, NEW ks, Tree(ns, ks), \E a : Ways(ns, a), NEW i \in 1..Len(ns), NEW at \in Around(ns, i), at # i
    PROVE  \E c \in Around(ns, i) : c \in 2..Len(ns) /\ ns[c].parent = at
<1>1. /\ Len(ns) \in Nat /\ Len(ns) > 0 /\ 1 \in 1..Len(ns)
      /\ \A j \in 1..Len(ns) : ns[j].parent \in 0..(j - 1) /\ ns[j].parent \in 0..Len(ns)
      /\ ns[1].parent = 0
  BY TreeFacts DEF Tree, Older
<1>2. /\ Around(ns, 0) = {}
      /\ \A j \in 1..Len(ns) : Around(ns, j) = {j} \cup Around(ns, ns[j].parent)
  BY AroundFacts
<1> DEFINE Good(j) == at \in Around(ns, j) /\ at # j => \E c \in Around(ns, j) : c \in 2..Len(ns) /\ ns[c].parent = at
           S == {j \in 0..Len(ns) : ~Good(j)}
<1> SUFFICES ASSUME S # {} PROVE FALSE
  <2>1. i \in 0..Len(ns)
    BY <1>1
  <2> QED BY <2>1
<1>3. S \in SUBSET Nat
  OBVIOUS
<1>4. PICK j \in S : \A k \in S : j <= k
  <2> HIDE DEF S
  <2> QED BY <1>3, LeastNat
<1>5. j \in 0..Len(ns) /\ ~Good(j)
  OBVIOUS
<1>6. j \in 1..Len(ns) /\ at \in Around(ns, j) /\ at # j
  BY <1>2, <1>5
<1>7. PICK p : p = ns[j].parent
  OBVIOUS
<1>8. p \in 0..(j - 1) /\ p \in 0..Len(ns) /\ Around(ns, j) = {j} \cup Around(ns, p)
  BY <1>1, <1>2, <1>6, <1>7
<1>9. at \in Around(ns, p) /\ p # 0
  BY <1>2, <1>6, <1>8
<1>10. j \in 2..Len(ns)
  BY <1>1, <1>6, <1>7, <1>8, <1>9
<1>11. CASE at = p
  BY <1>5, <1>7, <1>8, <1>10, <1>11
<1>12. CASE at # p
  <2>1. Good(p)
    <3>1. p \in S => j <= p
      <4> HIDE DEF S
      <4> QED BY <1>4
    <3>2. ~(j <= p)
      BY <1>6, <1>8
    <3> QED BY <1>8, <3>1, <3>2
  <2> QED BY <1>5, <1>8, <1>9, <1>12, <2>1
<1> QED
  BY <1>11, <1>12

(* What is around a node is not younger. *)
LEMMA AroundOlder ==
    ASSUME NEW ns, NEW ks, Tree(ns, ks), \E a : Ways(ns, a), NEW i \in 1..Len(ns), NEW d \in Around(ns, i)
    PROVE  d \in 1..Len(ns) /\ d <= i
<1>1. /\ Len(ns) \in Nat
      /\ \A j \in 1..Len(ns) : ns[j].parent \in 0..(j - 1) /\ ns[j].parent \in 0..Len(ns)
      /\ Around(ns, 0) = {}
      /\ \A j \in 1..Len(ns) : Around(ns, j) = {j} \cup Around(ns, ns[j].parent)
  BY TreeFacts, AroundFacts
<1>2. \A j \in 0..Len(ns) : Around(ns, j) \subseteq 1..Len(ns)
  BY AroundBlocks
<1> DEFINE S == {j \in 1..Len(ns) : \E a \in Around(ns, j) : ~(a <= j)}
<1>3. ASSUME S # {} PROVE FALSE
  <2>1. S \in SUBSET Nat
    OBVIOUS
  <2>2. PICK j \in S : \A l \in S : j <= l
    <3> HIDE DEF S
    <3> QED BY <1>3, <2>1, LeastNat
  <2>3. PICK a \in Around(ns, j) : ~(a <= j)
    OBVIOUS
  <2>4. j \in 1..Len(ns) /\ j \in Nat
    OBVIOUS
  <2>5. PICK q : q = ns[j].parent
    OBVIOUS
  <2>6. q \in 0..(j - 1) /\ q \in 0..Len(ns) /\ Around(ns, j) = {j} \cup Around(ns, q)
    BY <1>1, <2>4, <2>5
  <2>7. a # j
    BY <2>3, <2>4
  <2>8. a \in Around(ns, q)
    BY <2>3, <2>6, <2>7
  <2>9. q \in 1..Len(ns) /\ a \in 1..Len(ns)
    BY <1>1, <1>2, <2>6, <2>8
  <2>10. q \in S
    BY <2>3, <2>4, <2>6, <2>8, <2>9
  <2>11. j <= q
    <3> HIDE DEF S
    <3> QED BY <2>2, <2>10
  <2> QED BY <2>4, <2>6, <2>11
<1>4. i \in 0..Len(ns)
  BY <1>1
<1> QED
  BY <1>2, <1>3, <1>4

-----------------------------------------------------------------------------
(* Growth *)

(* Nodes change as they may, and m new ones are below p. *)
Grown(ns, us, p, m) ==
    /\ us \in Seq(NodeType) /\ m \in Nat /\ Len(us) = Len(ns) + m
    /\ \A j \in 1..Len(ns) : Same(ns[j], us[j])
    /\ \A j \in (Len(ns) + 1)..Len(us) :
          us[j].parent = p /\ us[j].context = None /\ us[j].name # "block" /\ Filed(us[j])

(* They are put behind the first "at" children of p. *)
Inserted(ks, vs, p, at, m) ==
    /\ vs \in Seq(Seq(Nat)) /\ Len(vs) = Len(ks) + m
    /\ \A j \in 1..Len(ks) : j # p => vs[j] = ks[j]
    /\ \A j \in (Len(ks) + 1)..Len(vs) : vs[j] = <<>>
    /\ at \in 0..Len(ks[p]) /\ Len(vs[p]) = Len(ks[p]) + m
    /\ \A k \in 1..at : vs[p][k] = ks[p][k]
    /\ \A k \in (at + 1)..(at + m) : vs[p][k] = Len(ks) + (k - at)
    /\ \A k \in (at + m + 1)..(Len(ks[p]) + m) : vs[p][k] = ks[p][k - m]

LEMMA GrownTree ==
    ASSUME NEW ns, NEW ks, Tree(ns, ks), NEW us, NEW vs, NEW p \in 1..Len(ns), NEW at, NEW m,
           Grown(ns, us, p, m), Inserted(ks, vs, p, at, m), m # 0 => us[p].name = "block"
    PROVE  Tree(us, vs)
<1>1. /\ Len(ns) \in Nat /\ Len(ns) > 0 /\ 1 \in 1..Len(ns) /\ Len(ks) = Len(ns)
      /\ \A i \in 1..Len(ns) : ks[i] \in Seq(Nat) /\ Len(ks[i]) \in Nat
      /\ m \in Nat /\ Len(us) = Len(ns) + m /\ Len(vs) = Len(us)
  BY TreeFacts DEF Grown, Inserted
<1>2. at \in 0..Len(ks[p])
  BY DEF Inserted
<1>n. at \in Nat /\ at <= Len(ks[p]) /\ Len(ks[p]) \in Nat
  BY <1>1, <1>2
<1>3. \A j \in 1..Len(ns) : us[j].parent = ns[j].parent /\ (us[j].name # "block" => ns[j].name # "block")
  BY DEF Grown, Same
<1>4. Older(us)
  <2>1. us[1].parent = 0
    BY <1>1, <1>3 DEF Tree, Older
  <2>2. ASSUME NEW j \in 2..Len(us) PROVE us[j].parent \in 1..(j - 1)
    <3>1. CASE j \in 2..Len(ns)
      <4>1. ns[j].parent \in 1..(j - 1) /\ j \in 1..Len(ns)
        <5>1. ns[j].parent \in 1..(j - 1)
          BY <3>1 DEF Tree, Older
        <5> QED BY <1>1, <3>1, <5>1
      <4> QED BY <1>3, <4>1
    <3>2. CASE j \notin 2..Len(ns)
      <4>1. j \in (Len(ns) + 1)..Len(us)
        BY <1>1, <2>2, <3>2
      <4>2. us[j].parent = p
        BY <4>1 DEF Grown
      <4> QED BY <1>1, <4>1, <4>2
    <3> QED BY <3>1, <3>2
  <2> QED BY <2>1, <2>2 DEF Older
(* where a child of p was, or that it is new *)
<1>5. ASSUME NEW k \in 1..Len(vs[p])
      PROVE  \/ k \in 1..at /\ k \in 1..Len(ks[p]) /\ vs[p][k] = ks[p][k]
             \/ k \in (at + 1)..(at + m) /\ vs[p][k] = Len(ns) + (k - at)
             \/ k \in (at + m + 1)..(Len(ks[p]) + m) /\ k - m \in 1..Len(ks[p]) /\ vs[p][k] = ks[p][k - m]
  <2>1. Len(ks[p]) \in Nat /\ Len(vs[p]) = Len(ks[p]) + m
    BY <1>1 DEF Inserted
  <2>2. CASE k \in 1..at
    <3>1. k \in 1..Len(ks[p])
      BY <1>1, <1>2, <2>1, <2>2
    <3> QED BY <2>2, <3>1 DEF Inserted
  <2>3. CASE k \in (at + 1)..(at + m)
    BY <1>1, <2>3 DEF Inserted
  <2>4. CASE k \notin 1..at /\ k \notin (at + 1)..(at + m)
    <3>1. k \in (at + m + 1)..(Len(ks[p]) + m) /\ k - m \in 1..Len(ks[p])
      BY <1>1, <1>2, <2>1, <2>4
    <3> QED BY <3>1 DEF Inserted
  <2> QED BY <2>2, <2>3, <2>4
<1>6. \A k \in 1..Len(ks[p]) : ks[p][k] \in 2..Len(ns) /\ ns[ks[p][k]].parent = p
  BY DEF Tree, KidsOf
<1>7. ASSUME NEW i \in 1..Len(us), NEW k \in 1..Len(vs[i])
      PROVE  vs[i][k] \in 2..Len(us) /\ us[vs[i][k]].parent = i
  <2>1. CASE i = p
    <3>1. ASSUME NEW l \in 1..Len(ks[p]), vs[p][k] = ks[p][l]
          PROVE  vs[p][k] \in 2..Len(us) /\ us[vs[p][k]].parent = p
      <4>1. ks[p][l] \in 2..Len(ns) /\ ns[ks[p][l]].parent = p
        BY <1>6
      <4>2. ks[p][l] \in 1..Len(ns) /\ ks[p][l] \in 2..Len(us)
        BY <1>1, <4>1
      <4> QED BY <1>3, <3>1, <4>1, <4>2
    <3>2. ASSUME k \in (at + 1)..(at + m), vs[p][k] = Len(ns) + (k - at)
          PROVE  vs[p][k] \in 2..Len(us) /\ us[vs[p][k]].parent = p
      <4>1. Len(ns) + (k - at) \in (Len(ns) + 1)..Len(us) /\ Len(ns) + (k - at) \in 2..Len(us)
        BY <1>1, <1>2, <1>n, <3>2
      <4>2. PICK j : j = Len(ns) + (k - at)
        OBVIOUS
      <4>3. us[j].parent = p
        BY <4>1, <4>2 DEF Grown
      <4> QED BY <3>2, <4>1, <4>2, <4>3
    <3> QED BY <1>5, <1>7, <2>1, <3>1, <3>2
  <2>2. CASE i # p
    <3>1. CASE i \in 1..Len(ns)
      <4>1. vs[i] = ks[i]
        BY <1>1, <2>2, <3>1 DEF Inserted
      <4>2. ks[i][k] \in 2..Len(ns) /\ ns[ks[i][k]].parent = i
        BY <1>7, <3>1, <4>1 DEF Tree, KidsOf
      <4>3. ks[i][k] \in 1..Len(ns) /\ ks[i][k] \in 2..Len(us)
        BY <1>1, <4>2
      <4> QED BY <1>3, <4>1, <4>2, <4>3
    <3>2. CASE i \notin 1..Len(ns)
      <4>1. i \in (Len(ks) + 1)..Len(vs)
        BY <1>1, <1>7, <3>2
      <4>2. Len(vs[i]) = 0
        BY <4>1, EmptySeq DEF Inserted
      <4> QED BY <1>7, <4>2
    <3> QED BY <3>1, <3>2
  <2> QED BY <2>1, <2>2
<1>8. ASSUME NEW i \in 1..Len(us), NEW k \in 1..Len(vs[i]), NEW l \in 1..Len(vs[i]), vs[i][k] = vs[i][l]
      PROVE  k = l
  <2>1. CASE i = p
    <3>1. \A x, y \in 1..Len(ks[p]) : ks[p][x] = ks[p][y] => x = y
      BY DEF Tree, KidsOf
    <3>2. ASSUME NEW x \in 1..Len(vs[p])
          PROVE  vs[p][x] \in 2..Len(ns) <=> x \notin (at + 1)..(at + m)
      <4>1. /\ at \in Nat /\ Len(ns) \in Nat /\ m \in Nat
        BY <1>1, <1>2
      <4>2. CASE x \in (at + 1)..(at + m)
        <5>1. vs[p][x] = Len(ns) + (x - at)
          BY <1>5, <3>2, <4>1, <4>2
        <5> QED BY <4>1, <4>2, <5>1
      <4>3. CASE x \notin (at + 1)..(at + m)
        BY <1>5, <1>6, <3>2, <4>3
      <4> QED BY <4>2, <4>3
    <3>3. k \in 1..Len(vs[p]) /\ l \in 1..Len(vs[p]) /\ vs[p][k] = vs[p][l]
      BY <1>8, <2>1
    <3>4. CASE k \in (at + 1)..(at + m)
      <4>1. l \in (at + 1)..(at + m)
        BY <3>2, <3>3, <3>4
      <4>2. vs[p][k] = Len(ns) + (k - at) /\ vs[p][l] = Len(ns) + (l - at)
        BY <1>1, <1>2, <1>5, <3>3, <3>4, <4>1
      <4>3. Len(ns) + (k - at) = Len(ns) + (l - at)
        BY <3>3, <4>2
      <4>4. k \in Int /\ l \in Int /\ at \in Int /\ Len(ns) \in Int
        BY <1>1, <1>n, <3>4, <4>1
      <4>5. PICK N : N = Len(ns)
        OBVIOUS
      <4>6. N + (k - at) = N + (l - at) /\ N \in Int
        BY <4>3, <4>4, <4>5
      <4> QED BY ONLY <4>4, <4>6
    <3>5. CASE k \notin (at + 1)..(at + m)
      <4>1. l \notin (at + 1)..(at + m)
        BY <3>2, <3>3, <3>5
      <4>2. \/ k \in 1..at /\ k \in 1..Len(ks[p]) /\ vs[p][k] = ks[p][k]
            \/ k \in (at + m + 1)..(Len(ks[p]) + m) /\ k - m \in 1..Len(ks[p]) /\ vs[p][k] = ks[p][k - m]
        BY <1>5, <3>3, <3>5
      <4>3. \/ l \in 1..at /\ l \in 1..Len(ks[p]) /\ vs[p][l] = ks[p][l]
            \/ l \in (at + m + 1)..(Len(ks[p]) + m) /\ l - m \in 1..Len(ks[p]) /\ vs[p][l] = ks[p][l - m]
        BY <1>5, <3>3, <4>1
      <4>4. CASE k \in 1..at /\ l \in 1..at
        BY <1>1, <1>2, <3>1, <3>3, <4>2, <4>3, <4>4
      <4>5. CASE k \in 1..at /\ l \notin 1..at
        <5>1. k = l - m /\ l \in (at + m + 1)..(Len(ks[p]) + m)
          <6>1. k \notin (at + m + 1)..(Len(ks[p]) + m)
            BY <1>1, <1>2, <4>5
          <6> QED BY <3>1, <3>3, <4>2, <4>3, <4>5, <6>1
        <5> QED BY <1>1, <1>2, <4>5, <5>1
      <4>6. CASE k \notin 1..at /\ l \in 1..at
        <5>1. l = k - m /\ k \in (at + m + 1)..(Len(ks[p]) + m)
          <6>1. l \notin (at + m + 1)..(Len(ks[p]) + m)
            BY <1>1, <1>2, <4>6
          <6> QED BY <3>1, <3>3, <4>2, <4>3, <4>6, <6>1
        <5> QED BY <1>1, <1>2, <4>6, <5>1
      <4>7. CASE k \notin 1..at /\ l \notin 1..at
        <5>1. k - m = l - m
          BY <3>1, <3>3, <4>2, <4>3, <4>7
        <5> QED BY <1>1, <1>2, <3>3, <5>1
      <4> QED BY <4>4, <4>5, <4>6, <4>7
    <3> QED BY <3>4, <3>5
  <2>2. CASE i # p
    <3>1. CASE i \in 1..Len(ns)
      <4>1. vs[i] = ks[i]
        BY <1>1, <2>2, <3>1 DEF Inserted
      <4> QED BY <1>8, <3>1, <4>1 DEF Tree, KidsOf
    <3>2. CASE i \notin 1..Len(ns)
      <4>1. i \in (Len(ks) + 1)..Len(vs)
        BY <1>1, <1>8, <3>2
      <4>2. Len(vs[i]) = 0
        BY <4>1, EmptySeq DEF Inserted
      <4> QED BY <1>8, <4>2
    <3> QED BY <3>1, <3>2
  <2> QED BY <2>1, <2>2
<1>9. ASSUME NEW j \in 2..Len(us) PROVE \E k \in 1..Len(vs[us[j].parent]) : vs[us[j].parent][k] = j
  <2>1. CASE j \in 2..Len(ns)
    <3>1. PICK i : i = ns[j].parent
      OBVIOUS
    <3>2. us[j].parent = i /\ i \in 1..Len(ns)
      <4>1. j \in 1..Len(ns) /\ ns[j].parent \in 1..(j - 1)
        BY <1>1, <2>1 DEF Tree, Older
      <4> QED BY <1>1, <1>3, <3>1, <4>1
    <3>3. PICK k \in 1..Len(ks[i]) : ks[i][k] = j
      BY <2>1, <3>1 DEF Tree, KidsOf
    <3>4. CASE i # p
      BY <1>1, <3>2, <3>3, <3>4 DEF Inserted
    <3>5. CASE i = p
      <4>1. Len(ks[p]) \in Nat /\ Len(vs[p]) = Len(ks[p]) + m
        BY <1>1 DEF Inserted
      <4>2. CASE k \in 1..at
        <5>1. k \in 1..Len(vs[p]) /\ vs[p][k] = j
          <6>1. k \in 1..Len(vs[p])
            BY <1>1, <1>n, <3>3, <3>5, <4>1
          <6>2. vs[p][k] = ks[p][k]
            BY <4>2 DEF Inserted
          <6> QED BY <3>3, <3>5, <6>1, <6>2
        <5> QED BY <3>2, <3>5, <5>1
      <4>3. CASE k \notin 1..at
        <5>1. k + m \in (at + m + 1)..(Len(ks[p]) + m) /\ k + m \in 1..Len(vs[p]) /\ (k + m) - m = k
          BY <1>1, <1>2, <3>3, <3>5, <4>1, <4>3
        <5>2. PICK l : l = k + m
          OBVIOUS
        <5>3. vs[p][l] = ks[p][l - m]
          BY <5>1, <5>2 DEF Inserted
        <5>4. vs[p][l] = j /\ l \in 1..Len(vs[p])
          BY <3>3, <3>5, <5>1, <5>2, <5>3
        <5> QED BY <3>2, <3>5, <5>4
      <4> QED BY <4>2, <4>3
    <3> QED BY <3>4, <3>5
  <2>2. CASE j \notin 2..Len(ns)
    <3>1. j \in (Len(ns) + 1)..Len(us)
      BY <1>1, <2>2, <1>9
    <3>2. us[j].parent = p
      BY <3>1 DEF Grown
    <3>3. PICK l : l = at + (j - Len(ns))
      OBVIOUS
    <3>4. Len(ks[p]) \in Nat /\ Len(vs[p]) = Len(ks[p]) + m
      BY <1>1 DEF Inserted
    <3>5. l \in (at + 1)..(at + m) /\ l \in 1..Len(vs[p]) /\ Len(ks) + (l - at) = j
      <4>1. PICK N, L, M : N = Len(ns) /\ L = Len(ks[p]) /\ M = Len(vs[p])
        OBVIOUS
      <4>2. N \in Nat /\ L \in Nat /\ at \in Nat /\ at <= L /\ m \in Nat /\ M = L + m /\ j \in (N + 1)..(N + m) /\ Len(ks) = N
        BY <1>1, <1>n, <3>1, <3>4, <4>1
      <4>3. l = at + (j - N)
        BY <3>3, <4>1
      <4>4. l \in (at + 1)..(at + m) /\ l \in 1..M /\ N + (l - at) = j
        BY ONLY <4>2, <4>3
      <4> QED BY <4>1, <4>2, <4>4
    <3>6. vs[p][l] = j
      BY <3>5 DEF Inserted
    <3> QED BY <3>2, <3>5, <3>6
  <2> QED BY <2>1, <2>2
<1>10. ASSUME NEW i \in 1..Len(us), us[i].name # "block" PROVE vs[i] = <<>>
  <2>1. CASE i \in 1..Len(ns)
    <3>1. ks[i] = <<>>
      BY <1>3, <1>10, <2>1 DEF Tree, KidsOf
    <3>2. CASE i # p
      BY <1>1, <2>1, <3>1, <3>2 DEF Inserted
    <3>3. CASE i = p
      <4>1. m = 0 /\ Len(ks[p]) = 0
        BY <1>10, <3>1, <3>3, EmptySeq
      <4>2. Len(vs[p]) = 0
        BY <4>1 DEF Inserted
      <4>3. vs[p] \in Seq(Nat)
        BY <1>1, SeqFacts DEF Inserted
      <4> QED BY <3>3, <4>2, <4>3, SeqFacts
    <3> QED BY <3>2, <3>3
  <2>2. CASE i \notin 1..Len(ns)
    BY <1>1, <1>10, <2>2 DEF Inserted
  <2> QED BY <2>1, <2>2
<1>11. KidsOf(us, vs)
  BY <1>7, <1>8, <1>9, <1>10 DEF KidsOf
<1>12. us \in Seq(NodeType) /\ Len(us) > 0 /\ vs \in Seq(Seq(Nat)) /\ Len(vs) = Len(us)
  BY <1>1 DEF Grown, Inserted
<1>13. ASSUME NEW j \in 2..Len(us) PROVE Filed(us[j])
  <2>1. CASE j \in 2..Len(ns)
    <3>1. Filed(ns[j]) /\ j \in 1..Len(ns)
      BY <1>1, <2>1 DEF Tree
    <3>2. Same(ns[j], us[j])
      BY <3>1 DEF Grown
    <3> QED BY <3>1, <3>2 DEF Same, Filed
  <2>2. CASE j \notin 2..Len(ns)
    <3>1. j \in (Len(ns) + 1)..Len(us)
      BY <1>1, <1>13, <2>2
    <3> QED BY <3>1 DEF Grown
  <2> QED BY <2>1, <2>2
<1> QED
  BY <1>4, <1>11, <1>12, <1>13 DEF Tree

(* No node comes between a node and the root. *)
LEMMA GrownAround ==
    ASSUME NEW ns, NEW ks, Tree(ns, ks), \E a : Ways(ns, a), NEW us, NEW vs, Tree(us, vs),
           NEW p \in 1..Len(ns), NEW m, Grown(ns, us, p, m)
    PROVE  /\ \E b : Ways(us, b)
           /\ \A j \in 0..Len(ns) : Around(us, j) = Around(ns, j)
<1>1. PICK a : Ways(ns, a)
  OBVIOUS
<1>2. /\ Len(ns) \in Nat /\ m \in Nat /\ Len(us) = Len(ns) + m
      /\ \A j \in 1..Len(ns) : ns[j].parent \in 0..Len(ns) /\ us[j].parent = ns[j].parent
      /\ \A j \in (Len(ns) + 1)..Len(us) : us[j].parent = p
  BY TreeFacts DEF Grown, Same
<1> DEFINE b == [j \in 0..Len(us) |-> IF j \in 0..Len(ns) THEN a[j] ELSE {j} \cup a[p]]
<1>3. \A j \in 0..Len(us) : b[j] = IF j = 0 THEN {} ELSE {j} \cup b[us[j].parent]
  <2> SUFFICES ASSUME NEW j \in 0..Len(us) PROVE b[j] = IF j = 0 THEN {} ELSE {j} \cup b[us[j].parent]
    OBVIOUS
  <2>1. CASE j = 0
    <3>1. a[0] = {}
      BY <1>1, <1>2 DEF Ways
    <3> QED BY <1>2, <2>1, <3>1
  <2>2. CASE j \in 1..Len(ns)
    <3>1. a[j] = {j} \cup a[ns[j].parent]
      BY <1>1, <1>2, <2>2 DEF Ways
    <3>2. b[j] = a[j]
      BY <1>2, <2>2
    <3>3. PICK q : q = ns[j].parent
      OBVIOUS
    <3>4. q \in 0..Len(ns) /\ us[j].parent = q /\ q \in 0..Len(us)
      BY <1>2, <2>2, <3>3
    <3>5. b[q] = a[q]
      BY <3>4
    <3>6. j # 0
      BY <2>2
    <3> HIDE DEF b
    <3> QED BY <3>1, <3>2, <3>3, <3>4, <3>5, <3>6
  <2>3. CASE j \in (Len(ns) + 1)..Len(us)
    <3>1. b[j] = {j} \cup a[p] /\ j # 0
      BY <1>2, <2>3
    <3>2. b[p] = a[p] /\ us[j].parent = p
      BY <1>2, <2>3
    <3> HIDE DEF b
    <3> QED BY <3>1, <3>2
  <2> QED BY <1>2, <2>1, <2>2, <2>3
<1>4. Ways(us, b)
  <2>1. b = [j \in 0..Len(us) |-> b[j]]
    OBVIOUS
  <2> HIDE DEF b
  <2>2. [j \in 0..Len(us) |-> b[j]] = [j \in 0..Len(us) |-> IF j = 0 THEN {} ELSE {j} \cup b[us[j].parent]]
    BY <1>3
  <2> QED BY <2>1, <2>2 DEF Ways
<1>5. \A j \in 0..Len(us) : Around(us, j) = b[j]
  <2> HIDE DEF b
  <2> QED BY <1>4, AroundIs
<1>6. \A j \in 0..Len(ns) : Around(ns, j) = a[j]
  BY <1>1, AroundIs
<1>7. \A j \in 0..Len(ns) : j \in 0..Len(us) /\ b[j] = a[j]
  BY <1>2
<1> HIDE DEF b
<1> QED
  BY <1>4, <1>5, <1>6, <1>7

-----------------------------------------------------------------------------
(* Contexts *)

(* An instruction has been met between a and element i.                      *)
Between(ns, i, a) == \E d \in Around(ns, ns[i].parent) : ns[d].file = "xml" /\ a < d

(* No element of a kind that is looked at is in one of the same context, but *)
(* for those that an instruction has made.                                   *)
Clear(in, ns, i, f) ==
    f \in Files /\ in.kind[f] \in Checked =>
        \A a \in Around(ns, ns[i].parent) : ns[a].context = f => Between(ns, i, a)
Apart(in, ns) == \A i \in 1..Len(ns) : Clear(in, ns, i, ns[i].context)

(* A context is set before there are children.                               *)
Relabelled(in, ns, us) ==
    \A j \in 1..Len(ns) :
        us[j].context = ns[j].context \/ (ns[j].name # "block" /\ Clear(in, ns, j, us[j].context))

LEMMA GrownApart ==
    ASSUME NEW in, NEW ns, NEW ks, Tree(ns, ks), \E a : Ways(ns, a), NEW us, NEW vs, Tree(us, vs),
           NEW p \in 1..Len(ns), NEW m, Grown(ns, us, p, m), Relabelled(in, ns, us),
           Apart(in, ns)
    PROVE  /\ Apart(in, us)
           /\ \A j \in 1..Len(ns) : us[j].parent \in 0..Len(ns) /\ ns[j].parent = us[j].parent
           /\ \A j \in 1..Len(ns) : \A a \in Around(ns, ns[j].parent) : us[a].context = ns[a].context
<1>1. /\ Len(ns) \in Nat /\ m \in Nat /\ Len(us) = Len(ns) + m
      /\ \A j \in 1..Len(ns) : ns[j].parent \in 0..Len(ns) /\ us[j].parent = ns[j].parent /\ us[j].file = ns[j].file
      /\ \A j \in (Len(ns) + 1)..Len(us) : us[j].context = None
  BY TreeFacts DEF Grown, Same
<1>2. \A j \in 0..Len(ns) : Around(us, j) = Around(ns, j)
  BY GrownAround
<1>3. \A j \in 1..Len(ns) : \A a \in Around(ns, ns[j].parent) : a \in 1..Len(ns) /\ us[a].context = ns[a].context
  <2> SUFFICES ASSUME NEW j \in 1..Len(ns), NEW a \in Around(ns, ns[j].parent)
               PROVE  a \in 1..Len(ns) /\ us[a].context = ns[a].context
    OBVIOUS
  <2>1. PICK q : q = ns[j].parent
    OBVIOUS
  <2>2. q \in 0..Len(ns) /\ a \in Around(ns, q)
    BY <1>1, <2>1
  <2>3. a \in 1..Len(ns) /\ ns[a].name = "block"
    BY <2>2, AroundBlocks
  <2> QED BY <2>3 DEF Relabelled
<1>4. ASSUME NEW j \in 1..Len(ns), NEW f, Clear(in, ns, j, f) PROVE Clear(in, us, j, f)
  <2> SUFFICES ASSUME f \in Files, in.kind[f] \in Checked, NEW a \in Around(us, us[j].parent), us[a].context = f
               PROVE  Between(us, j, a)
    BY DEF Clear
  <2>1. Around(us, us[j].parent) = Around(ns, ns[j].parent)
    BY <1>1, <1>2
  <2>2. ns[a].context = f
    BY <1>3, <2>1
  <2>3. Between(ns, j, a)
    BY <1>4, <2>1, <2>2 DEF Clear
  <2>4. PICK d \in Around(ns, ns[j].parent) : ns[d].file = "xml" /\ a < d
    BY <2>3 DEF Between
  <2>5. us[d].file = "xml"
    BY <1>1, <1>3, <2>4
  <2> QED BY <2>1, <2>4, <2>5 DEF Between
<1>5. ASSUME NEW i \in 1..Len(us) PROVE Clear(in, us, i, us[i].context)
  <2>1. CASE i \in 1..Len(ns)
    <3>1. Clear(in, ns, i, us[i].context)
      BY <2>1 DEF Relabelled, Apart
    <3> QED BY <1>4, <2>1, <3>1
  <2>2. CASE i \notin 1..Len(ns)
    <3>1. us[i].context = None
      BY <1>1, <2>2
    <3> QED BY <3>1, NamesApart DEF Clear
  <2> QED BY <2>1, <2>2
<1> QED
  BY <1>1, <1>3, <1>5 DEF Apart

-----------------------------------------------------------------------------
(* Items *)

Own(ns, ks, f, i) == {k \in DOMAIN ks[i] : ns[ks[i][k]].of = f}
Listed(items, own, at, all) ==
    /\ at \in [DOMAIN items -> own]
    /\ \A j, k \in DOMAIN items : j < k => at[j] < at[k]
    /\ all => \A k \in own : \E j \in DOMAIN items : at[j] = k
ItemsAt(items, ns, ks, i, at) ==
    \A j \in DOMAIN items : KindOf(ns[ks[i][at[j]]]) = items[j].k /\ FileOf(ns[ks[i][at[j]]]) = items[j].f
ItemsIn(in, ns, ks, f, i) ==
    \E at : /\ Listed(in.content[f], Own(ns, ks, f, i), at, in.kind[f] \in Checked)
            /\ ItemsAt(in.content[f], ns, ks, i, at)

(* The blocks of files with items have those of their file.                  *)
HasItems(in, ns, ks) ==
    \A i \in 1..Len(ns) :
        ns[i].name = "block" /\ ns[i].context \in Files /\ in.kind[ns[i].context] \in Text \cup Elements =>
            ItemsIn(in, ns, ks, ns[i].context, i)

LEMMA ItemsOfIn ==
    ASSUME NEW f, NEW i, ItemsIn(input, nodes, kids, f, i)
    PROVE  ItemsOf(f, i)
<1>1. PICK at : /\ Listed(input.content[f], Own(nodes, kids, f, i), at, input.kind[f] \in Checked)
                /\ ItemsAt(input.content[f], nodes, kids, i, at)
  BY DEF ItemsIn
<1>2. at \in [DOMAIN input.content[f] -> {k \in DOMAIN kids[i] : nodes[kids[i][k]].of = f}]
  BY <1>1 DEF Listed, Own
<1> QED
  BY <1>1, <1>2 DEF ItemsOf, Listed, Own, ItemsAt

(* The items stay in their order when what is not of the file is inserted.   *)
LEMMA ItemsStay ==
    ASSUME NEW in, NEW ns, NEW ks, Tree(ns, ks), NEW us, NEW vs, Tree(us, vs),
           NEW p \in 1..Len(ns), NEW at, NEW m, Grown(ns, us, p, m), Inserted(ks, vs, p, at, m),
           NEW i \in 1..Len(ns), NEW f \in Files, in.content[f] \in Seq(Item), ItemsIn(in, ns, ks, f, i),
           i = p /\ in.kind[f] \in Checked => \A j \in (Len(ns) + 1)..Len(us) : us[j].of # f
    PROVE  ItemsIn(in, us, vs, f, i)
<1>1. /\ Len(ns) \in Nat /\ m \in Nat /\ Len(us) = Len(ns) + m /\ Len(ks) = Len(ns)
      /\ \A j \in 1..Len(ns) : /\ us[j].of = ns[j].of
                               /\ KindOf(us[j]) = KindOf(ns[j]) /\ FileOf(us[j]) = FileOf(ns[j])
      /\ \A j \in 1..Len(ns) : Len(ks[j]) \in Nat /\ DOMAIN ks[j] = 1..Len(ks[j])
      /\ DOMAIN vs[i] = 1..Len(vs[i])
  BY TreeFacts DEF Grown, Same
<1>2. \A k \in 1..Len(ks[i]) : ks[i][k] \in 1..Len(ns)
  <2>1. \A k \in 1..Len(ks[i]) : ks[i][k] \in 2..Len(ns)
    BY DEF Tree, KidsOf
  <2> QED BY <1>1, <2>1
<1>3. PICK items, all : items = in.content[f] /\ all = (in.kind[f] \in Checked)
  OBVIOUS
<1>4. Len(items) \in Nat /\ DOMAIN items = 1..Len(items)
  BY <1>3, SeqFacts
<1>5. PICK w : Listed(items, Own(ns, ks, f, i), w, all) /\ ItemsAt(items, ns, ks, i, w)
  BY <1>3 DEF ItemsIn
<1>6. \A j \in DOMAIN items : w[j] \in 1..Len(ks[i]) /\ ns[ks[i][w[j]]].of = f
  BY <1>1, <1>5 DEF Listed, Own
<1>7. CASE i # p
  <2>1. vs[i] = ks[i]
    BY <1>1, <1>7 DEF Inserted
  <2>2. Own(us, vs, f, i) = Own(ns, ks, f, i)
    BY <1>1, <1>2, <2>1 DEF Own
  <2>3. ItemsAt(items, us, vs, i, w)
    BY <1>1, <1>2, <1>5, <1>6, <2>1 DEF ItemsAt
  <2> QED BY <1>3, <1>5, <2>2, <2>3 DEF ItemsIn
<1>8. CASE i = p
  <2>1. at \in Nat /\ at <= Len(ks[p]) /\ Len(ks[p]) \in Nat /\ Len(vs[p]) = Len(ks[p]) + m
    BY <1>1 DEF Inserted
  <2> DEFINE sh(k) == IF k <= at THEN k ELSE k + m
  <2>2. ASSUME NEW k \in 1..Len(ks[p]) PROVE sh(k) \in 1..Len(vs[p]) /\ vs[p][sh(k)] = ks[p][k]
    <3>1. CASE k <= at
      <4>1. k \in 1..at /\ k \in 1..Len(vs[p])
        BY <1>1, <2>1, <2>2, <3>1
      <4> QED BY <3>1, <4>1 DEF Inserted
    <3>2. CASE ~(k <= at)
      <4>1. PICK l : l = k + m
        OBVIOUS
      <4>2. l \in (at + m + 1)..(Len(ks[p]) + m) /\ l \in 1..Len(vs[p]) /\ l - m = k
        BY <1>1, <2>1, <2>2, <3>2, <4>1
      <4>3. vs[p][l] = ks[p][k]
        BY <4>2 DEF Inserted
      <4> QED BY <3>2, <4>1, <4>2, <4>3
    <3> QED BY <3>1, <3>2
  <2>3. ASSUME all, NEW x \in 1..Len(vs[p]), us[vs[p][x]].of = f
        PROVE  \E k \in 1..Len(ks[p]) : x = sh(k)
    <3>1. CASE x <= at
      <4>1. x \in 1..Len(ks[p])
        BY <2>1, <2>3, <3>1
      <4> QED BY <3>1, <4>1
    <3>2. CASE x \in (at + 1)..(at + m)
      <4>1. vs[p][x] = Len(ns) + (x - at)
        BY <1>1, <3>2 DEF Inserted
      <4>2. PICK j : j = Len(ns) + (x - at)
        OBVIOUS
      <4>3. j \in (Len(ns) + 1)..Len(us)
        BY <1>1, <2>1, <3>2, <4>2
      <4> QED BY <1>3, <1>8, <2>3, <4>1, <4>2, <4>3
    <3>3. CASE ~(x <= at) /\ x \notin (at + 1)..(at + m)
      <4>1. PICK k : k = x - m
        OBVIOUS
      <4>2. k \in 1..Len(ks[p]) /\ ~(k <= at) /\ k + m = x
        BY <1>1, <2>1, <2>3, <3>3, <4>1
      <4> QED BY <4>2
    <3> QED BY <3>1, <3>2, <3>3
  <2>4. \A k, l \in 1..Len(ks[p]) : k < l => sh(k) < sh(l)
    BY <1>1, <2>1
  <2> DEFINE v == [j \in DOMAIN items |-> sh(w[j])]
  <2>5. \A j \in DOMAIN items : v[j] = sh(w[j]) /\ w[j] \in 1..Len(ks[p]) /\ ns[ks[p][w[j]]].of = f
    BY <1>6, <1>8
  <2>6. DOMAIN v = DOMAIN items /\ v = [j \in DOMAIN items |-> v[j]]
    OBVIOUS
  <2> HIDE DEF sh, v
  <2>7. \A j \in DOMAIN items : v[j] \in 1..Len(vs[p]) /\ vs[p][v[j]] = ks[p][w[j]]
    BY <2>2, <2>5
  <2>8. \A j \in DOMAIN items : v[j] \in Own(us, vs, f, p)
    <3> SUFFICES ASSUME NEW j \in DOMAIN items PROVE v[j] \in Own(us, vs, f, p)
      OBVIOUS
    <3>1. ks[p][w[j]] \in 1..Len(ns)
      BY <1>2, <1>8, <2>5
    <3>2. us[vs[p][v[j]]].of = f
      BY <1>1, <2>5, <2>7, <3>1
    <3> QED BY <1>1, <1>8, <2>7, <3>2 DEF Own
  <2>9. v \in [DOMAIN items -> Own(us, vs, f, p)]
    BY <2>6, <2>8
  <2>10. \A j, k \in DOMAIN items : j < k => v[j] < v[k]
    <3>1. \A j, k \in DOMAIN items : j < k => w[j] < w[k]
      BY <1>5 DEF Listed
    <3> QED BY <2>4, <2>5, <3>1
  <2>11. ASSUME all, NEW x \in Own(us, vs, f, p) PROVE \E j \in DOMAIN items : v[j] = x
    <3>1. x \in 1..Len(vs[p]) /\ us[vs[p][x]].of = f
      BY <1>1, <1>8, <2>11 DEF Own
    <3>2. PICK k \in 1..Len(ks[p]) : x = sh(k)
      BY <2>3, <2>11, <3>1
    <3>3. vs[p][x] = ks[p][k] /\ ks[p][k] \in 1..Len(ns)
      BY <1>2, <1>8, <2>2, <3>2
    <3>4. ns[ks[p][k]].of = f
      BY <1>1, <3>1, <3>3
    <3>5. k \in Own(ns, ks, f, i)
      BY <1>1, <1>8, <3>4 DEF Own
    <3>6. PICK j \in DOMAIN items : w[j] = k
      BY <1>5, <2>11, <3>5 DEF Listed
    <3> QED BY <2>5, <3>2, <3>6
  <2>12. Listed(items, Own(us, vs, f, p), v, all)
    BY <2>9, <2>10, <2>11 DEF Listed
  <2>13. ItemsAt(items, us, vs, p, v)
    <3> SUFFICES ASSUME NEW j \in DOMAIN items
                 PROVE  KindOf(us[vs[p][v[j]]]) = items[j].k /\ FileOf(us[vs[p][v[j]]]) = items[j].f
      BY DEF ItemsAt
    <3>1. PICK l : l = ks[p][w[j]]
      OBVIOUS
    <3>2. l \in 1..Len(ns) /\ vs[p][v[j]] = l
      BY <1>2, <1>8, <2>5, <2>7, <3>1
    <3>3. KindOf(ns[l]) = items[j].k /\ FileOf(ns[l]) = items[j].f
      BY <1>5, <1>8, <3>1 DEF ItemsAt
    <3> QED BY <1>1, <3>2, <3>3
  <2> QED BY <1>3, <1>8, <2>12, <2>13 DEF ItemsIn
<1> QED
  BY <1>7, <1>8

(* The children of a block that was empty are the items of its file.         *)
LEMMA ItemsFresh ==
    ASSUME NEW in, NEW us, NEW vs, NEW i, NEW f \in Files, in.content[f] \in Seq(Item), NEW n \in Nat,
           DOMAIN vs[i] = 1..Len(in.content[f]),
           \A k \in 1..Len(in.content[f]) :
               vs[i][k] = n + k /\ us[n + k].of = f
               /\ KindOf(us[n + k]) = in.content[f][k].k /\ FileOf(us[n + k]) = in.content[f][k].f
    PROVE  ItemsIn(in, us, vs, f, i)
<1>1. PICK items : items = in.content[f]
  OBVIOUS
<1>2. Len(items) \in Nat /\ DOMAIN items = 1..Len(items)
  BY <1>1, SeqFacts
<1>3. \A k \in 1..Len(items) : us[vs[i][k]].of = f /\ KindOf(us[vs[i][k]]) = items[k].k /\ FileOf(us[vs[i][k]]) = items[k].f
  BY <1>1
<1>4. Own(us, vs, f, i) = 1..Len(items)
  BY <1>1, <1>3 DEF Own
<1> DEFINE v == [j \in 1..Len(items) |-> j]
<1>5. Listed(items, Own(us, vs, f, i), v, in.kind[f] \in Checked)
  BY <1>2, <1>4 DEF Listed
<1>6. ItemsAt(items, us, vs, i, v)
  BY <1>2, <1>3 DEF ItemsAt
<1> QED
  BY <1>1, <1>5, <1>6 DEF ItemsIn

LEMMA GrownItems ==
    ASSUME NEW in, \A f \in Files : in.content[f] \in Seq(Item),
           NEW ns, NEW ks, Tree(ns, ks), NEW us, NEW vs, Tree(us, vs),
           NEW p \in 1..Len(ns), NEW at, NEW m, Grown(ns, us, p, m), Inserted(ks, vs, p, at, m),
           Relabelled(in, ns, us), HasItems(in, ns, ks),
           ns[p].name = "block" /\ ns[p].context \in Files /\ in.kind[ns[p].context] \in Checked =>
               \A j \in (Len(ns) + 1)..Len(us) : us[j].of # ns[p].context,
           \A i \in 1..Len(ns) : ns[i].name # "block" /\ us[i].name = "block" /\ us[i].context \in Files
               /\ in.kind[us[i].context] \in Text \cup Elements => ItemsIn(in, us, vs, us[i].context, i)
    PROVE  HasItems(in, us, vs)
<1>1. /\ Len(ns) \in Nat /\ m \in Nat /\ Len(us) = Len(ns) + m
      /\ \A j \in (Len(ns) + 1)..Len(us) : us[j].name # "block"
  BY TreeFacts DEF Grown
<1> SUFFICES ASSUME NEW i \in 1..Len(us), us[i].name = "block", us[i].context \in Files, in.kind[us[i].context] \in Text \cup Elements
             PROVE  ItemsIn(in, us, vs, us[i].context, i)
  BY DEF HasItems
<1>2. i \in 1..Len(ns)
  BY <1>1
<1>3. CASE ns[i].name # "block"
  BY <1>2, <1>3
<1>4. CASE ns[i].name = "block"
  <2>1. us[i].context = ns[i].context
    BY <1>2, <1>4 DEF Relabelled
  <2>2. PICK f \in Files : f = us[i].context
    OBVIOUS
  <2>3. ItemsIn(in, ns, ks, f, i)
    BY <1>2, <1>4, <2>1, <2>2 DEF HasItems
  <2>4. i = p /\ in.kind[f] \in Checked => \A j \in (Len(ns) + 1)..Len(us) : us[j].of # f
    BY <1>4, <2>1, <2>2
  <2>5. ItemsIn(in, us, vs, f, i)
    BY <1>2, <2>3, <2>4, ItemsStay
  <2> QED BY <2>2, <2>5
<1> QED
  BY <1>3, <1>4

-----------------------------------------------------------------------------
(* Sequences of children *)

LEMMA IdsFacts ==
    ASSUME NEW n \in Nat, NEW m \in Nat
    PROVE  /\ Ids(n, m) \in Seq(Nat) /\ Len(Ids(n, m)) = m
           /\ \A k \in 1..m : Ids(n, m)[k] = n + k
<1> DEFINE f == Ids(n, m)
<1>1. f = [i \in 1..m |-> n + i]
  BY DEF Ids
<1>2. \A k \in 1..m : f[k] = n + k /\ f[k] \in Nat
  BY <1>1
<1>3. DOMAIN f = 1..m /\ f = [i \in 1..m |-> f[i]]
  BY <1>1
<1> HIDE DEF f
<1>4. f \in Seq(Nat) /\ Len(f) = m
  BY <1>2, <1>3, FunctionSeq
<1> QED
  BY <1>2, <1>4 DEF f

LEMMA Emptied ==
    ASSUME NEW S, NEW c \in Seq(S)
    PROVE  /\ [k \in DOMAIN c |-> <<>>] \in Seq(Seq(Nat)) /\ Len([k \in DOMAIN c |-> <<>>]) = Len(c)
           /\ \A k \in 1..Len(c) : [l \in DOMAIN c |-> <<>>][k] = <<>>
<1> DEFINE f == [k \in DOMAIN c |-> <<>>]
<1>1. Len(c) \in Nat /\ DOMAIN c = 1..Len(c)
  BY SeqFacts
<1>2. DOMAIN f = 1..Len(c) /\ f = [k \in 1..Len(c) |-> f[k]] /\ \A k \in 1..Len(c) : f[k] = <<>>
  BY <1>1
<1>3. <<>> \in Seq(Nat)
  OBVIOUS
<1> HIDE DEF f
<1>e. \A k \in 1..Len(c) : f[k] \in Seq(Nat)
  BY <1>2, <1>3
<1>4. f \in Seq(Seq(Nat)) /\ Len(f) = Len(c)
  BY <1>1, <1>2, <1>e, FunctionSeq
<1> QED
  BY <1>2, <1>4 DEF f

(* A sequence put into another behind the first "at" elements. *)
Behind(s, at, new, q) ==
    /\ q \in Seq(Nat) /\ Len(q) = Len(s) + Len(new)
    /\ \A k \in 1..at : q[k] = s[k]
    /\ \A k \in (at + 1)..(at + Len(new)) : q[k] = new[k - at]
    /\ \A k \in (at + Len(new) + 1)..(Len(s) + Len(new)) : q[k] = s[k - Len(new)]

LEMMA Spliced ==
    ASSUME NEW s \in Seq(Nat), NEW at \in 0..Len(s), NEW new \in Seq(Nat),
           NEW q, q = SubSeq(s, 1, at) \o new \o SubSeq(s, at + 1, Len(s))
    PROVE  Behind(s, at, new, q)
<1>1. PICK L, m : L = Len(s) /\ m = Len(new) /\ L \in Nat /\ m \in Nat
  BY SeqFacts
<1>2. at \in Nat /\ at <= L
  BY <1>1
<1>3. PICK x, z : x = SubSeq(s, 1, at) /\ z = SubSeq(s, at + 1, L)
  OBVIOUS
<1>4. x \in Seq(Nat) /\ Len(x) = at /\ \A k \in 1..at : x[k] = s[k]
  <2>1. \A i \in 1..at : s[i] \in Nat
    BY <1>1, <1>2, SeqFacts
  <2>2. 1 <= at + 1
    BY <1>2
  <2>3. x \in Seq(Nat) /\ Len(x) = at - 1 + 1 /\ \A k \in 1..(at - 1 + 1) : x[k] = s[1 + k - 1]
    BY <1>2, <1>3, <2>1, <2>2, SubSeqFacts
  <2>4. at - 1 + 1 = at /\ \A k \in 1..at : 1 + k - 1 = k
    BY <1>2
  <2> QED BY <2>3, <2>4
<1>5. z \in Seq(Nat) /\ Len(z) = L - at /\ \A k \in 1..(L - at) : z[k] = s[at + k]
  <2>1. PICK b : b = at + 1
    OBVIOUS
  <2>2. b \in Nat /\ b <= L + 1 /\ \A i \in b..L : s[i] \in Nat
    BY <1>1, <1>2, <2>1, SeqFacts
  <2>3. z \in Seq(Nat) /\ Len(z) = L - b + 1 /\ \A k \in 1..(L - b + 1) : z[k] = s[b + k - 1]
    <3>1. z = SubSeq(s, b, L)
      BY <1>3, <2>1
    <3> QED BY ONLY <1>1, <2>2, <3>1, SubSeqFacts
  <2>4. L - b + 1 = L - at /\ \A k \in 1..(L - at) : b + k - 1 = at + k
    BY <1>1, <1>2, <2>1
  <2> QED BY <2>3, <2>4
<1>6. PICK y : y = x \o new
  OBVIOUS
<1>7. /\ y \in Seq(Nat) /\ Len(y) = at + m
      /\ \A k \in 1..at : y[k] = x[k]
      /\ \A k \in 1..m : y[at + k] = new[k]
  <2>1. /\ y \in Seq(Nat) /\ Len(y) = Len(x) + Len(new)
        /\ \A k \in 1..Len(x) : y[k] = x[k]
        /\ \A k \in 1..Len(new) : y[Len(x) + k] = new[k]
    <3>1. x \in Seq(Nat) /\ new \in Seq(Nat)
      BY <1>4
    <3> QED BY ONLY <3>1, <1>6, ConcatFacts
  <2> QED BY <1>1, <1>4, <2>1
<1>8. q = y \o z
  BY <1>1, <1>3, <1>6
<1>a. y \in Seq(Nat) /\ Len(y) = at + m
  BY <1>7
<1>9. /\ q \in Seq(Nat) /\ Len(q) = (at + m) + (L - at)
      /\ \A k \in 1..(at + m) : q[k] = y[k]
      /\ \A k \in 1..(L - at) : q[(at + m) + k] = z[k]
  <2>1. /\ q \in Seq(Nat) /\ Len(q) = Len(y) + Len(z)
        /\ \A k \in 1..Len(y) : q[k] = y[k]
        /\ \A k \in 1..Len(z) : q[Len(y) + k] = z[k]
    <3>1. y \in Seq(Nat) /\ z \in Seq(Nat)
      BY <1>a, <1>5
    <3> QED BY ONLY <3>1, <1>8, ConcatFacts
  <2> QED BY <1>5, <1>a, <2>1
<1>10. (at + m) + (L - at) = L + m
  BY <1>1, <1>2
<1>11. \A k \in 1..at : k \in 1..(at + m)
  BY <1>1, <1>2
<1>13. ASSUME NEW k \in (at + m + 1)..(L + m) PROVE q[k] = s[k - m]
  <2>1. PICK l : l = k - (at + m)
    OBVIOUS
  <2>2. l \in 1..(L - at) /\ at + l = k - m /\ (at + m) + l = k
    BY <1>1, <1>2, <2>1
  <2>3. z[l] = s[at + l] /\ q[(at + m) + l] = z[l]
    BY <1>5, <1>9, <2>2
  <2> QED BY <2>2, <2>3
<1>14. \A k \in 1..at : q[k] = s[k]
  BY <1>4, <1>7, <1>9, <1>11
<1>15. ASSUME NEW k \in (at + 1)..(at + m) PROVE q[k] = new[k - at]
  <2>1. PICK l : l = k - at
    OBVIOUS
  <2>2. l \in 1..m /\ at + l = k /\ k \in 1..(at + m)
    BY <1>1, <1>2, <2>1
  <2>3. y[at + l] = new[l] /\ q[k] = y[k]
    BY <1>7, <1>9, <2>2
  <2> QED BY <2>1, <2>2, <2>3
<1> QED
  BY <1>1, <1>9, <1>10, <1>13, <1>14, <1>15 DEF Behind

LEMMA KidsInserted ==
    ASSUME NEW ks \in Seq(Seq(Nat)), NEW p \in 1..Len(ks), NEW at \in 0..Len(ks[p]), NEW S, NEW c \in Seq(S),
           NEW q \in Seq(Nat), Len(q) = Len(ks[p]) + Len(c),
           \A k \in 1..at : q[k] = ks[p][k],
           \A k \in (at + 1)..(at + Len(c)) : q[k] = Len(ks) + (k - at),
           \A k \in (at + Len(c) + 1)..(Len(ks[p]) + Len(c)) : q[k] = ks[p][k - Len(c)],
           NEW vs, vs = [ks EXCEPT ![p] = q] \o [k \in DOMAIN c |-> <<>>]
    PROVE  Inserted(ks, vs, p, at, Len(c))
<1>1. PICK w, e : w = [ks EXCEPT ![p] = q] /\ e = [k \in DOMAIN c |-> <<>>]
  OBVIOUS
<1>2. Len(ks) \in Nat /\ DOMAIN ks = 1..Len(ks) /\ (\A i \in 1..Len(ks) : ks[i] \in Seq(Nat)) /\ Len(c) \in Nat
  BY SeqFacts
<1>3. w \in Seq(Seq(Nat)) /\ Len(w) = Len(ks) /\ w[p] = q /\ \A i \in 1..Len(ks) : i # p => w[i] = ks[i]
  <2>1. \A i \in 1..Len(ks) : w[i] = IF i = p THEN q ELSE ks[i]
    BY <1>1, <1>2
  <2>2. DOMAIN w = 1..Len(ks) /\ w = [i \in 1..Len(ks) |-> w[i]]
    BY <1>1, <1>2
  <2>3. \A i \in 1..Len(ks) : w[i] \in Seq(Nat)
    BY <1>2, <2>1
  <2>4. w \in Seq(Seq(Nat)) /\ Len(w) = Len(ks)
    BY <1>2, <2>2, <2>3, FunctionSeq
  <2> QED BY <2>1, <2>4
<1>4. e \in Seq(Seq(Nat)) /\ Len(e) = Len(c) /\ \A k \in 1..Len(c) : e[k] = <<>>
  BY <1>1, Emptied
<1>5. vs = w \o e
  BY <1>1
<1>6. /\ vs \in Seq(Seq(Nat)) /\ Len(vs) = Len(ks) + Len(c)
      /\ \A i \in 1..Len(ks) : vs[i] = w[i]
      /\ \A i \in 1..Len(c) : vs[Len(ks) + i] = e[i]
  <2>1. /\ vs \in Seq(Seq(Nat)) /\ Len(vs) = Len(w) + Len(e)
        /\ \A i \in 1..Len(w) : vs[i] = w[i]
        /\ \A i \in 1..Len(e) : vs[Len(w) + i] = e[i]
    <3>1. w \in Seq(Seq(Nat)) /\ e \in Seq(Seq(Nat))
      BY <1>3, <1>4
    <3> QED BY ONLY <3>1, <1>5, ConcatFacts
  <2> QED BY <1>3, <1>4, <2>1
<1>7. \A i \in (Len(ks) + 1)..Len(vs) : vs[i] = <<>>
  <2> SUFFICES ASSUME NEW i \in (Len(ks) + 1)..Len(vs) PROVE vs[i] = <<>>
    OBVIOUS
  <2>1. PICK l : l = i - Len(ks)
    OBVIOUS
  <2>2. l \in 1..Len(c) /\ Len(ks) + l = i
    BY <1>2, <1>6, <2>1
  <2> QED BY <1>4, <1>6, <2>2
<1>8. vs[p] = q /\ \A i \in 1..Len(ks) : i # p => vs[i] = ks[i]
  BY <1>3, <1>6
<1> QED
  BY <1>6, <1>7, <1>8 DEF Inserted

LEMMA KidsKept ==
    ASSUME NEW ns, NEW ks, Tree(ns, ks)
    PROVE  Inserted(ks, ks, 1, 0, 0)
<1>1. Len(ks[1]) \in Nat /\ Len(ks) \in Nat /\ ks \in Seq(Seq(Nat))
  BY TreeFacts DEF Tree
<1> QED
  BY <1>1 DEF Inserted

-----------------------------------------------------------------------------
(* One node replaced, others put behind all *)

Replaced(ns, us, i, n) ==
    /\ us \in Seq(NodeType) /\ Len(us) = Len(ns) /\ us[i] = n
    /\ \A j \in 1..Len(ns) : j # i => us[j] = ns[j]

LEMMA ReplacedFacts ==
    ASSUME NEW ns \in Seq(NodeType), NEW i \in 1..Len(ns), NEW n \in NodeType, NEW us, us = [ns EXCEPT ![i] = n]
    PROVE  Replaced(ns, us, i, n)
<1>1. Len(ns) \in Nat /\ DOMAIN ns = 1..Len(ns) /\ \A j \in 1..Len(ns) : ns[j] \in NodeType
  BY SeqFacts
<1>2. \A j \in 1..Len(ns) : us[j] = IF j = i THEN n ELSE ns[j]
  BY <1>1
<1>3. DOMAIN us = 1..Len(ns) /\ us = [j \in 1..Len(ns) |-> us[j]]
  BY <1>1
<1>4. \A j \in 1..Len(ns) : us[j] \in NodeType
  BY <1>1, <1>2
<1>5. us \in Seq(NodeType) /\ Len(us) = Len(ns)
  BY <1>1, <1>3, <1>4, FunctionSeq
<1> QED
  BY <1>2, <1>5 DEF Replaced

LEMMA GrownReplaced ==
    ASSUME NEW ns, NEW ks, Tree(ns, ks), NEW i \in 1..Len(ns), NEW n, Same(ns[i], n), NEW us, Replaced(ns, us, i, n), NEW p
    PROVE  Grown(ns, us, p, 0)
<1>1. Len(ns) \in Nat
  BY TreeFacts
<1>2. ASSUME NEW j \in 1..Len(ns) PROVE Same(ns[j], us[j])
  <2>1. CASE j = i
    BY <2>1 DEF Replaced
  <2>2. CASE j # i
    <3>1. us[j] = ns[j]
      BY <2>2 DEF Replaced
    <3> QED BY <3>1, SameRefl
  <2> QED BY <2>1, <2>2
<1>3. (Len(ns) + 1)..Len(us) = {} /\ Len(us) = Len(ns) + 0
  BY <1>1 DEF Replaced
<1> QED
  BY <1>2, <1>3 DEF Grown, Replaced

LEMMA GrownFresh ==
    ASSUME NEW ns, NEW ks, Tree(ns, ks), NEW i \in 1..Len(ns), NEW n, Same(ns[i], n), NEW w, Replaced(ns, w, i, n),
           NEW c \in Seq(Item), NEW textual \in BOOLEAN, NEW of \in Origin, NEW p \in 1..Len(ns),
           NEW us, us = w \o Fresh(c, textual, of, p)
    PROVE  Grown(ns, us, p, Len(c))
<1>1. Len(ns) \in Nat /\ Len(c) \in Nat /\ p \in Nat /\ \A k \in 1..Len(c) : c[k] \in Item
  BY TreeFacts, SeqFacts
<1>2. PICK f : f = Fresh(c, textual, of, p)
  OBVIOUS
<1>3. f \in Seq(NodeType) /\ Len(f) = Len(c) /\ \A k \in 1..Len(c) : f[k] = ItemNode(c[k], textual, of, p)
  BY <1>1, <1>2, FreshFacts
<1>4. w \in Seq(NodeType) /\ Len(w) = Len(ns)
  BY DEF Replaced
<1>5. /\ us \in Seq(NodeType) /\ Len(us) = Len(ns) + Len(c)
      /\ \A j \in 1..Len(ns) : us[j] = w[j]
      /\ \A j \in 1..Len(c) : us[Len(ns) + j] = f[j]
  <2>1. us = w \o f
    BY <1>2
  <2>2. /\ us \in Seq(NodeType) /\ Len(us) = Len(w) + Len(f)
        /\ \A j \in 1..Len(w) : us[j] = w[j]
        /\ \A j \in 1..Len(f) : us[Len(w) + j] = f[j]
    <3>1. w \in Seq(NodeType) /\ f \in Seq(NodeType)
      BY <1>3, <1>4
    <3> QED BY ONLY <3>1, <2>1, ConcatFacts
  <2> QED BY <1>3, <1>4, <2>2
<1>6. \A k \in 1..Len(c) : us[Len(ns) + k] = ItemNode(c[k], textual, of, p)
  BY <1>3, <1>5
<1>7. ASSUME NEW j \in (Len(ns) + 1)..Len(us)
      PROVE  us[j].parent = p /\ us[j].context = None /\ us[j].name # "block" /\ Filed(us[j])
  <2>1. PICK k : k = j - Len(ns)
    OBVIOUS
  <2>2. Len(us) = Len(ns) + Len(c) /\ Len(ns) \in Nat /\ Len(c) \in Nat
    BY <1>1, <1>5
  <2>5. k \in 1..Len(c) /\ Len(ns) + k = j
    BY <2>1, <2>2
  <2>3. us[j] = ItemNode(c[k], textual, of, p)
    BY <1>6, <2>5
  <2>4. c[k] \in Item
    BY <1>1, <2>5
  <2> QED BY <1>1, <2>3, <2>4, ItemNodeFacts
<1>8. Grown(ns, w, p, 0)
  BY GrownReplaced
<1>9. \A j \in 1..Len(ns) : Same(ns[j], us[j])
  BY <1>5, <1>8 DEF Grown
<1> QED
  BY <1>1, <1>5, <1>6, <1>7, <1>9 DEF Grown

-----------------------------------------------------------------------------
(* Steps on the tree *)

(* What is inserted below p comes from an element that includes a file, or   *)
(* is the content of p, which was an element and becomes a block.            *)
Fitting(in, ns, us, p) ==
    \/ ns[p].name # "block"
    \/ ns[p].context \in Files /\ in.kind[ns[p].context] \in Checked =>
           \A j \in (Len(ns) + 1)..Len(us) : us[j].of # ns[p].context

NewItems(in, ns, us, vs) ==
    \A i \in 1..Len(ns) :
        ns[i].name # "block" /\ us[i].name = "block" /\ us[i].context \in Files
            /\ in.kind[us[i].context] \in Text \cup Elements => ItemsIn(in, us, vs, us[i].context, i)

Step(in, ns, ks, us, vs, p, at, m) ==
    /\ Grown(ns, us, p, m) /\ Inserted(ks, vs, p, at, m) /\ Relabelled(in, ns, us)
    /\ m # 0 => us[p].name = "block" /\ Fitting(in, ns, us, p)
    /\ NewItems(in, ns, us, vs)

Contents(in) == \A f \in Files : in.content[f] \in Seq(Item)

TreeInv(in, ns, ks) ==
    /\ Tree(ns, ks) /\ (\E a : Ways(ns, a))
    /\ Apart(in, ns) /\ HasItems(in, ns, ks)

LEMMA CheckedTextElements == Checked \subseteq Text \cup Elements
BY DEF Checked, Text, Elements

LEMMA StepTree ==
    ASSUME NEW in, Contents(in), NEW ns, NEW ks, TreeInv(in, ns, ks), NEW us, NEW vs,
           NEW p \in 1..Len(ns), NEW at, NEW m, Step(in, ns, ks, us, vs, p, at, m)
    PROVE  TreeInv(in, us, vs) /\ \A j \in 0..Len(ns) : Around(us, j) = Around(ns, j)
<1>1. Tree(ns, ks) /\ (\E a : Ways(ns, a)) /\ Apart(in, ns) /\ HasItems(in, ns, ks)
  BY DEF TreeInv
<1>2. /\ Grown(ns, us, p, m) /\ Inserted(ks, vs, p, at, m) /\ Relabelled(in, ns, us)
      /\ m # 0 => us[p].name = "block" /\ Fitting(in, ns, us, p)
      /\ NewItems(in, ns, us, vs)
  BY DEF Step
<1>3. Tree(us, vs)
  BY <1>1, <1>2, GrownTree
<1>4. (\E b : Ways(us, b)) /\ \A j \in 0..Len(ns) : Around(us, j) = Around(ns, j)
  BY <1>1, <1>2, <1>3, GrownAround
<1>5. Apart(in, us)
  BY <1>1, <1>2, <1>3, GrownApart
<1>6. ASSUME ns[p].name = "block", ns[p].context \in Files, in.kind[ns[p].context] \in Checked
      PROVE  \A j \in (Len(ns) + 1)..Len(us) : us[j].of # ns[p].context
  <2>1. CASE m = 0
    <3>1. Len(us) = Len(ns) /\ Len(ns) \in Nat
      BY <1>1, <1>2, <2>1, TreeFacts DEF Grown
    <3> QED BY <3>1
  <2>2. CASE m # 0
    BY <1>2, <1>6, <2>2 DEF Fitting
  <2> QED BY <2>1, <2>2
<1>7. HasItems(in, us, vs)
  BY <1>1, <1>2, <1>3, <1>6, GrownItems DEF Contents, NewItems
<1> QED
  BY <1>3, <1>4, <1>5, <1>7 DEF TreeInv

-----------------------------------------------------------------------------
(* Traversals *)

Phases == {"include", "import", "made", "again", "retry"}
FrameType == [phase : Phases, at : Nat, todo : Seq(Nat), recognize : BOOLEAN]

(* A traversal is over children of one node. *)
Fits(ns, t) ==
    /\ t \in FrameType /\ t.at \in 1..Len(ns)
    /\ \A l \in 1..Len(t.todo) : t.todo[l] \in 2..Len(ns) /\ ns[t.todo[l]].parent = t.at
Frames(ns, st) == st \in Seq(FrameType) /\ \A k \in 1..Len(st) : Fits(ns, st[k])

(* A traversal is below the one that it has interrupted; includes are looked *)
(* for again before the imports of what is traversed.                        *)
Chain(ns, st) ==
    /\ \A k, l \in 1..Len(st) : k < l => st[k].at \in Around(ns, st[l].at) /\ st[k].at < st[l].at
    /\ \A k \in 1..Len(st) : st[k].phase = "again" => \E j \in 1..Len(st) : j < k /\ st[j].phase = "include"

(* What an instruction has made is the only child of its element, which is   *)
(* traversed as soon as it is there.                                         *)
Made(ns, t) ==
    t.phase = "made" =>
        /\ ns[t.at].name = "block" /\ ns[t.at].file = "xml" /\ ns[t.at].context = None
        /\ Len(t.todo) <= 1
        /\ \A l \in 1..Len(t.todo) : ns[t.todo[l]].name = "import" /\ ns[t.todo[l]].file \in Files
Mades(ns, st) ==
    \A k \in 1..Len(st) : Made(ns, st[k]) /\ (st[k].phase = "made" /\ k < Len(st) => st[k].todo = <<>>)

(* An import that is neither done nor has failed is ahead of a traversal,    *)
(* but for those that are neglected.                                         *)
AheadIn(ns, t, i) ==
    \/ t.phase \in {"include", "made"} /\ t.at \in Around(ns, ns[i].parent)
    \/ t.phase \in Importing /\ \E l \in 1..Len(t.todo) : t.todo[l] \in Around(ns, i)
Ahead(ns, st, i) == \E k \in 1..Len(st) : AheadIn(ns, st[k], i)
Open(n) == n.name = "import" /\ n.error = "none" /\ ~Neglected(n)
Waits(ns, st) == \A i \in 1..Len(ns) : Open(ns[i]) => Ahead(ns, st, i)

Stacked(ns, st) == Frames(ns, st) /\ Chain(ns, st) /\ Mades(ns, st)

LEMMA StackFacts ==
    ASSUME NEW ns, NEW st, Frames(ns, st)
    PROVE  /\ Len(st) \in Nat /\ DOMAIN st = 1..Len(st) /\ (st # <<>> <=> Len(st) \in 1..Len(st))
           /\ \A k \in 1..Len(st) : /\ st[k] \in FrameType /\ st[k].at \in 1..Len(ns)
                                    /\ st[k].phase \in Phases /\ st[k].recognize \in BOOLEAN
                                    /\ st[k].todo \in Seq(Nat)
                                    /\ Len(st[k].todo) \in Nat /\ DOMAIN st[k].todo = 1..Len(st[k].todo)
                                    /\ \A l \in 1..Len(st[k].todo) :
                                          st[k].todo[l] \in 2..Len(ns) /\ ns[st[k].todo[l]].parent = st[k].at
<1>1. Len(st) \in Nat /\ DOMAIN st = 1..Len(st) /\ (st # <<>> <=> Len(st) > 0)
  BY SeqFacts DEF Frames
<1>2. \A t \in FrameType : t.phase \in Phases /\ t.recognize \in BOOLEAN /\ t.todo \in Seq(Nat)
  BY DEF FrameType
<1>3. \A s \in Seq(Nat) : Len(s) \in Nat /\ DOMAIN s = 1..Len(s)
  BY SeqFacts
<1> QED
  BY <1>1, <1>2, <1>3 DEF Frames, Fits

(* What every step on the tree keeps of the nodes that were there.           *)
Kept(ns, us) ==
    /\ Len(ns) \in Nat /\ Len(us) \in Nat /\ Len(ns) <= Len(us)
    /\ \A j \in 0..Len(ns) : Around(us, j) = Around(ns, j)
    /\ \A j \in 1..Len(ns) : /\ Same(ns[j], us[j]) /\ ns[j].parent \in 0..Len(ns)
                             /\ ns[j].name = "block" => us[j].context = ns[j].context

LEMMA StepKept ==
    ASSUME NEW in, Contents(in), NEW ns, NEW ks, TreeInv(in, ns, ks), NEW us, NEW vs,
           NEW p \in 1..Len(ns), NEW at, NEW m, Step(in, ns, ks, us, vs, p, at, m)
    PROVE  TreeInv(in, us, vs) /\ Kept(ns, us)
<1>1. TreeInv(in, us, vs) /\ \A j \in 0..Len(ns) : Around(us, j) = Around(ns, j)
  BY StepTree
<1>2. Len(ns) \in Nat /\ \A j \in 1..Len(ns) : ns[j].parent \in 0..Len(ns)
  BY TreeFacts DEF TreeInv
<1>3. /\ m \in Nat /\ Len(us) = Len(ns) + m
      /\ \A j \in 1..Len(ns) : Same(ns[j], us[j])
      /\ \A j \in 1..Len(ns) : ns[j].name = "block" => us[j].context = ns[j].context
  BY DEF Step, Grown, Relabelled
<1> QED
  BY <1>1, <1>2, <1>3 DEF Kept

LEMMA FitsKept ==
    ASSUME NEW ns, NEW us, Kept(ns, us), NEW t, Fits(ns, t)
    PROVE  Fits(us, t)
<1>1. t.at \in 1..Len(us)
  BY DEF Fits, Kept
<1>2. ASSUME NEW l \in 1..Len(t.todo) PROVE t.todo[l] \in 2..Len(us) /\ us[t.todo[l]].parent = t.at
  <2>1. PICK j : j = t.todo[l]
    OBVIOUS
  <2>2. j \in 2..Len(ns) /\ ns[j].parent = t.at
    BY <2>1 DEF Fits
  <2>3. j \in 1..Len(ns) /\ j \in 2..Len(us)
    BY <2>2 DEF Kept
  <2> QED BY <2>1, <2>2, <2>3 DEF Kept, Same
<1> QED
  BY <1>1, <1>2 DEF Fits

LEMMA AheadKept ==
    ASSUME NEW ns, NEW us, Kept(ns, us), NEW t, NEW i \in 1..Len(ns), AheadIn(ns, t, i)
    PROVE  AheadIn(us, t, i)
<1>1. PICK q : q = ns[i].parent
  OBVIOUS
<1>2. q \in 0..Len(ns) /\ us[i].parent = q /\ i \in 0..Len(ns)
  BY <1>1 DEF Kept, Same
<1>3. Around(us, q) = Around(ns, q) /\ Around(us, i) = Around(ns, i)
  BY <1>2 DEF Kept
<1> QED
  BY <1>1, <1>2, <1>3 DEF AheadIn

(* The element of an instruction stays what it is.                           *)
LEMMA MadeKept ==
    ASSUME NEW ns, NEW us, Kept(ns, us), NEW t, Fits(ns, t), Made(ns, t), t.phase = "made" => t.todo = <<>>
    PROVE  Made(us, t)
<1> SUFFICES ASSUME t.phase = "made"
             PROVE  /\ us[t.at].name = "block" /\ us[t.at].file = "xml" /\ us[t.at].context = None
                    /\ Len(t.todo) <= 1
                    /\ \A l \in 1..Len(t.todo) : us[t.todo[l]].name = "import" /\ us[t.todo[l]].file \in Files
  BY DEF Made
<1>1. Len(t.todo) = 0
  OBVIOUS
<1>2. ns[t.at].name = "block" /\ ns[t.at].file = "xml" /\ ns[t.at].context = None /\ t.at \in 1..Len(ns)
  BY DEF Made, Fits
<1>3. us[t.at].name = "block" /\ us[t.at].file = "xml" /\ us[t.at].context = None
  BY <1>2 DEF Kept, Same
<1> QED
  BY <1>1, <1>3

(* The traversal on top goes to the next child. *)
Advanced(st, u) ==
    /\ u \in Seq(FrameType) /\ Len(u) = Len(st)
    /\ \A k \in 1..Len(st) : /\ u[k].phase = st[k].phase /\ u[k].at = st[k].at
                             /\ k # Len(st) => u[k] = st[k]
    /\ u[Len(st)].todo = Tail(st[Len(st)].todo)

LEMMA AdvancedFacts ==
    ASSUME NEW st \in Seq(FrameType), st # <<>>, st[Len(st)].todo # <<>>,
           NEW u, u = [st EXCEPT ![Len(st)].todo = Tail(@)]
    PROVE  Advanced(st, u)
<1>1. Len(st) \in Nat /\ DOMAIN st = 1..Len(st) /\ Len(st) \in 1..Len(st) /\ \A k \in 1..Len(st) : st[k] \in FrameType
  <2>1. Len(st) \in Nat /\ Len(st) > 0 /\ DOMAIN st = 1..Len(st) /\ \A k \in 1..Len(st) : st[k] \in FrameType
    BY SeqFacts
  <2> QED BY <2>1
<1>2. PICK t, s : t = st[Len(st)] /\ s = Tail(t.todo)
  OBVIOUS
<1>3. t \in FrameType /\ t.todo \in Seq(Nat) /\ t.todo # <<>>
  BY <1>1, <1>2 DEF FrameType
<1>4. s \in Seq(Nat)
  BY <1>2, <1>3, HeadTailProperties
<1>5. PICK w : w = [t EXCEPT !.todo = s]
  OBVIOUS
<1>6. w \in FrameType /\ w.phase = t.phase /\ w.at = t.at /\ w.todo = s
  BY <1>3, <1>4, <1>5 DEF FrameType
<1>7. u = [st EXCEPT ![Len(st)] = w]
  BY <1>2, <1>5
<1>8. \A k \in 1..Len(st) : u[k] = IF k = Len(st) THEN w ELSE st[k]
  BY <1>1, <1>7
<1>9. DOMAIN u = 1..Len(st) /\ u = [k \in 1..Len(st) |-> u[k]]
  BY <1>1, <1>7
<1>10. \A k \in 1..Len(st) : u[k] \in FrameType
  BY <1>1, <1>6, <1>8
<1>11. u \in Seq(FrameType) /\ Len(u) = Len(st)
  <2>1. PICK n : n = Len(st)
    OBVIOUS
  <2>2. n \in Nat /\ DOMAIN u = 1..n /\ u = [k \in 1..n |-> u[k]] /\ \A k \in 1..n : u[k] \in FrameType
    BY <1>1, <1>9, <1>10, <2>1
  <2>3. u \in Seq(FrameType) /\ Len(u) = n
    BY ONLY <2>2, FunctionSeq
  <2> QED BY <2>1, <2>3
<1> QED
  BY <1>1, <1>2, <1>6, <1>8, <1>11 DEF Advanced

LEMMA TailFacts ==
    ASSUME NEW s \in Seq(Nat), s # <<>>
    PROVE  /\ Head(s) = s[1] /\ Len(s) \in Nat /\ 1 \in 1..Len(s)
           /\ \A k \in 1..Len(Tail(s)) : k + 1 \in 1..Len(s) /\ Tail(s)[k] = s[k + 1]
           /\ \A l \in 1..Len(s) : s[l] # Head(s) => \E k \in 1..Len(Tail(s)) : Tail(s)[k] = s[l]
<1>1. Len(s) \in Nat /\ Len(s) > 0
  BY SeqFacts
<1>2. PICK t : t = Tail(s)
  OBVIOUS
<1>3. Head(s) = s[1] /\ t \in Seq(Nat) /\ Len(t) = Len(s) - 1 /\ \A i \in 1..Len(t) : t[i] = s[i + 1]
  BY <1>2, HeadTailProperties
<1>4. \A k \in 1..Len(t) : k + 1 \in 1..Len(s) /\ t[k] = s[k + 1]
  BY <1>1, <1>3
<1>5. ASSUME NEW l \in 1..Len(s), s[l] # Head(s) PROVE \E k \in 1..Len(t) : t[k] = s[l]
  <2>1. l # 1
    BY <1>3, <1>5
  <2>2. PICK k : k = l - 1
    OBVIOUS
  <2>3. k \in 1..Len(t) /\ k + 1 = l
    BY <1>1, <1>3, <2>1, <2>2
  <2> QED BY <1>3, <2>3
<1> QED
  BY <1>1, <1>2, <1>3, <1>4, <1>5

(* What is ahead stays ahead but for what is at or below the child the       *)
(* traversal has come to.                                                    *)
LEMMA RestStack ==
    ASSUME NEW ns, NEW st, Stacked(ns, st), st # <<>>, st[Len(st)].todo # <<>>, NEW u, Advanced(st, u),
           NEW us, Kept(ns, us)
    PROVE  /\ Stacked(us, u)
           /\ u[Len(u)].phase = "made" => u[Len(u)].todo = <<>>
           /\ \A j \in 1..Len(ns) :
                  /\ Ahead(ns, st, j)
                  /\ st[Len(st)].phase \in Importing => Head(st[Len(st)].todo) \notin Around(ns, j)
                  => Ahead(us, u, j)
<1>0. PICK N, s, r : N = Len(st) /\ s = st[N].todo /\ r = Tail(s)
  OBVIOUS
<1>1. /\ N \in 1..N /\ N \in Nat /\ Len(u) = N /\ u \in Seq(FrameType) /\ s \in Seq(Nat) /\ s # <<>>
      /\ \A k \in 1..N : /\ u[k].phase = st[k].phase /\ u[k].at = st[k].at
                         /\ k # N => u[k] = st[k]
      /\ u[N].todo = r
  BY <1>0, StackFacts DEF Advanced, Stacked
<1>2. \A k \in 1..N : u[k] \in FrameType
  BY <1>1, SeqFacts
<1>3. /\ \A k \in 1..Len(r) : k + 1 \in 1..Len(s) /\ r[k] = s[k + 1]
      /\ \A l \in 1..Len(s) : s[l] # Head(s) => \E k \in 1..Len(r) : r[k] = s[l]
  <2>1. r = Tail(s) /\ s \in Seq(Nat) /\ s # <<>>
    BY <1>0, <1>1
  <2> QED BY ONLY <2>1, TailFacts
<1>4. \A k \in 1..N : Fits(ns, st[k])
  BY <1>0 DEF Stacked, Frames
<1>5. ASSUME NEW k \in 1..N PROVE Fits(us, u[k])
  <2>1. CASE k # N
    BY <1>1, <1>4, <2>1, FitsKept
  <2>2. CASE k = N
    <3>1. \A l \in 1..Len(s) : s[l] \in 2..Len(ns) /\ ns[s[l]].parent = st[k].at
      BY <1>0, <1>4, <2>2 DEF Fits
    <3>2. ASSUME NEW l \in 1..Len(r) PROVE r[l] \in 2..Len(ns) /\ ns[r[l]].parent = u[k].at
      <4>1. PICK h \in 1..Len(s) : r[l] = s[h]
        BY <1>3
      <4> QED BY <1>1, <3>1, <4>1
    <3>3. u[k].at \in 1..Len(ns) /\ u[k] \in FrameType
      BY <1>1, <1>2, <1>4 DEF Fits
    <3>4. Fits(ns, u[k])
      BY <1>1, <2>2, <3>2, <3>3 DEF Fits
    <3> QED BY <3>4, FitsKept
  <2> QED BY <2>1, <2>2
<1>6. Frames(us, u)
  BY <1>1, <1>5 DEF Frames
<1>7. Chain(us, u)
  <2>1. ASSUME NEW k \in 1..N, NEW l \in 1..N, k < l
        PROVE  u[k].at \in Around(us, u[l].at) /\ u[k].at < u[l].at
    <3>1. st[k].at \in Around(ns, st[l].at) /\ st[k].at < st[l].at
      BY <1>0, <2>1 DEF Stacked, Chain
    <3>2. st[l].at \in 0..Len(ns)
      BY <1>4 DEF Fits, Kept
    <3> QED BY <1>1, <3>1, <3>2 DEF Kept
  <2>2. ASSUME NEW k \in 1..N, u[k].phase = "again" PROVE \E j \in 1..N : j < k /\ u[j].phase = "include"
    <3>1. \E j \in 1..N : j < k /\ st[j].phase = "include"
      BY <1>0, <1>1, <2>2 DEF Stacked, Chain
    <3> QED BY <1>1, <3>1
  <2> QED BY <1>1, <2>1, <2>2 DEF Chain
<1>8. u[N].phase = "made" => u[N].todo = <<>>
  <2> SUFFICES ASSUME u[N].phase = "made" PROVE r = <<>>
    BY <1>1
  <2>1. Len(s) <= 1 /\ Len(s) \in Nat
    BY <1>0, <1>1, SeqFacts DEF Stacked, Mades, Made
  <2>2. r \in Seq(Nat) /\ Len(r) = Len(s) - 1
    BY <1>0, <1>1, HeadTailProperties
  <2>3. Len(s) > 0
    BY <1>1, SeqFacts
  <2>4. Len(r) = 0
    BY <2>1, <2>2, <2>3
  <2> QED BY <2>2, <2>4, SeqFacts
<1>9. ASSUME NEW k \in 1..N
      PROVE  Made(us, u[k]) /\ (u[k].phase = "made" => u[k].todo = <<>>)
  <2>1. Made(ns, st[k]) /\ (st[k].phase = "made" /\ k < N => st[k].todo = <<>>)
    BY <1>0 DEF Stacked, Mades
  <2>2. u[k].phase = "made" => u[k].todo = <<>>
    <3>1. CASE k = N
      BY <1>8, <3>1
    <3>2. CASE k # N
      BY <1>1, <2>1, <3>2
    <3> QED BY <3>1, <3>2
  <2>3. Made(us, u[k])
    <3> SUFFICES ASSUME u[k].phase = "made"
                 PROVE  Made(us, u[k])
      BY DEF Made
    <3>1. Len(u[k].todo) = 0 /\ st[k].phase = "made" /\ u[k].at = st[k].at /\ st[k].at \in 1..Len(ns)
      BY <1>1, <1>4, <2>2 DEF Fits
    <3>2. ns[st[k].at].name = "block" /\ ns[st[k].at].file = "xml" /\ ns[st[k].at].context = None
      BY <2>1, <3>1 DEF Made
    <3>3. us[st[k].at].name = "block" /\ us[st[k].at].file = "xml" /\ us[st[k].at].context = None
      BY <3>1, <3>2 DEF Kept, Same
    <3> QED BY <3>1, <3>3 DEF Made
  <2> QED BY <2>2, <2>3
<1>10. ASSUME NEW j \in 1..Len(ns), Ahead(ns, st, j),
              st[N].phase \in Importing => Head(s) \notin Around(ns, j)
       PROVE  Ahead(us, u, j)
  <2>1. PICK k \in 1..N : AheadIn(ns, st[k], j)
    BY <1>0, <1>10 DEF Ahead
  <2>2. AheadIn(ns, u[k], j)
    <3>1. CASE k # N
      BY <1>1, <2>1, <3>1
    <3>2. CASE k = N /\ st[k].phase \in {"include", "made"} /\ st[k].at \in Around(ns, ns[j].parent)
      BY <1>1, <3>2 DEF AheadIn
    <3>3. CASE k = N /\ st[k].phase \in Importing /\ \E l \in 1..Len(s) : s[l] \in Around(ns, j)
      <4>1. PICK l \in 1..Len(s) : s[l] \in Around(ns, j)
        BY <3>3
      <4>2. s[l] # Head(s)
        BY <1>10, <3>3, <4>1
      <4>3. PICK h \in 1..Len(r) : r[h] = s[l]
        BY <1>3, <4>2
      <4> QED BY <1>1, <3>3, <4>1, <4>3 DEF AheadIn
    <3> QED BY <1>0, <2>1, <3>1, <3>2, <3>3 DEF AheadIn
  <2>3. AheadIn(us, u[k], j)
    BY <2>2, AheadKept
  <2> QED BY <1>1, <2>3 DEF Ahead
<1> QED
  BY <1>0, <1>1, <1>6, <1>7, <1>8, <1>9, <1>10 DEF Stacked, Mades

(* What a step brings below a node whose includes are traversed waits.       *)
LEMMA RestWaits ==
    ASSUME NEW ns, NEW st, Stacked(ns, st), Waits(ns, st),
           st # <<>>, st[Len(st)].todo # <<>>, NEW u, Advanced(st, u),
           NEW us, NEW vs, Kept(ns, us),
           \A j \in 1..Len(ns) : Open(us[j]) =>
               Open(ns[j]) /\ (st[Len(st)].phase \in Importing => Head(st[Len(st)].todo) \notin Around(ns, j)),
           \A j \in (Len(ns) + 1)..Len(us) :
               Open(us[j]) => st[Len(st)].phase \in Including /\ us[j].parent = st[Len(st)].at,
           Tree(us, vs), \E a : Ways(us, a)
    PROVE  Stacked(us, u) /\ Waits(us, u)
<1>1. /\ Stacked(us, u) /\ Frames(us, u) /\ Chain(us, u)
      /\ \A j \in 1..Len(ns) :
             /\ Ahead(ns, st, j)
             /\ st[Len(st)].phase \in Importing => Head(st[Len(st)].todo) \notin Around(ns, j)
             => Ahead(us, u, j)
  BY RestStack DEF Stacked
<1>2. \A j \in 1..Len(ns) : Open(us[j]) => Ahead(us, u, j)
  BY <1>1 DEF Waits
<1>3. ASSUME NEW j \in (Len(ns) + 1)..Len(us), Open(us[j]) PROVE Ahead(us, u, j)
  <2>0. PICK N, p : N = Len(st) /\ p = us[j].parent
    OBVIOUS
  <2>1. st[N].phase \in Including /\ p = st[N].at
    BY <1>3, <2>0
  <2>2. N \in 1..N /\ Len(u) = N /\ u[N].phase = st[N].phase /\ u[N].at = p
    BY <2>0, <2>1, StackFacts DEF Advanced, Stacked
  <2>3. PICK k \in 1..N : u[k].phase = "include" /\ (k = N \/ k < N)
    <3>1. CASE u[N].phase = "include"
      BY <2>2, <3>1
    <3>2. CASE u[N].phase # "include"
      <4>1. u[N].phase = "again"
        BY <2>1, <2>2, <3>2 DEF Including
      <4> QED BY <1>1, <2>2, <4>1 DEF Chain
    <3> QED BY <3>1, <3>2
  <2>4. p \in 1..Len(us) /\ p \in Around(us, p)
    <3>1. p \in 1..Len(us)
      BY <1>1, <2>2 DEF Frames, Fits
    <3> QED BY <3>1, AroundFacts
  <2>5. u[k].at \in Around(us, p)
    <3>1. CASE k = N
      BY <2>2, <2>4, <3>1
    <3>2. CASE k < N
      BY <1>1, <2>2, <3>2 DEF Chain
    <3> QED BY <2>3, <3>1, <3>2
  <2>6. AheadIn(us, u[k], j)
    BY <2>0, <2>3, <2>5 DEF AheadIn
  <2> QED BY <2>2, <2>6 DEF Ahead
<1>4. ASSUME NEW j \in 1..Len(us), j \notin 1..Len(ns) PROVE j \in (Len(ns) + 1)..Len(us)
  BY <1>4 DEF Kept
<1> QED
  BY <1>1, <1>2, <1>3, <1>4 DEF Waits

(* A traversal that interrupts the one on top, or begins.                    *)
LEMMA PushStack ==
    ASSUME NEW us, NEW vs, Tree(us, vs), \E a : Ways(us, a), NEW u, Stacked(us, u),
           NEW t, Fits(us, t), Made(us, t),
           u # <<>> => /\ us[t.at].parent = u[Len(u)].at
                       /\ u[Len(u)].phase = "made" => u[Len(u)].todo = <<>>,
           t.phase = "again" => u # <<>> /\ u[Len(u)].phase \in Including,
           NEW v, v = Append(u, t),
           \A j \in 1..Len(us) : Open(us[j]) => Ahead(us, u, j) \/ AheadIn(us, t, j)
    PROVE  Stacked(us, v) /\ Waits(us, v)
<1>0. PICK N : N = Len(u)
  OBVIOUS
<1>1. u \in Seq(FrameType) /\ N \in Nat /\ t \in FrameType /\ (u # <<>> <=> N \in 1..N)
  BY <1>0, StackFacts DEF Stacked, Frames, Fits
<1>2. v \in Seq(FrameType) /\ Len(v) = N + 1 /\ (\A k \in 1..N : v[k] = u[k]) /\ v[N + 1] = t
  BY ONLY <1>0, <1>1, v = Append(u, t), AppendProperties
<1>3. /\ N + 1 \in 1..Len(v) /\ \A k \in 1..Len(v) : k \in 1..N \/ k = N + 1
      /\ \A k \in 1..N : k \in 1..Len(v) /\ k < N + 1
      /\ \A k \in 1..N : k = N \/ k < N
  BY <1>1, <1>2
<1>4. Frames(us, v)
  BY <1>0, <1>2, <1>3 DEF Stacked, Frames
<1>5. ASSUME NEW k \in 1..N PROVE u[k].at \in Around(us, t.at) /\ u[k].at < t.at
  <2>1. PICK x, p : x = t.at /\ p = us[x].parent
    OBVIOUS
  <2>2. u # <<>> /\ p = u[N].at /\ x \in 1..Len(us) /\ N \in 1..N /\ t.at = x
    BY <1>0, <1>1, <2>1 DEF Fits
  <2>3. p \in 1..Len(us) /\ p < x /\ Around(us, x) = {x} \cup Around(us, p) /\ p \in Around(us, p)
    <3>1. p \in 1..Len(us)
      BY <1>0, <2>2 DEF Stacked, Frames, Fits
    <3>2. p \in 0..(x - 1) /\ Len(us) \in Nat
      <4>1. Len(us) \in Nat /\ us[x].parent \in 0..(x - 1)
        BY ONLY Tree(us, vs), <2>2, TreeFacts
      <4> QED BY <2>1, <4>1
    <3>3. Around(us, x) = {x} \cup Around(us, p)
      <4>1. \A j \in 1..Len(us) : Around(us, j) = {j} \cup Around(us, us[j].parent)
        BY AroundFacts
      <4> QED BY ONLY <2>1, <2>2, <4>1
    <3>4. Around(us, p) = {p} \cup Around(us, us[p].parent)
      BY <3>1, AroundFacts
    <3>5. p < x
      BY <2>2, <3>2
    <3> QED BY <3>1, <3>3, <3>4, <3>5
  <2>4. CASE k = N
    BY <2>2, <2>3, <2>4
  <2>5. CASE k < N
    <3>1. u[k].at \in Around(us, p) /\ u[k].at < p
      BY <1>0, <2>2, <2>5 DEF Stacked, Chain
    <3>2. u[k].at \in 1..Len(us)
      BY <1>0 DEF Stacked, Frames, Fits
    <3>3. Len(us) \in Nat
      BY TreeFacts
    <3> QED BY <2>2, <2>3, <3>1, <3>2, <3>3
  <2> QED BY <1>3, <2>4, <2>5
<1>6. Chain(us, v)
  <2>1. ASSUME NEW k \in 1..Len(v), NEW l \in 1..Len(v), k < l
        PROVE  v[k].at \in Around(us, v[l].at) /\ v[k].at < v[l].at
    <3>1. k \in 1..N
      BY <1>1, <1>2, <2>1
    <3>2. CASE l \in 1..N
      BY <1>0, <1>2, <2>1, <3>1, <3>2 DEF Stacked, Chain
    <3>3. CASE l = N + 1
      BY <1>2, <1>5, <3>1, <3>3
    <3> QED BY <1>3, <3>2, <3>3
  <2>2. \A k \in 1..N : u[k].phase = "again" => \E j \in 1..N : j < k /\ u[j].phase = "include"
    BY <1>0 DEF Stacked, Chain
  <2>3. ASSUME NEW k \in 1..Len(v), v[k].phase = "again"
        PROVE  \E j \in 1..Len(v) : j < k /\ v[j].phase = "include"
    <3>1. CASE k \in 1..N
      BY <1>2, <1>3, <2>2, <2>3, <3>1
    <3>2. CASE k = N + 1
      <4>1. N \in 1..N /\ u[N].phase \in Including
        BY <1>0, <1>1, <1>2, <2>3, <3>2
      <4>2. CASE u[N].phase = "include"
        BY <1>2, <1>3, <3>2, <4>1, <4>2
      <4>3. CASE u[N].phase = "again"
        <5>1. PICK j \in 1..N : j < N /\ u[j].phase = "include"
          BY <2>2, <4>1, <4>3
        <5> QED BY <1>2, <1>3, <3>2, <5>1
      <4> QED BY <4>1, <4>2, <4>3 DEF Including
    <3> QED BY <1>3, <3>1, <3>2
  <2> QED BY <2>1, <2>3 DEF Chain
<1>7. Mades(us, v)
  <2>1. ASSUME NEW k \in 1..Len(v) PROVE Made(us, v[k]) /\ (v[k].phase = "made" /\ k < Len(v) => v[k].todo = <<>>)
    <3>1. CASE k = N + 1
      BY <1>2, <3>1
    <3>2. CASE k \in 1..N
      <4>1. Made(us, u[k]) /\ (u[k].phase = "made" /\ k < N => u[k].todo = <<>>)
        BY <1>0, <3>2 DEF Stacked, Mades
      <4>2. CASE k < N
        BY <1>2, <3>2, <4>1, <4>2
      <4>3. CASE k = N
        BY <1>0, <1>1, <1>2, <3>2, <4>1, <4>3
      <4> QED BY <1>3, <3>2, <4>2, <4>3
    <3> QED BY <1>3, <3>1, <3>2
  <2> QED BY <2>1 DEF Mades
<1>8. ASSUME NEW j \in 1..Len(us), Open(us[j]) PROVE Ahead(us, v, j)
  <2>1. CASE Ahead(us, u, j)
    BY <1>0, <1>2, <1>3, <2>1 DEF Ahead
  <2>2. CASE AheadIn(us, t, j)
    BY <1>2, <1>3, <2>2 DEF Ahead
  <2> QED BY <1>8, <2>1, <2>2
<1> QED
  BY <1>4, <1>6, <1>7, <1>8 DEF Stacked, Waits

(* The traversal on top goes on as another one over the children of its node.*)
LEMMA TopStack ==
    ASSUME NEW ns, NEW st, Stacked(ns, st), st # <<>>, NEW us, Kept(ns, us),
           NEW f, Fits(us, f), f.at = st[Len(st)].at, f.phase \in {"include", "import"},
           NEW u, u = [st EXCEPT ![Len(st)] = f]
    PROVE  /\ Stacked(us, u)
           /\ \A j \in 1..Len(ns) :
                  Ahead(ns, st, j) => Ahead(us, u, j) \/ AheadIn(us, st[Len(st)], j)
           /\ \A j \in 1..Len(us) : AheadIn(us, f, j) => Ahead(us, u, j)
<1>0. PICK N : N = Len(st)
  OBVIOUS
<1>1. st \in Seq(FrameType) /\ N \in 1..N /\ N \in Nat /\ DOMAIN st = 1..N /\ f \in FrameType
      /\ \A k \in 1..N : st[k] \in FrameType /\ Fits(ns, st[k])
  BY <1>0, StackFacts DEF Stacked, Frames, Fits
<1>2. u = [st EXCEPT ![N] = f]
  BY <1>0
<1>3. DOMAIN u = 1..N /\ u = [k \in 1..N |-> u[k]] /\ \A k \in 1..N : u[k] = IF k = N THEN f ELSE st[k]
  BY ONLY <1>1, <1>2
<1>4. \A k \in 1..N : u[k] \in FrameType
  BY ONLY <1>1, <1>3
<1>5. u \in Seq(FrameType) /\ Len(u) = N
  BY ONLY <1>1, <1>3, <1>4, FunctionSeq
<1>6. Frames(us, u)
  <2>1. ASSUME NEW k \in 1..N PROVE Fits(us, u[k])
    <3>1. CASE k = N
      BY <1>3, <3>1
    <3>2. CASE k # N
      BY <1>1, <1>3, <3>2, FitsKept
    <3> QED BY <3>1, <3>2
  <2> QED BY <1>5, <2>1 DEF Frames
<1>7. \A k \in 1..N : u[k].at = st[k].at /\ st[k].at \in 0..Len(ns)
  BY <1>0, <1>1, <1>3 DEF Fits, Kept
<1>8. Chain(us, u)
  <2>1. ASSUME NEW k \in 1..N, NEW l \in 1..N, k < l
        PROVE  u[k].at \in Around(us, u[l].at) /\ u[k].at < u[l].at
    <3>1. st[k].at \in Around(ns, st[l].at) /\ st[k].at < st[l].at
      BY <1>0, <2>1 DEF Stacked, Chain
    <3> QED BY <1>7, <3>1 DEF Kept
  <2>2. ASSUME NEW k \in 1..N, u[k].phase = "again" PROVE \E j \in 1..N : j < k /\ u[j].phase = "include"
    <3>1. k # N /\ u[k] = st[k]
      BY <1>3, <2>2
    <3>2. PICK j \in 1..N : j < k /\ st[j].phase = "include"
      BY <1>0, <2>2, <3>1 DEF Stacked, Chain
    <3>3. j # N
      BY <1>1, <3>2
    <3> QED BY <1>3, <3>2, <3>3
  <2> QED BY <1>5, <2>1, <2>2 DEF Chain
<1>9. Mades(us, u)
  <2>1. ASSUME NEW k \in 1..N PROVE Made(us, u[k]) /\ (u[k].phase = "made" /\ k < N => u[k].todo = <<>>)
    <3>1. CASE k = N
      BY <1>3, <3>1 DEF Made
    <3>2. CASE k # N
      <4>1. Made(ns, st[k]) /\ (st[k].phase = "made" => st[k].todo = <<>>) /\ Fits(ns, st[k])
        <5>1. k < N
          BY <1>1, <3>2
        <5> QED BY <1>0, <1>1, <5>1 DEF Stacked, Mades
      <4>2. Made(us, st[k])
        BY <4>1, MadeKept
      <4> QED BY <1>3, <3>2, <4>1, <4>2
    <3> QED BY <3>1, <3>2
  <2> QED BY <1>5, <2>1 DEF Mades
<1>10. ASSUME NEW j \in 1..Len(ns), Ahead(ns, st, j) PROVE Ahead(us, u, j) \/ AheadIn(us, st[N], j)
  <2>1. PICK k \in 1..N : AheadIn(ns, st[k], j)
    BY <1>0, <1>10 DEF Ahead
  <2>2. AheadIn(us, st[k], j)
    BY <2>1, AheadKept
  <2> QED BY <1>3, <1>5, <2>2 DEF Ahead
<1>11. \A j \in 1..Len(us) : AheadIn(us, f, j) => Ahead(us, u, j)
  BY <1>1, <1>3, <1>5 DEF Ahead
<1> QED
  BY <1>0, <1>6, <1>8, <1>9, <1>10, <1>11 DEF Stacked

(* The children of a node wait for their traversal.                          *)
LEMMA FitsChildren ==
    ASSUME NEW ns, NEW ks, Tree(ns, ks), NEW us, Kept(ns, us), NEW at \in 1..Len(ns),
           NEW phase \in Phases, NEW recognize \in BOOLEAN, NEW f, f = Frame(phase, at, ks[at], recognize)
    PROVE  Fits(us, f) /\ f.phase = phase /\ f.at = at /\ f.todo = ks[at]
<1>1. PICK todo : todo = ks[at]
  OBVIOUS
<1>2. todo \in Seq(Nat) /\ Len(ns) \in Nat /\ at \in Nat
  BY <1>1, TreeFacts
<1>3. f.phase = phase /\ f.at = at /\ f.todo = todo /\ f \in FrameType
  BY <1>1, <1>2 DEF Frame, FrameType
<1>4. \A k \in 1..Len(todo) : todo[k] \in 2..Len(ns) /\ ns[todo[k]].parent = at
  BY <1>1 DEF Tree, KidsOf
<1>5. Fits(ns, f)
  BY <1>3, <1>4 DEF Fits
<1> QED
  BY <1>1, <1>3, <1>5, FitsKept

(* What is below a node is at or below one of its children.                  *)
LEMMA BelowChildren ==
    ASSUME NEW ns, NEW ks, Tree(ns, ks), \E a : Ways(ns, a), NEW i \in 1..Len(ns), NEW at \in Around(ns, i), at # i
    PROVE  \E k \in 1..Len(ks[at]) : ks[at][k] \in Around(ns, i)
<1>1. PICK c \in Around(ns, i) : c \in 2..Len(ns) /\ ns[c].parent = at
  BY AroundChild
<1>2. PICK k \in 1..Len(ks[at]) : ks[at][k] = c
  BY <1>1 DEF Tree, KidsOf
<1> QED
  BY <1>1, <1>2

-----------------------------------------------------------------------------
(* Steps *)

Steps(in, ns, ks, us, vs, u) ==
    /\ \E p \in 1..Len(ns) : \E at, m : Step(in, ns, ks, us, vs, p, at, m)
    /\ Stacked(us, u) /\ Waits(us, u)

(* The element the traversal has come to is done with, or is left alone.     *)
LEMMA StepReplaced ==
    ASSUME NEW in, Contents(in), NEW ns, NEW ks, TreeInv(in, ns, ks), NEW st, Stacked(ns, st), Waits(ns, st),
           st # <<>>, st[Len(st)].todo # <<>>, NEW u, Advanced(st, u),
           NEW i, i = Head(st[Len(st)].todo), i \in 1..Len(ns), ns[i].name # "block",
           NEW n, Same(ns[i], n), NEW us, Replaced(ns, us, i, n),
           n.context = ns[i].context \/ Clear(in, ns, i, n.context),
           n.name = "block" /\ n.context \in Files => in.kind[n.context] \notin Text \cup Elements,
           Open(n) => st[Len(st)].phase \in Including /\ Open(ns[i])
    PROVE  Steps(in, ns, ks, us, ks, u)
<1>0. 1 \in 1..Len(ns) /\ Len(ns) \in Nat /\ Tree(ns, ks) /\ (\E a : Ways(ns, a))
  BY TreeFacts DEF TreeInv
<1>1. Grown(ns, us, 1, 0) /\ Len(us) = Len(ns)
  BY <1>0, GrownReplaced DEF Replaced
<1>2. Inserted(ks, ks, 1, 0, 0)
  BY <1>0, KidsKept
<1>3. us[i] = n /\ \A j \in 1..Len(ns) : j # i => us[j] = ns[j]
  BY DEF Replaced
<1>4. Relabelled(in, ns, us)
  BY <1>3 DEF Relabelled
<1>5. NewItems(in, ns, us, ks)
  BY <1>3 DEF NewItems
<1>6. Step(in, ns, ks, us, ks, 1, 0, 0)
  BY <1>1, <1>2, <1>4, <1>5 DEF Step
<1>7. TreeInv(in, us, ks) /\ Kept(ns, us) /\ Tree(us, ks) /\ (\E a : Ways(us, a))
  BY <1>0, <1>6, StepKept DEF TreeInv
<1>8. ASSUME NEW j \in 1..Len(ns), Open(us[j])
      PROVE  Open(ns[j]) /\ (st[Len(st)].phase \in Importing => i \notin Around(ns, j))
  <2>1. CASE j = i
    <3>1. st[Len(st)].phase \in Including /\ Open(ns[i])
      BY <1>3, <1>8, <2>1
    <3>2. Including \cap Importing = {}
      BY DEF Including, Importing
    <3> QED BY <2>1, <3>1, <3>2
  <2>2. CASE j # i
    <3>1. \A h \in Around(ns, j) : h = j \/ ns[h].name = "block"
      BY <1>0, AroundBlocks
    <3> QED BY <1>3, <1>8, <2>2, <3>1
  <2> QED BY <2>1, <2>2
<1>9. \A j \in (Len(ns) + 1)..Len(us) :
          Open(us[j]) => st[Len(st)].phase \in Including /\ us[j].parent = st[Len(st)].at
  <2>1. \A j \in (Len(ns) + 1)..Len(us) : FALSE
    BY <1>0, <1>1
  <2> QED BY <2>1
<1>10. Stacked(us, u) /\ Waits(us, u)
  BY <1>7, <1>8, <1>9, RestWaits
<1> QED
  BY <1>0, <1>6, <1>10 DEF Steps

(* Only the directives that are recognised open. *)
Opened(ns, us, insert, ids) ==
    \A j \in 1..Len(ns) : Open(us[j]) => Open(ns[j]) \/ (insert = "import" /\ \E k \in DOMAIN ids : ids[k] = j)

(* Directives become elements. *)
LEMMA RecognizedStep ==
    ASSUME NEW in, NEW ns, NEW ks, Tree(ns, ks), NEW insert \in {"import", "include"}, NEW ids,
           NEW us, us = ns \/ us = Recognized(ns, insert, ids)
    PROVE  Step(in, ns, ks, us, ks, 1, 0, 0) /\ Len(us) = Len(ns) /\ Opened(ns, us, insert, ids)
<1>0. ns \in Seq(NodeType) /\ Len(ns) \in Nat /\ 1 \in 1..Len(ns)
  BY TreeFacts DEF Tree
<1>1. /\ us \in Seq(NodeType) /\ Len(us) = Len(ns)
      /\ \A j \in 1..Len(ns) : /\ Same(ns[j], us[j]) /\ us[j].context = ns[j].context /\ us[j].error = ns[j].error
                               /\ us[j].name = "block" => ns[j].name = "block"
                               /\ us[j].name # ns[j].name =>
                                     us[j].name = insert /\ \E k \in DOMAIN ids : ids[k] = j
  <2>1. CASE us = Recognized(ns, insert, ids)
    <3>1. /\ us \in Seq(NodeType) /\ Len(us) = Len(ns)
          /\ \A j \in 1..Len(ns) : /\ Same(ns[j], us[j])
                                   /\ us[j].context = ns[j].context /\ us[j].error = ns[j].error
                                   /\ us[j].name \in {"block", "p"} => us[j].name = ns[j].name
                                   /\ us[j].name # ns[j].name =>
                                         us[j].name = insert /\ \E k \in DOMAIN ids : ids[k] = j
      BY ONLY <1>0, <2>1, insert \in {"import", "include"}, RecognizedFacts
    <3> QED BY <3>1
  <2>2. CASE us = ns
    BY <1>0, <2>2, SameRefl
  <2> QED BY <2>1, <2>2
<1>2. \A j \in (Len(ns) + 1)..Len(us) : FALSE
  BY <1>0, <1>1
<1>3. Grown(ns, us, 1, 0)
  BY <1>0, <1>1, <1>2 DEF Grown
<1>4. Inserted(ks, ks, 1, 0, 0) /\ Relabelled(in, ns, us) /\ NewItems(in, ns, us, ks)
  BY <1>1, KidsKept DEF Relabelled, NewItems
<1>5. Step(in, ns, ks, us, ks, 1, 0, 0)
  BY <1>3, <1>4 DEF Step
<1>6. ASSUME NEW j \in 1..Len(ns), Open(us[j])
      PROVE  Open(ns[j]) \/ (insert = "import" /\ \E k \in DOMAIN ids : ids[k] = j)
  <2>1. CASE us[j].name = ns[j].name
    BY <1>1, <1>6, <2>1 DEF Open, Neglected, Silent, EmptyCached, Same
  <2>2. CASE us[j].name # ns[j].name
    BY <1>1, <1>6, <2>2 DEF Open
  <2> QED BY <2>1, <2>2
<1> QED
  BY <1>1, <1>5, <1>6 DEF Opened

Content(ns, us, w, c, of, i) ==
    \E textual \in BOOLEAN :
        LET x == w \o Fresh(c, textual, of, i)
        IN  us = x \/ \E ids : us = Recognized(x, "include", ids)
ContentKids(ks, vs, i, n, c) == vs = [ks EXCEPT ![i] = Ids(n, Len(c))] \o [k \in DOMAIN c |-> <<>>]
DoneWith(ns, us, w, i, of) ==
    /\ \A j \in 1..Len(ns) : Open(us[j]) => Open(ns[j]) /\ j # i
    /\ \A j \in (Len(ns) + 1)..Len(us) : us[j].of = of /\ us[j].parent = i
    /\ Same(w[i], us[i]) /\ us[i].context = w[i].context

(* An import becomes a block with the content of a file, or of its own.      *)
LEMMA ExpandedStep ==
    ASSUME NEW in, NEW ns, NEW ks, Tree(ns, ks), NEW i \in 1..Len(ns), ns[i].name = "import",
           NEW n, Same(ns[i], n), n.name = "block", NEW w, Replaced(ns, w, i, n),
           NEW c \in Seq(Item), NEW of \in Origin,
           Clear(in, ns, i, n.context),
           n.context \in Files => in.content[n.context] = c /\ of = n.context,
           NEW us, Content(ns, us, w, c, of, i),
           NEW vs, ContentKids(ks, vs, i, Len(ns), c)
    PROVE  Step(in, ns, ks, us, vs, i, 0, Len(c)) /\ DoneWith(ns, us, w, i, of)
<1>0. /\ Len(ns) \in Nat /\ Len(c) \in Nat /\ DOMAIN c = 1..Len(c) /\ DOMAIN ks = 1..Len(ks) /\ Len(ks) = Len(ns)
      /\ ks \in Seq(Seq(Nat)) /\ ks[i] = <<>>
  BY TreeFacts, SeqFacts DEF Tree, KidsOf
<1>a. PICK textual \in BOOLEAN :
        us = w \o Fresh(c, textual, of, i)
        \/ \E ids : us = Recognized(w \o Fresh(c, textual, of, i), "include", ids)
  BY DEF Content
<1>b. PICK x : x = w \o Fresh(c, textual, of, i)
  OBVIOUS
<1>c. us = x \/ \E ids : us = Recognized(x, "include", ids)
  BY <1>a, <1>b
<1>1. /\ Grown(ns, x, i, Len(c))
      /\ \A j \in 1..Len(ns) : x[j] = w[j]
      /\ \A k \in 1..Len(c) : x[Len(ns) + k] = ItemNode(c[k], textual, of, i)
  <2>1. /\ Tree(ns, ks) /\ i \in 1..Len(ns) /\ Same(ns[i], n) /\ Replaced(ns, w, i, n) /\ c \in Seq(Item)
        /\ textual \in BOOLEAN /\ of \in Origin /\ x = w \o Fresh(c, textual, of, i)
    BY <1>b
  <2>2. Grown(ns, x, i, Len(c))
    BY ONLY <2>1, GrownFresh
  <2>3. PICK f : f = Fresh(c, textual, of, i)
    OBVIOUS
  <2>4. f \in Seq(NodeType) /\ Len(f) = Len(c) /\ \A k \in 1..Len(c) : f[k] = ItemNode(c[k], textual, of, i)
    <3>1. i \in Nat
      BY <1>0
    <3> QED BY <2>3, <3>1, FreshFacts
  <2>5. w \in Seq(NodeType) /\ Len(w) = Len(ns)
    BY DEF Replaced
  <2>6. x = w \o f
    BY <1>b, <2>3
  <2>7. /\ \A j \in 1..Len(w) : x[j] = w[j]
        /\ \A k \in 1..Len(f) : x[Len(w) + k] = f[k]
    <3>1. w \in Seq(NodeType) /\ f \in Seq(NodeType)
      BY <2>4, <2>5
    <3> QED BY ONLY <2>6, <3>1, ConcatFacts
  <2> QED BY <2>2, <2>4, <2>5, <2>7
<1>2. x \in Seq(NodeType) /\ Len(x) = Len(ns) + Len(c)
  BY <1>1 DEF Grown
<1>3. /\ us \in Seq(NodeType) /\ Len(us) = Len(x)
      /\ \A j \in 1..Len(x) : /\ Same(x[j], us[j]) /\ us[j].context = x[j].context /\ us[j].error = x[j].error
                              /\ us[j].name = "import" => x[j].name = "import"
                              /\ us[j].name = "block" => x[j].name = "block"
  <2>1. CASE us = x
    BY <1>2, <2>1, SameRefl
  <2>2. CASE \E ids : us = Recognized(x, "include", ids)
    <3>1. PICK ids : us = Recognized(x, "include", ids)
      BY <2>2
    <3>2. /\ us \in Seq(NodeType) /\ Len(us) = Len(x)
          /\ \A j \in 1..Len(x) : /\ Same(x[j], us[j])
                                  /\ us[j].context = x[j].context /\ us[j].error = x[j].error
                                  /\ us[j].name \in {"block", "p"} => us[j].name = x[j].name
                                  /\ us[j].name # x[j].name => us[j].name = "include"
      <4>1. x \in Seq(NodeType) /\ "include" \in {"import", "include"}
        BY <1>2
      <4> QED BY ONLY <3>1, <4>1, RecognizedFacts
    <3> QED BY <3>2
  <2> QED BY <1>c, <2>1, <2>2
<1>4. \A j \in 1..Len(ns) : j \in 1..Len(x)
  BY <1>0, <1>2
<1>5. \A j \in (Len(ns) + 1)..Len(us) : j \in 1..Len(x) /\ j - Len(ns) \in 1..Len(c) /\ j = Len(ns) + (j - Len(ns))
  <2>1. Len(us) = Len(x) /\ Len(x) = Len(ns) + Len(c) /\ Len(ns) \in Nat /\ Len(c) \in Nat
    BY <1>0, <1>2, <1>3
  <2> QED BY ONLY <2>1
<1>6. \A j \in 1..Len(ns) : x[j] = IF j = i THEN n ELSE ns[j]
  <2>1. w[i] = n /\ \A j \in 1..Len(ns) : j # i => w[j] = ns[j]
    BY DEF Replaced
  <2>2. \A j \in 1..Len(ns) : x[j] = w[j]
    BY <1>1
  <2> QED BY ONLY <2>1, <2>2
<1>7. ASSUME NEW j \in (Len(ns) + 1)..Len(us)
      PROVE  \E k \in 1..Len(c) : /\ j = Len(ns) + k /\ x[j] = ItemNode(c[k], textual, of, i)
                                  /\ c[k] \in Item
  <2>1. PICK k \in 1..Len(c) : j = Len(ns) + k
    BY <1>5
  <2>2. c[k] \in Item
    BY SeqFacts
  <2> QED BY <1>1, <2>1, <2>2
<1>8. ASSUME NEW j \in (Len(ns) + 1)..Len(us)
      PROVE  /\ us[j].of = of /\ us[j].parent = i /\ us[j].context = None /\ us[j].name # "block" /\ Filed(us[j])
  <2>1. PICK k \in 1..Len(c) : j = Len(ns) + k /\ x[j] = ItemNode(c[k], textual, of, i) /\ c[k] \in Item
    BY <1>7
  <2>2. i \in Nat
    BY <1>0
  <2>3. x[j].of = of /\ x[j].parent = i /\ x[j].context = None /\ x[j].name # "block" /\ Filed(x[j])
    BY <2>1, <2>2, ItemNodeFacts
  <2>4. Same(x[j], us[j]) /\ us[j].context = x[j].context /\ (us[j].name = "block" => x[j].name = "block")
    BY <1>3, <1>5
  <2>5. us[j].of = x[j].of /\ us[j].parent = x[j].parent /\ us[j].inner = x[j].inner /\ us[j].file = x[j].file
        /\ (us[j].name = "p" <=> x[j].name = "p")
    BY <2>4 DEF Same
  <2>6. Filed(us[j])
    BY <2>3, <2>5 DEF Filed
  <2> QED BY <2>3, <2>4, <2>5, <2>6
<1>9. \A j \in 1..Len(ns) : Same(ns[j], us[j])
  <2>1. SUFFICES ASSUME NEW j \in 1..Len(ns) PROVE Same(ns[j], us[j])
    OBVIOUS
  <2>2. Same(ns[j], x[j])
    BY <1>6, SameRefl
  <2>3. Same(x[j], us[j])
    BY <1>3, <1>4
  <2> QED BY <2>2, <2>3, SameTrans
<1>10. Grown(ns, us, i, Len(c))
  BY <1>0, <1>2, <1>3, <1>8, <1>9 DEF Grown
<1>11. Inserted(ks, vs, i, 0, Len(c)) /\ vs[i] = Ids(Len(ns), Len(c))
  <2>1. PICK q : q = Ids(Len(ns), Len(c))
    OBVIOUS
  <2>2. q \in Seq(Nat) /\ Len(q) = Len(c) /\ \A k \in 1..Len(c) : q[k] = Len(ns) + k
    BY <1>0, <2>1, IdsFacts
  <2>3. vs = [ks EXCEPT ![i] = q] \o [k \in DOMAIN c |-> <<>>]
    BY <2>1 DEF ContentKids
  <2>4. i \in 1..Len(ks) /\ 0 \in 0..Len(ks[i]) /\ Len(ks[i]) = 0
    BY <1>0
  <2>5. Len(q) = Len(ks[i]) + Len(c)
    BY <1>0, <2>2, <2>4
  <2>6. \A k \in 1..0 : q[k] = ks[i][k]
    OBVIOUS
  <2>7. \A k \in (0 + 1)..(0 + Len(c)) : q[k] = Len(ks) + (k - 0)
    BY <1>0, <2>2
  <2>8. \A k \in (0 + Len(c) + 1)..(Len(ks[i]) + Len(c)) : q[k] = ks[i][k - Len(c)]
    BY <1>0, <2>4
  <2>9. Inserted(ks, vs, i, 0, Len(c))
    BY <1>0, <2>2, <2>3, <2>4, <2>5, <2>6, <2>7, <2>8, KidsInserted
  <2>10. vs[i] = q
    <3>1. [ks EXCEPT ![i] = q] \in Seq(Seq(Nat)) /\ Len([ks EXCEPT ![i] = q]) = Len(ks) /\ [ks EXCEPT ![i] = q][i] = q
      BY <1>0, <2>2, <2>4, ExceptSeq
    <3>2. PICK y : y = [k \in DOMAIN c |-> <<>>]
      OBVIOUS
    <3>3. y \in Seq(Seq(Nat))
      BY <3>2, Emptied
    <3>4. PICK z : z = [ks EXCEPT ![i] = q]
      OBVIOUS
    <3>5. vs = z \o y /\ z \in Seq(Seq(Nat)) /\ i \in 1..Len(z) /\ z[i] = q
      BY <2>3, <2>4, <3>1, <3>2, <3>4
    <3>6. vs[i] = z[i]
      BY ONLY <3>3, <3>5, ConcatFacts
    <3> QED BY <3>5, <3>6
  <2> QED BY <2>1, <2>9, <2>10
<1>12. us[i].context = n.context /\ us[i].name = "block" /\ Same(n, us[i])
  <2>1. x[i] = n /\ Same(x[i], us[i]) /\ us[i].context = x[i].context
    BY <1>3, <1>4, <1>6
  <2>2. Same(n, us[i])
    BY <2>1
  <2>3. us[i].name = "block"
    BY <2>2 DEF Same
  <2> QED BY <2>1, <2>2, <2>3
<1>13. \A j \in 1..Len(ns) : j # i => us[j].context = ns[j].context
  BY <1>3, <1>4, <1>6
<1>14. Relabelled(in, ns, us)
  BY <1>12, <1>13 DEF Relabelled
<1>15. Fitting(in, ns, us, i)
  BY DEF Fitting
<1>16. ASSUME us[i].context \in Files PROVE ItemsIn(in, us, vs, us[i].context, i)
  <2>1. PICK f : f = us[i].context
    OBVIOUS
  <2>2. f \in Files /\ in.content[f] = c /\ of = f
    BY <1>12, <1>16, <2>1
  <2>3. DOMAIN vs[i] = 1..Len(c) /\ \A k \in 1..Len(c) : vs[i][k] = Len(ns) + k
    <3>1. Ids(Len(ns), Len(c)) \in Seq(Nat) /\ Len(Ids(Len(ns), Len(c))) = Len(c)
          /\ \A k \in 1..Len(c) : Ids(Len(ns), Len(c))[k] = Len(ns) + k
      BY <1>0, IdsFacts
    <3>2. vs[i] \in Seq(Nat) /\ Len(vs[i]) = Len(c) /\ \A k \in 1..Len(c) : vs[i][k] = Len(ns) + k
      BY <1>11, <3>1
    <3>3. DOMAIN vs[i] = 1..Len(vs[i])
      BY <3>2, SeqFacts
    <3> QED BY <3>2, <3>3
  <2>4. ASSUME NEW k \in 1..Len(c)
        PROVE  us[Len(ns) + k].of = f /\ KindOf(us[Len(ns) + k]) = c[k].k /\ FileOf(us[Len(ns) + k]) = c[k].f
    <3>1. PICK j : j = Len(ns) + k
      OBVIOUS
    <3>2. j \in 1..Len(x) /\ j \in (Len(ns) + 1)..Len(us) /\ c[k] \in Item /\ i \in Nat
      <4>1. c[k] \in Item
        BY SeqFacts
      <4>2. i \in Nat
        BY <1>0
      <4>3. Len(us) = Len(ns) + Len(c) /\ Len(x) = Len(us) /\ Len(c) \in Nat /\ Len(ns) \in Nat /\ k \in 1..Len(c)
        BY <1>0, <1>2, <1>3
      <4>4. j \in 1..Len(x) /\ j \in (Len(ns) + 1)..Len(us)
        BY ONLY <3>1, <4>3
      <4> QED BY <4>1, <4>2, <4>4
    <3>3. x[j] = ItemNode(c[k], textual, of, i)
      BY <1>1, <3>1
    <3>4. KindOf(x[j]) = c[k].k /\ FileOf(x[j]) = c[k].f
      BY <3>2, <3>3, ItemNodeFacts
    <3>5. KindOf(us[j]) = KindOf(x[j]) /\ FileOf(us[j]) = FileOf(x[j])
      BY <1>3, <3>2 DEF Same
    <3> QED BY <1>8, <2>2, <3>1, <3>2, <3>4, <3>5
  <2>5. ItemsIn(in, us, vs, f, i)
    BY <1>0, <2>2, <2>3, <2>4, ItemsFresh
  <2> QED BY <2>1, <2>5
<1>17. NewItems(in, ns, us, vs)
  <2>1. ASSUME NEW j \in 1..Len(ns), ns[j].name # "block", us[j].name = "block", us[j].context \in Files
        PROVE  ItemsIn(in, us, vs, us[j].context, j)
    <3>1. x[j].name = "block"
      BY <1>3, <1>4, <2>1
    <3>2. j = i
      BY <1>6, <2>1, <3>1
    <3> QED BY <1>16, <2>1, <3>2
  <2> QED BY <2>1 DEF NewItems
<1>18. Step(in, ns, ks, us, vs, i, 0, Len(c))
  BY <1>10, <1>11, <1>12, <1>14, <1>15, <1>17 DEF Step
<1>19. ASSUME NEW j \in 1..Len(ns), Open(us[j]) PROVE Open(ns[j]) /\ j # i
  <2>1. Same(x[j], us[j]) /\ us[j].error = x[j].error /\ (us[j].name = "import" => x[j].name = "import")
    BY <1>3, <1>4
  <2>2. Open(x[j])
    BY <1>19, <2>1 DEF Open, Neglected, Silent, EmptyCached, Same
  <2>3. j # i
    BY <1>6, <2>2 DEF Open
  <2> QED BY <1>6, <2>2, <2>3
<1> QED
  BY <1>8, <1>12, <1>18, <1>19 DEF DoneWith, Replaced
NoneOpened(ns, us) == \A j \in 1..Len(ns) : Open(us[j]) => Open(ns[j])
Brought(us, w, c, f, p) == \E textual \in BOOLEAN : us = w \o Fresh(c, textual, f, p)
BroughtKids(ks, vs, i, p, at, n, c) ==
    /\ at = CHOOSE k \in DOMAIN ks[p] : ks[p][k] = i
    /\ vs = [ks EXCEPT ![p] = SubSeq(ks[p], 1, at) \o Ids(n, Len(c)) \o SubSeq(ks[p], at + 1, Len(ks[p]))]
            \o [k \in DOMAIN c |-> <<>>]

(* An include becomes an empty text in front of the content of its file.     *)
LEMMA IncludedStep ==
    ASSUME NEW in, NEW ns, NEW ks, Tree(ns, ks), NEW i \in 2..Len(ns), ns[i].name = "include",
           NEW n, Same(ns[i], n), n.name = "text", n.context = ns[i].context, NEW w, Replaced(ns, w, i, n),
           NEW f \in Files, NEW c \in Seq(Item), NEW p, p = ns[i].parent,
           ns[p].context \in Files /\ in.kind[ns[p].context] \in Checked => ns[p].context # f,
           NEW us, Brought(us, w, c, f, p),
           NEW vs, NEW at, BroughtKids(ks, vs, i, p, at, Len(ns), c)
    PROVE  p \in 1..Len(ns) /\ Step(in, ns, ks, us, vs, p, at, Len(c)) /\ NoneOpened(ns, us)
<1>0. /\ Len(ns) \in Nat /\ Len(c) \in Nat /\ DOMAIN c = 1..Len(c) /\ DOMAIN ks = 1..Len(ks) /\ Len(ks) = Len(ns)
      /\ ks \in Seq(Seq(Nat)) /\ i \in 1..Len(ns)
  <2>1. /\ Len(ns) \in Nat /\ Len(c) \in Nat /\ DOMAIN c = 1..Len(c) /\ DOMAIN ks = 1..Len(ks) /\ Len(ks) = Len(ns)
        /\ ks \in Seq(Seq(Nat))
    BY TreeFacts, SeqFacts DEF Tree
  <2> QED BY <2>1
<1>1. p \in 1..(i - 1) /\ \E k \in 1..Len(ks[p]) : ks[p][k] = i
  BY DEF Tree, Older, KidsOf
<1>2. p \in 1..Len(ns) /\ p # i /\ p \in Nat
  <2>1. Len(ns) \in Nat /\ i \in 1..Len(ns) /\ p \in 1..(i - 1)
    BY <1>0, <1>1
  <2> QED BY ONLY <2>1
<1>3. ks[p] \in Seq(Nat) /\ Len(ks[p]) \in Nat /\ DOMAIN ks[p] = 1..Len(ks[p])
  <2>1. Tree(ns, ks)
    OBVIOUS
  <2> QED BY ONLY <1>2, <2>1, TreeFacts
<1>4. at \in 1..Len(ks[p]) /\ ks[p][at] = i
  <2>1. \E k \in DOMAIN ks[p] : ks[p][k] = i
    BY <1>1, <1>3
  <2>2. at \in DOMAIN ks[p] /\ ks[p][at] = i
    <3>1. at = CHOOSE k \in DOMAIN ks[p] : ks[p][k] = i
      BY DEF BroughtKids
    <3> QED BY ONLY <2>1, <3>1, Zenon
  <2> QED BY <1>3, <2>2
<1>5. ns[p].name = "block"
  <2>1. ks[p] # <<>>
    BY <1>3, <1>4, SeqFacts
  <2> QED BY <1>2, <2>1 DEF Tree, KidsOf
<1>a. PICK textual \in BOOLEAN : us = w \o Fresh(c, textual, f, p)
  BY DEF Brought
<1>6. Grown(ns, us, p, Len(c))
  <2>1. /\ Tree(ns, ks) /\ i \in 1..Len(ns) /\ Same(ns[i], n) /\ Replaced(ns, w, i, n) /\ c \in Seq(Item)
        /\ textual \in BOOLEAN /\ f \in Origin /\ p \in 1..Len(ns) /\ us = w \o Fresh(c, textual, f, p)
    BY <1>0, <1>2, <1>a DEF Origin
  <2> QED BY ONLY <2>1, GrownFresh
<1>7. /\ \A j \in 1..Len(ns) : us[j] = w[j]
      /\ \A k \in 1..Len(c) : us[Len(ns) + k] = ItemNode(c[k], textual, f, p)
  <2>1. PICK g : g = Fresh(c, textual, f, p)
    OBVIOUS
  <2>2. g \in Seq(NodeType) /\ Len(g) = Len(c) /\ \A k \in 1..Len(c) : g[k] = ItemNode(c[k], textual, f, p)
    <3>1. f \in Origin
      BY DEF Origin
    <3> QED BY <1>2, <2>1, <3>1, FreshFacts
  <2>3. w \in Seq(NodeType) /\ Len(w) = Len(ns) /\ us = w \o g
    BY <1>a, <2>1 DEF Replaced
  <2>4. /\ \A j \in 1..Len(w) : us[j] = w[j]
        /\ \A k \in 1..Len(g) : us[Len(w) + k] = g[k]
    <3>1. w \in Seq(NodeType) /\ g \in Seq(NodeType) /\ us = w \o g
      BY <2>2, <2>3
    <3> QED BY ONLY <3>1, ConcatFacts
  <2> QED BY <2>2, <2>3, <2>4
<1>8. \A j \in 1..Len(ns) : us[j] = IF j = i THEN n ELSE ns[j]
  BY <1>7 DEF Replaced
<1>9. Inserted(ks, vs, p, at, Len(c))
  <2>1. PICK new : new = Ids(Len(ns), Len(c))
    OBVIOUS
  <2>2. new \in Seq(Nat) /\ Len(new) = Len(c) /\ \A k \in 1..Len(c) : new[k] = Len(ns) + k
    BY <1>0, <2>1, IdsFacts
  <2>3. PICK q : q = SubSeq(ks[p], 1, at) \o new \o SubSeq(ks[p], at + 1, Len(ks[p]))
    OBVIOUS
  <2>4. at \in 0..Len(ks[p])
    BY <1>3, <1>4
  <2>5. /\ q \in Seq(Nat) /\ Len(q) = Len(ks[p]) + Len(new)
        /\ \A k \in 1..at : q[k] = ks[p][k]
        /\ \A k \in (at + 1)..(at + Len(new)) : q[k] = new[k - at]
        /\ \A k \in (at + Len(new) + 1)..(Len(ks[p]) + Len(new)) : q[k] = ks[p][k - Len(new)]
    <3>1. PICK s : s = ks[p]
      OBVIOUS
    <3>2. s \in Seq(Nat) /\ at \in 0..Len(s) /\ new \in Seq(Nat)
          /\ q = SubSeq(s, 1, at) \o new \o SubSeq(s, at + 1, Len(s))
      BY <1>3, <2>2, <2>3, <2>4, <3>1
    <3>3. Behind(s, at, new, q)
      BY ONLY <3>2, Spliced
    <3> QED BY <3>1, <3>3 DEF Behind
  <2>6. vs = [ks EXCEPT ![p] = q] \o [k \in DOMAIN c |-> <<>>]
    BY <2>1, <2>3 DEF BroughtKids
  <2>7. \A k \in (at + 1)..(at + Len(c)) : q[k] = Len(ks) + (k - at)
    <3>1. SUFFICES ASSUME NEW k \in (at + 1)..(at + Len(c)) PROVE q[k] = Len(ks) + (k - at)
      OBVIOUS
    <3>2. PICK l : l = k - at
      OBVIOUS
    <3>3. l \in 1..Len(c)
      <4>1. Len(c) \in Nat /\ Len(ks[p]) \in Nat /\ at \in 1..Len(ks[p]) /\ k \in (at + 1)..(at + Len(c))
        BY <1>0, <1>3, <1>4
      <4> QED BY ONLY <3>2, <4>1
    <3>4. q[k] = new[l]
      BY <2>2, <2>5, <3>2
    <3> QED BY <1>0, <2>2, <3>2, <3>3, <3>4
  <2>8. p \in 1..Len(ks)
    BY <1>0, <1>2
  <2>9. /\ Len(q) = Len(ks[p]) + Len(c)
        /\ \A k \in (at + Len(c) + 1)..(Len(ks[p]) + Len(c)) : q[k] = ks[p][k - Len(c)]
    BY <2>2, <2>5
  <2> QED BY <1>0, <2>4, <2>5, <2>6, <2>7, <2>8, <2>9, KidsInserted
<1>10. Relabelled(in, ns, us)
  BY <1>8 DEF Relabelled
<1>11. \A j \in (Len(ns) + 1)..Len(us) : us[j].of = f
  <2>1. SUFFICES ASSUME NEW j \in (Len(ns) + 1)..Len(us) PROVE us[j].of = f
    OBVIOUS
  <2>2. PICK k : k = j - Len(ns)
    OBVIOUS
  <2>3. Len(us) = Len(ns) + Len(c)
    BY <1>6 DEF Grown
  <2>4. k \in 1..Len(c) /\ j = Len(ns) + k
    BY <1>0, <2>2, <2>3
  <2>5. us[j] = ItemNode(c[k], textual, f, p)
    BY <1>7, <2>4
  <2>6. c[k] \in Item /\ f \in Origin
    BY <2>4, SeqFacts DEF Origin
  <2> QED BY <1>2, <2>5, <2>6, ItemNodeFacts
<1>12. Fitting(in, ns, us, p)
  BY <1>11 DEF Fitting
<1>13. NewItems(in, ns, us, vs)
  BY <1>8 DEF NewItems
<1>14. us[p].name = "block"
  BY <1>2, <1>5, <1>8
<1>15. Step(in, ns, ks, us, vs, p, at, Len(c))
  BY <1>6, <1>9, <1>10, <1>12, <1>13, <1>14 DEF Step
<1>16. NoneOpened(ns, us)
  BY <1>8 DEF Open, NoneOpened
<1> QED
  BY <1>2, <1>15, <1>16

(* When its includes are done the imports of a node are recognised: they     *)
(* are what is ahead.                                                        *)
LEMMA DoneSteps ==
    ASSUME NEW in, Contents(in), NEW ns, NEW ks, TreeInv(in, ns, ks), NEW st, Stacked(ns, st), Waits(ns, st),
           st # <<>>, NEW t, t = st[Len(st)], t.phase = "include",
           NEW us, us = ns \/ us = Recognized(ns, "import", ks[t.at]),
           NEW u, u = [st EXCEPT ![Len(st)] = Frame("import", t.at, ks[t.at], t.recognize)]
    PROVE  Steps(in, ns, ks, us, ks, u)
<1>0. Tree(ns, ks) /\ (\E a : Ways(ns, a)) /\ 1 \in 1..Len(ns) /\ Len(st) \in 1..Len(st)
  BY TreeFacts, StackFacts DEF TreeInv, Stacked
<1>1. PICK at, todo : at = t.at /\ todo = ks[at]
  OBVIOUS
<1>2. at \in 1..Len(ns) /\ t.recognize \in BOOLEAN
  BY <1>0, <1>1, StackFacts DEF Stacked
<1>3. DOMAIN todo = 1..Len(todo)
  BY <1>0, <1>1, <1>2, TreeFacts
<1>4. us = ns \/ us = Recognized(ns, "import", todo)
  BY <1>1
<1>5. /\ Step(in, ns, ks, us, ks, 1, 0, 0) /\ Len(us) = Len(ns)
      /\ \A j \in 1..Len(ns) : Open(us[j]) => Open(ns[j]) \/ (\E k \in DOMAIN todo : todo[k] = j)
  <2>1. Tree(ns, ks) /\ "import" \in {"import", "include"} /\ (us = ns \/ us = Recognized(ns, "import", todo))
    BY <1>0, <1>4
  <2>2. Step(in, ns, ks, us, ks, 1, 0, 0) /\ Len(us) = Len(ns) /\ Opened(ns, us, "import", todo)
    BY ONLY <2>1, RecognizedStep
  <2> QED BY <2>2 DEF Opened
<1>6. Kept(ns, us) /\ Tree(us, ks) /\ (\E a : Ways(us, a))
  BY <1>0, <1>5, StepKept DEF TreeInv
<1>7. PICK f : f = Frame("import", at, todo, t.recognize)
  OBVIOUS
<1>8. Fits(us, f) /\ f.phase = "import" /\ f.at = at /\ f.todo = todo
  <2>1. "import" \in Phases
    BY DEF Phases
  <2> QED BY <1>0, <1>1, <1>2, <1>6, <1>7, <2>1, FitsChildren
<1>9. u = [st EXCEPT ![Len(st)] = f]
  BY <1>1, <1>7
<1>10. /\ Stacked(us, u)
       /\ \A j \in 1..Len(ns) : Ahead(ns, st, j) => Ahead(us, u, j) \/ AheadIn(us, t, j)
       /\ \A j \in 1..Len(us) : AheadIn(us, f, j) => Ahead(us, u, j)
  <2>1. /\ Stacked(ns, st) /\ st # <<>> /\ Kept(ns, us) /\ Fits(us, f) /\ t = st[Len(st)]
        /\ f.at = st[Len(st)].at /\ f.phase \in {"include", "import"} /\ u = [st EXCEPT ![Len(st)] = f]
    BY <1>1, <1>6, <1>8, <1>9
  <2> QED BY ONLY <2>1, TopStack
<1>11. ASSUME NEW j \in 1..Len(ns), \E k \in DOMAIN todo : todo[k] \in Around(us, j) PROVE Ahead(us, u, j)
  <2>1. AheadIn(us, f, j)
    BY <1>3, <1>8, <1>11 DEF AheadIn, Importing
  <2> QED BY <1>5, <1>10, <2>1
<1>12. ASSUME NEW j \in 1..Len(us), Open(us[j]) PROVE Ahead(us, u, j)
  <2>1. CASE \E k \in DOMAIN todo : todo[k] = j
    <3>1. j \in Around(us, j)
      BY <1>6, AroundFacts
    <3> QED BY <1>5, <1>11, <2>1, <3>1
  <2>2. CASE Open(ns[j])
    <3>1. Ahead(us, u, j) \/ AheadIn(us, t, j)
      BY <1>5, <1>10, <2>2 DEF Waits
    <3>2. ASSUME AheadIn(us, t, j) PROVE \E k \in DOMAIN todo : todo[k] \in Around(us, j)
      <4>1. at \in Around(us, us[j].parent)
        BY <1>1, <3>2 DEF AheadIn, Importing
      <4>2. at \in Around(us, j) /\ at # j
        <5>1. Around(us, j) = {j} \cup Around(us, us[j].parent)
          BY <1>6, AroundFacts
        <5>2. us[at].name = "block"
          BY <1>6, <4>1, AroundBlocks
        <5> QED BY <2>2, <1>12, <4>1, <5>1, <5>2 DEF Open
      <4>3. \E k \in 1..Len(ks[at]) : ks[at][k] \in Around(us, j)
        BY <1>6, <4>2, BelowChildren
      <4> QED BY <1>1, <1>3, <4>3
    <3> QED BY <1>5, <1>11, <3>1, <3>2
  <2> QED BY <1>5, <1>12, <2>1, <2>2
<1> QED
  BY <1>0, <1>5, <1>10, <1>12 DEF Steps, Waits

(* What an instruction has made is a part of the document now.               *)
LEMMA MadeDoneSteps ==
    ASSUME NEW in, Contents(in), NEW ns, NEW ks, TreeInv(in, ns, ks), NEW st, Stacked(ns, st), Waits(ns, st),
           st # <<>>, NEW t, t = st[Len(st)], t.phase = "made",
           NEW u, u = [st EXCEPT ![Len(st)] = Frame("include", t.at, ks[t.at], TRUE)]
    PROVE  Steps(in, ns, ks, ns, ks, u)
<1>0. Tree(ns, ks) /\ (\E a : Ways(ns, a)) /\ 1 \in 1..Len(ns) /\ Len(st) \in 1..Len(st)
  BY TreeFacts, StackFacts DEF TreeInv, Stacked
<1>1. t.at \in 1..Len(ns)
  BY <1>0, StackFacts DEF Stacked
<1>2. PICK us, ids : us = ns /\ ids = <<>>
  OBVIOUS
<1>3. Step(in, ns, ks, us, ks, 1, 0, 0)
  <2>1. "import" \in {"import", "include"}
    OBVIOUS
  <2> QED BY <1>0, <1>2, <2>1, RecognizedStep
<1>4. Kept(ns, us)
  BY <1>0, <1>3, StepKept
<1>5. PICK f : f = Frame("include", t.at, ks[t.at], TRUE)
  OBVIOUS
<1>6. Fits(us, f) /\ f.phase = "include" /\ f.at = t.at
  <2>0. PICK r \in BOOLEAN : r = TRUE
    OBVIOUS
  <2>1. PICK phase, at : phase = "include" /\ at = t.at
    OBVIOUS
  <2>2. /\ Tree(ns, ks) /\ Kept(ns, us) /\ at \in 1..Len(ns) /\ phase \in Phases /\ r \in BOOLEAN
        /\ f = Frame(phase, at, ks[at], r)
    BY <1>0, <1>1, <1>4, <1>5, <2>0, <2>1 DEF Phases
  <2>3. Fits(us, f) /\ f.phase = phase /\ f.at = at
    BY ONLY <2>2, FitsChildren
  <2> QED BY <2>1, <2>3
<1>7. /\ Stacked(us, u)
      /\ \A j \in 1..Len(ns) : Ahead(ns, st, j) => Ahead(us, u, j) \/ AheadIn(us, t, j)
      /\ \A j \in 1..Len(us) : AheadIn(us, f, j) => Ahead(us, u, j)
  <2>1. /\ Stacked(ns, st) /\ st # <<>> /\ Kept(ns, us) /\ Fits(us, f) /\ t = st[Len(st)]
        /\ f.at = st[Len(st)].at /\ f.phase \in {"include", "import"} /\ u = [st EXCEPT ![Len(st)] = f]
    BY <1>4, <1>5, <1>6
  <2> QED BY ONLY <2>1, TopStack
<1>8. \A j \in 1..Len(us) : AheadIn(us, t, j) => AheadIn(us, f, j)
  BY <1>6 DEF AheadIn, Importing
<1>9. Waits(us, u)
  BY <1>2, <1>7, <1>8 DEF Waits
<1> QED
  BY <1>0, <1>2, <1>3, <1>7, <1>9 DEF Steps

(* A traversal that has come to its end has nothing ahead.                   *)
LEMMA ReturnSteps ==
    ASSUME NEW in, Contents(in), NEW ns, NEW ks, TreeInv(in, ns, ks), NEW st, Stacked(ns, st), Waits(ns, st),
           st # <<>>, st[Len(st)].phase \in {"again"} \cup Importing, st[Len(st)].todo = <<>>,
           NEW u, u = SubSeq(st, 1, Len(st) - 1)
    PROVE  Steps(in, ns, ks, ns, ks, u)
<1>0. Tree(ns, ks) /\ 1 \in 1..Len(ns)
  BY TreeFacts DEF TreeInv
<1>1. Step(in, ns, ks, ns, ks, 1, 0, 0)
  <2>1. "import" \in {"import", "include"}
    OBVIOUS
  <2>2. PICK us, ids : us = ns /\ ids = <<>>
    OBVIOUS
  <2>3. Step(in, ns, ks, us, ks, 1, 0, 0)
    BY <1>0, <2>1, <2>2, RecognizedStep
  <2> QED BY <2>2, <2>3
<1>5. PICK N, m : N = Len(st) /\ m = N - 1
  OBVIOUS
<1>6. N \in Nat /\ N \in 1..N /\ (\A k \in 1..N : st[k] \in FrameType) /\ Frames(ns, st) /\ Chain(ns, st) /\ Mades(ns, st)
  BY <1>5, StackFacts DEF Stacked
<1>7. m \in Nat /\ 1 <= m + 1 /\ (\A k \in 1..m : k \in 1..N /\ k < N) /\ \A k \in 1..N : k \in 1..m \/ k = N
  BY <1>5, <1>6
<1>8. u = SubSeq(st, 1, m) /\ \A k \in 1..m : st[k] \in FrameType
  BY <1>5, <1>6, <1>7
<1>9. u \in Seq(FrameType) /\ Len(u) = m - 1 + 1 /\ \A k \in 1..(m - 1 + 1) : u[k] = st[1 + k - 1]
  <2>1. 1 \in Nat
    OBVIOUS
  <2> QED BY ONLY <1>7, <1>8, <2>1, SubSeqFacts
<1>10. u \in Seq(FrameType) /\ Len(u) = m /\ \A k \in 1..m : u[k] = st[k]
  BY <1>7, <1>9
<1>11. Frames(ns, u)
  BY <1>5, <1>6, <1>7, <1>10 DEF Frames
<1>12. Chain(ns, u)
  <2>1. \A k, l \in 1..m : k < l => u[k].at \in Around(ns, u[l].at) /\ u[k].at < u[l].at
    BY <1>5, <1>6, <1>7, <1>10 DEF Chain
  <2>2. ASSUME NEW k \in 1..m, u[k].phase = "again" PROVE \E j \in 1..m : j < k /\ u[j].phase = "include"
    <3>1. PICK j \in 1..N : j < k /\ st[j].phase = "include"
      BY <1>5, <1>6, <1>7, <1>10, <2>2 DEF Chain
    <3>2. j \in 1..m
      BY <1>5, <1>6, <1>7, <3>1
    <3> QED BY <1>10, <3>1, <3>2
  <2> QED BY <1>10, <2>1, <2>2 DEF Chain
<1>13. Mades(ns, u)
  BY <1>5, <1>6, <1>7, <1>10 DEF Mades
<1>14. ASSUME NEW j \in 1..Len(ns), Open(ns[j]) PROVE Ahead(ns, u, j)
  <2>1. PICK k \in 1..N : AheadIn(ns, st[k], j)
    BY <1>5, <1>14 DEF Waits, Ahead
  <2>2. k # N
    <3>1. SUFFICES ASSUME k = N PROVE FALSE
      OBVIOUS
    <3>2. st[k].phase \notin {"include", "made"} /\ Len(st[k].todo) = 0
      BY <1>5, <3>1 DEF Importing
    <3> QED BY <2>1, <3>2 DEF AheadIn
  <2>3. k \in 1..m
    BY <1>7, <2>1, <2>2
  <2> QED BY <1>10, <2>1, <2>3 DEF Ahead
<1> QED
  BY <1>0, <1>1, <1>11, <1>12, <1>13, <1>14 DEF Steps, Waits, Stacked

(* The traversal of a new content is put on top.                             *)
LEMMA PushedSteps ==
    ASSUME NEW in, Contents(in), NEW ns, NEW ks, TreeInv(in, ns, ks), NEW st, Stacked(ns, st), Waits(ns, st),
           st # <<>>, st[Len(st)].todo # <<>>, NEW u, Advanced(st, u),
           NEW i, i = Head(st[Len(st)].todo), i \in 1..Len(ns), ns[i].name # "block", ns[i].parent = st[Len(st)].at,
           NEW us, NEW vs, NEW m \in Nat, Step(in, ns, ks, us, vs, i, 0, m),
           NEW w, NEW of, DoneWith(ns, us, w, i, of), NEW phase \in {"include", "made"},
           phase = "made" =>
               /\ m = 1 /\ us[i].name = "block" /\ us[i].file = "xml" /\ us[i].context = None
               /\ us[Len(ns) + 1].name = "import" /\ us[Len(ns) + 1].file \in Files,
           NEW recognize \in BOOLEAN, NEW v, v = Append(u, Frame(phase, i, Ids(Len(ns), m), recognize))
    PROVE  Steps(in, ns, ks, us, vs, v)
<1>0. Tree(ns, ks) /\ (\E a : Ways(ns, a)) /\ Kept(ns, us) /\ Tree(us, vs) /\ (\E a : Ways(us, a))
  BY StepKept DEF TreeInv
<1>1. Grown(ns, us, i, m) /\ Len(us) = Len(ns) + m /\ Len(ns) \in Nat /\ i \in Nat /\ Len(ns) > 0
  <2>1. Len(ns) \in Nat /\ Len(ns) > 0
    BY <1>0, TreeFacts
  <2> QED BY <2>1 DEF Step, Grown
<1>a. /\ \A j \in 1..Len(ns) : Open(us[j]) => Open(ns[j]) /\ j # i
      /\ \A j \in (Len(ns) + 1)..Len(us) : us[j].parent = i
  BY DEF DoneWith
<1>b. ASSUME NEW j \in 1..Len(ns), Open(us[j]) PROVE Open(ns[j]) /\ i \notin Around(ns, j)
  <2>1. \A h \in Around(ns, j) : h = j \/ ns[h].name = "block"
    BY <1>0, AroundBlocks
  <2> QED BY <1>a, <1>b, <2>1
<1>2. /\ Stacked(us, u) /\ (u[Len(u)].phase = "made" => u[Len(u)].todo = <<>>)
      /\ \A j \in 1..Len(ns) : Open(us[j]) => Ahead(us, u, j)
  <2>1. /\ Stacked(us, u) /\ (u[Len(u)].phase = "made" => u[Len(u)].todo = <<>>)
        /\ \A j \in 1..Len(ns) :
               Ahead(ns, st, j) /\ (st[Len(st)].phase \in Importing => i \notin Around(ns, j)) => Ahead(us, u, j)
    BY <1>0, RestStack
  <2> QED BY <1>b, <2>1 DEF Waits
<1>3. PICK todo : todo = Ids(Len(ns), m)
  OBVIOUS
<1>4. todo \in Seq(Nat) /\ Len(todo) = m /\ \A k \in 1..m : todo[k] = Len(ns) + k
  <2>1. Ids(Len(ns), m) \in Seq(Nat) /\ Len(Ids(Len(ns), m)) = m
        /\ \A k \in 1..m : Ids(Len(ns), m)[k] = Len(ns) + k
    BY <1>1, IdsFacts
  <2> QED BY <1>3, <2>1
<1>5. PICK t : t = Frame(phase, i, todo, recognize)
  OBVIOUS
<1>6. t.phase = phase /\ t.at = i /\ t.todo = todo /\ t \in FrameType
  <2>1. phase \in Phases
    BY DEF Phases
  <2> QED BY <1>1, <1>4, <1>5, <2>1 DEF Frame, FrameType
<1>7. i \in 1..Len(us)
  BY <1>1
<1>8. \A l \in 1..Len(todo) : todo[l] \in 2..Len(us) /\ us[todo[l]].parent = i
  <2>1. SUFFICES ASSUME NEW l \in 1..m PROVE todo[l] \in 2..Len(us) /\ us[todo[l]].parent = i
    BY <1>4
  <2>2. PICK j : j = Len(ns) + l
    OBVIOUS
  <2>3. j \in 2..Len(us) /\ j \in (Len(ns) + 1)..Len(us)
    BY <1>1, <2>2
  <2> QED BY <1>4, <1>a, <2>2, <2>3
<1>9. Fits(us, t)
  BY <1>6, <1>7, <1>8 DEF Fits
<1>10. ASSUME NEW j \in 1..Len(us), Open(us[j])
       PROVE  Ahead(us, u, j) \/ AheadIn(us, t, j)
  <2>1. j \in 1..Len(ns) \/ j \in (Len(ns) + 1)..Len(us)
    BY <1>1
  <2>2. i \in Around(us, i)
    BY <1>0, <1>7, AroundFacts
  <2> QED BY <1>2, <1>6, <1>10, <1>a, <2>1, <2>2 DEF AheadIn
<1>11. Made(us, t)
  <2>1. ASSUME phase = "made", NEW l \in 1..Len(todo) PROVE us[todo[l]].name = "import" /\ us[todo[l]].file \in Files
    <3>1. m = 1 /\ l = 1 /\ todo[l] = Len(ns) + 1
      BY <1>4, <2>1
    <3> QED BY <2>1, <3>1
  <2>2. phase = "made" => Len(todo) <= 1
    BY <1>4
  <2> QED BY <1>6, <2>1, <2>2 DEF Made
<1>12. u # <<>> /\ Len(u) = Len(st) /\ us[i].parent = u[Len(u)].at
  <2>1. Len(st) \in 1..Len(st) /\ Len(st) \in Nat
    BY StackFacts DEF Stacked
  <2>2. Len(u) = Len(st) /\ u[Len(st)].at = st[Len(st)].at /\ u \in Seq(FrameType)
    BY <2>1 DEF Advanced
  <2>3. us[i].parent = ns[i].parent
    BY <1>0 DEF Kept, Same
  <2>4. u # <<>>
    BY <2>1, <2>2, SeqFacts
  <2> QED BY <2>2, <2>3, <2>4
<1>13. v = Append(u, t)
  BY <1>3, <1>5
<1>14. Stacked(us, v) /\ Waits(us, v)
  BY <1>0, <1>2, <1>6, <1>9, <1>10, <1>11, <1>12, <1>13, PushStack
<1> QED
  BY <1>14 DEF Steps

(* The traversal of the block it has come to is put on top.                  *)
LEMMA EnteredSteps ==
    ASSUME NEW in, Contents(in), NEW ns, NEW ks, TreeInv(in, ns, ks), NEW st, Stacked(ns, st), Waits(ns, st),
           st # <<>>, st[Len(st)].todo # <<>>, NEW u, Advanced(st, u),
           NEW i, i = Head(st[Len(st)].todo), i \in 1..Len(ns), ns[i].name = "block", ns[i].parent = st[Len(st)].at,
           st[Len(st)].phase \in Including \cup Importing,
           NEW include \in BOOLEAN, include = (st[Len(st)].phase \in Including),
           NEW us, us = Recognized(ns, IF include THEN "include" ELSE "import", ks[i]),
           NEW v, v = Append(u, Frame(IF include THEN "again" ELSE "retry", i, ks[i], TRUE))
    PROVE  Steps(in, ns, ks, us, ks, v)
<1>0. Tree(ns, ks) /\ (\E a : Ways(ns, a)) /\ 1 \in 1..Len(ns)
  BY TreeFacts DEF TreeInv
<1>1. PICK insert, phase, todo : /\ insert = (IF include THEN "include" ELSE "import")
                                 /\ phase = (IF include THEN "again" ELSE "retry")
                                 /\ todo = ks[i]
  OBVIOUS
<1>2. insert \in {"import", "include"} /\ phase \in {"again", "retry"} /\ phase \in Phases
  BY <1>1 DEF Phases
<1>3. /\ Step(in, ns, ks, us, ks, 1, 0, 0) /\ Len(us) = Len(ns)
      /\ \A j \in 1..Len(ns) :
             Open(us[j]) => Open(ns[j]) \/ (insert = "import" /\ \E k \in DOMAIN todo : todo[k] = j)
  <2>1. Tree(ns, ks) /\ insert \in {"import", "include"} /\ us = Recognized(ns, insert, todo)
    BY <1>0, <1>1, <1>2
  <2>2. Step(in, ns, ks, us, ks, 1, 0, 0) /\ Len(us) = Len(ns) /\ Opened(ns, us, insert, todo)
    BY ONLY <2>1, RecognizedStep
  <2> QED BY <2>2 DEF Opened
<1>4. Kept(ns, us) /\ Tree(us, ks) /\ (\E a : Ways(us, a))
  BY <1>0, <1>3, StepKept DEF TreeInv
<1>5. /\ Stacked(us, u) /\ (u[Len(u)].phase = "made" => u[Len(u)].todo = <<>>)
      /\ \A j \in 1..Len(ns) :
             Ahead(ns, st, j) /\ (st[Len(st)].phase \in Importing => i \notin Around(ns, j)) => Ahead(us, u, j)
  BY <1>4, RestStack
<1>6. PICK t : t = Frame(phase, i, todo, TRUE)
  OBVIOUS
<1>7. Fits(us, t) /\ t.phase = phase /\ t.at = i /\ t.todo = todo /\ DOMAIN todo = 1..Len(todo)
  <2>1. DOMAIN todo = 1..Len(todo)
    BY <1>0, <1>1, TreeFacts
  <2>0. PICK r \in BOOLEAN : r = TRUE
    OBVIOUS
  <2>2. /\ Tree(ns, ks) /\ Kept(ns, us) /\ i \in 1..Len(ns) /\ phase \in Phases /\ r \in BOOLEAN
        /\ t = Frame(phase, i, ks[i], r) /\ todo = ks[i]
    BY <1>0, <1>1, <1>2, <1>4, <1>6, <2>0
  <2>3. Fits(us, t) /\ t.phase = phase /\ t.at = i /\ t.todo = ks[i]
    BY ONLY <2>2, FitsChildren
  <2> QED BY <2>1, <2>2, <2>3
<1>8. ASSUME ~include, NEW j \in 1..Len(ns), \E k \in DOMAIN todo : todo[k] \in Around(us, j) PROVE AheadIn(us, t, j)
  BY <1>1, <1>7, <1>8 DEF AheadIn, Importing
<1>9. ASSUME NEW j \in 1..Len(us), Open(us[j]) PROVE Ahead(us, u, j) \/ AheadIn(us, t, j)
  <2>1. CASE insert = "import" /\ \E k \in DOMAIN todo : todo[k] = j
    <3>1. j \in Around(us, j) /\ j \in 1..Len(ns)
      BY <1>3, <1>4, AroundFacts
    <3>2. ~include
      <4>1. SUFFICES ASSUME include PROVE FALSE
        OBVIOUS
      <4>2. insert = "include"
        BY <1>1, <4>1
      <4> QED BY <2>1, <4>2
    <3>3. \E k \in DOMAIN todo : todo[k] \in Around(us, j)
      BY <2>1, <3>1
    <3> QED BY ONLY <1>8, <3>1, <3>2, <3>3
  <2>2. CASE Open(ns[j])
    <3>1. Ahead(ns, st, j)
      BY <1>3, <2>2 DEF Waits
    <3>2. CASE include
      <4>1. st[Len(st)].phase \notin Importing
        BY <3>2 DEF Including, Importing
      <4> QED BY <1>3, <1>5, <3>1, <4>1
    <3>3. CASE ~include /\ i \notin Around(ns, j)
      BY <1>3, <1>5, <3>1, <3>3
    <3>4. CASE ~include /\ i \in Around(ns, j)
      <4>1. i \in Around(us, j)
        <5>1. j \in 0..Len(ns)
          BY <1>3
        <5> QED BY <1>4, <3>4, <5>1 DEF Kept
      <4>2. i # j
        BY <2>2 DEF Open
      <4>3. \E k \in 1..Len(ks[i]) : ks[i][k] \in Around(us, j)
        BY <1>4, <4>1, <4>2, <1>3, BelowChildren
      <4> QED BY <1>1, <1>3, <1>7, <1>8, <3>4, <4>3
    <3> QED BY <3>2, <3>3, <3>4
  <2> QED BY <1>3, <1>9, <2>1, <2>2
<1>10. u # <<>> /\ us[i].parent = u[Len(u)].at /\ u[Len(u)].phase = st[Len(st)].phase
  <2>1. Len(st) \in 1..Len(st) /\ Len(st) \in Nat
    BY StackFacts DEF Stacked
  <2>2. Len(u) = Len(st) /\ u[Len(st)].at = st[Len(st)].at /\ u[Len(st)].phase = st[Len(st)].phase /\ u \in Seq(FrameType)
    BY <2>1 DEF Advanced
  <2>3. us[i].parent = ns[i].parent
    BY <1>4 DEF Kept, Same
  <2>4. u # <<>>
    BY <2>1, <2>2, SeqFacts
  <2> QED BY <2>2, <2>3, <2>4
<1>11. Made(us, t) /\ (t.phase = "again" => u # <<>> /\ u[Len(u)].phase \in Including)
  BY <1>1, <1>2, <1>7, <1>10 DEF Made
<1>12. v = Append(u, t)
  BY <1>1, <1>6
<1>13. Stacked(us, v) /\ Waits(us, v)
  BY <1>4, <1>5, <1>7, <1>9, <1>10, <1>11, <1>12, PushStack
<1> QED
  BY <1>0, <1>3, <1>13 DEF Steps

-----------------------------------------------------------------------------
(* The invariant *)

Inv ==
    /\ input \in Inputs
    /\ TreeInv(input, nodes, kids)
    /\ Stacked(nodes, stack) /\ Waits(nodes, stack)

Result == input' = input /\ Steps(input, nodes, kids, nodes', kids', stack')

LEMMA InputFacts ==
    ASSUME Inv
    PROVE  /\ Contents(input) /\ input.readable \subseteq Files /\ input.cached \subseteq Files
           /\ StdinContent \in Seq(Item)
<1>1. input \in Inputs
  BY DEF Inv
<1> QED BY <1>1, InputAssumption DEF Contents

LEMMA InvFacts ==
    ASSUME Inv
    PROVE  /\ Tree(nodes, kids) /\ (\E a : Ways(nodes, a)) /\ Apart(input, nodes)
           /\ TreeInv(input, nodes, kids) /\ Stacked(nodes, stack) /\ Waits(nodes, stack)
           /\ Len(nodes) \in Nat /\ nodes \in Seq(NodeType) /\ DOMAIN nodes = 1..Len(nodes)
BY TreeFacts DEF Inv, TreeInv, Tree

LEMMA HereFacts ==
    ASSUME Inv, NEW phases, Under(phases)
    PROVE  /\ Here \in 2..Len(nodes) /\ Here \in 1..Len(nodes)
           /\ nodes[Here] \in NodeType /\ nodes[Here].parent \in 1..Len(nodes)
           /\ nodes[Here].parent = stack[Len(stack)].at /\ Filed(nodes[Here])
           /\ stack # <<>> /\ stack[Len(stack)].phase \in phases /\ stack[Len(stack)].todo # <<>>
           /\ Len(stack) \in 1..Len(stack)
           /\ Here = Head(stack[Len(stack)].todo)
           /\ Advanced(stack, Rest)
           /\ stack[Len(stack)].phase = "made" =>
                 /\ nodes[Here].name = "import" /\ nodes[Here].file \in Files
                 /\ nodes[nodes[Here].parent].file = "xml" /\ nodes[nodes[Here].parent].context = None
<1>1. PICK st, t : st = stack /\ t = st[Len(st)]
  OBVIOUS
<1>2. /\ st # <<>> /\ t.phase \in phases /\ t.todo # <<>> /\ Here = Head(t.todo)
      /\ stack # <<>> /\ stack[Len(stack)].phase \in phases /\ stack[Len(stack)].todo # <<>>
      /\ Here = Head(stack[Len(stack)].todo)
  BY <1>1 DEF Under, Top, Here
<1>3. Frames(nodes, st) /\ Mades(nodes, st) /\ Tree(nodes, kids) /\ Len(nodes) \in Nat
  BY <1>1, InvFacts DEF Stacked
<1>4. Len(st) \in 1..Len(st) /\ st \in Seq(FrameType)
  BY <1>2, <1>3, StackFacts DEF Frames
<1>5. t.todo \in Seq(Nat) /\ t.at \in 1..Len(nodes)
      /\ \A l \in 1..Len(t.todo) : t.todo[l] \in 2..Len(nodes) /\ nodes[t.todo[l]].parent = t.at
  BY <1>1, <1>3, <1>4, StackFacts
<1>6. Head(t.todo) = t.todo[1] /\ 1 \in 1..Len(t.todo)
  BY <1>2, <1>5, TailFacts
<1>7. Here \in 2..Len(nodes) /\ nodes[Here].parent = t.at
  BY <1>2, <1>5, <1>6
<1>8. Here \in 1..Len(nodes)
  BY <1>3, <1>7
<1>9. nodes[Here] \in NodeType /\ Filed(nodes[Here])
  BY <1>3, <1>7, <1>8, TreeFacts DEF Tree
<1>10. PICK u : u = Rest
  OBVIOUS
<1>11. u = [st EXCEPT ![Len(st)].todo = Tail(@)]
  BY <1>1, <1>10 DEF Rest
<1>12. Advanced(st, u)
  BY <1>1, <1>2, <1>4, <1>11, AdvancedFacts
<1>13. ASSUME t.phase = "made"
       PROVE  /\ nodes[Here].name = "import" /\ nodes[Here].file \in Files
              /\ nodes[t.at].file = "xml" /\ nodes[t.at].context = None
  <2>1. Made(nodes, t)
    BY <1>1, <1>3, <1>4 DEF Mades
  <2> QED BY <1>2, <1>6, <1>13, <2>1 DEF Made
<1> QED
  BY <1>1, <1>2, <1>4, <1>5, <1>7, <1>8, <1>9, <1>10, <1>12, <1>13

LEMMA ReplacedResult ==
    ASSUME Inv, NEW phases, Under(phases), NEW n, Same(nodes[Here], n), Replaced(nodes, nodes', Here, n),
           nodes[Here].name # "block",
           n.context = nodes[Here].context \/ Clear(input, nodes, Here, n.context),
           n.name = "block" /\ n.context \in Files => input.kind[n.context] \notin Text \cup Elements,
           Open(n) => phases \subseteq Including /\ Open(nodes[Here]),
           input' = input, kids' = kids, stack' = Rest
    PROVE  Result
<1>1. PICK i, u, st : i = Here /\ u = Rest /\ st = stack
  OBVIOUS
<1>2. /\ i \in 1..Len(nodes) /\ st # <<>> /\ st[Len(st)].todo # <<>>
      /\ i = Head(st[Len(st)].todo) /\ st[Len(st)].phase \in phases /\ Advanced(st, u)
  BY <1>1, HereFacts
<1>3. TreeInv(input, nodes, kids) /\ Stacked(nodes, st) /\ Waits(nodes, st) /\ Contents(input)
  BY <1>1, InvFacts, InputFacts
<1>4. PICK us : us = nodes'
  OBVIOUS
<1>5. /\ Same(nodes[i], n) /\ Replaced(nodes, us, i, n) /\ nodes[i].name # "block"
      /\ (n.context = nodes[i].context \/ Clear(input, nodes, i, n.context))
      /\ (n.name = "block" /\ n.context \in Files => input.kind[n.context] \notin Text \cup Elements)
      /\ (Open(n) => st[Len(st)].phase \in Including /\ Open(nodes[i]))
  BY <1>1, <1>2, <1>4
<1>6. Steps(input, nodes, kids, us, kids, u)
  BY ONLY <1>2, <1>3, <1>5, StepReplaced
<1> QED
  BY <1>1, <1>4, <1>6 DEF Result

LEMMA ErrorResult ==
    ASSUME Inv, NEW phases, Under(phases), NEW e \in Errors, Error(Here, e), input' = input,
           nodes[Here].name # "block", e = "none" => nodes[Here].name # "import"
    PROVE  Result
<1>1. PICK i : i = Here
  OBVIOUS
<1>2. i \in 1..Len(nodes) /\ nodes[i] \in NodeType /\ nodes \in Seq(NodeType)
  BY <1>1, HereFacts, InvFacts
<1>3. PICK n : n = [nodes[i] EXCEPT !.error = e]
  OBVIOUS
<1>4. n \in NodeType /\ Same(nodes[i], n) /\ n.name = nodes[i].name /\ n.context = nodes[i].context /\ n.error = e
  BY <1>2, <1>3, Failed
<1>5. nodes' = [nodes EXCEPT ![i] = n] /\ stack' = Rest /\ kids' = kids
  BY <1>1, <1>3 DEF Error
<1>6. Replaced(nodes, nodes', i, n)
  BY <1>2, <1>4, <1>5, ReplacedFacts
<1>7. ~Open(n) /\ n.name # "block"
  BY <1>1, <1>4 DEF Open
<1> QED
  BY <1>1, <1>4, <1>5, <1>6, <1>7, ReplacedResult

LEMMA PassResult ==
    ASSUME Inv, NEW phases, Under(phases), nodes[Here].name # "block",
           phases \subseteq Including \/ ~IsImport(Here) \/ Silent(nodes[Here]),
           stack' = Rest, UNCHANGED <<input, stdin, nodes, kids>>
    PROVE  Result
<1>1. PICK i, n : i = Here /\ n = nodes[i]
  OBVIOUS
<1>2. nodes \in Seq(NodeType) /\ Same(nodes[i], n)
  BY <1>1, InvFacts, SameRefl
<1>3. Replaced(nodes, nodes', i, n)
  BY <1>1, <1>2 DEF Replaced
<1>4. Open(n) => phases \subseteq Including
  BY <1>1 DEF Open, Neglected, IsImport
<1>5. n.name # "block" /\ n.context = nodes[Here].context /\ n = nodes[Here]
  BY <1>1
<1> QED
  BY <1>1, <1>2, <1>3, <1>4, <1>5, ReplacedResult

(* The context that an element may get: there is no circle, or what is       *)
(* around it with the same context is not seen, because of an instruction.   *)
LEMMA NotCircular ==
    ASSUME Inv, NEW phases, Under(phases), "made" \notin phases, NEW f, f = nodes[Here].file, ~IsCircular(Here)
    PROVE  /\ Clear(input, nodes, Here, f)
           /\ f \in Files /\ input.kind[f] \in Checked => nodes[nodes[Here].parent].context # f
<1> SUFFICES ASSUME f \in Files, input.kind[f] \in Checked
             PROVE  /\ \A a \in Around(nodes, nodes[Here].parent) :
                          nodes[a].context = f => Between(nodes, Here, a)
                    /\ nodes[nodes[Here].parent].context # f
  BY DEF Clear
<1>1. PICK st, p, N : st = stack /\ p = nodes[Here].parent /\ N = Len(st)
  OBVIOUS
<1>2. /\ N \in 1..N /\ N \in Nat /\ DOMAIN st = 1..N /\ p = st[N].at /\ st[N].phase # "made" /\ p \in 1..Len(nodes)
      /\ Len(nodes) \in Nat
  BY <1>1, HereFacts, InvFacts, StackFacts DEF Stacked
<1>3. Tree(nodes, kids) /\ (\E a : Ways(nodes, a)) /\ Frames(nodes, st) /\ Chain(nodes, st) /\ Mades(nodes, st)
  BY <1>1, InvFacts DEF Stacked
<1>4. ASSUME NEW a \in Around(nodes, p), nodes[a].context = f
      PROVE  a # p /\ Between(nodes, Here, a)
  <2>1. Unseen(a)
    BY <1>1, <1>4 DEF IsCircular
  <2>2. PICK k \in 1..N : st[k].phase = "made" /\ a <= st[k].at
    BY <1>1, <1>2, <2>1 DEF Unseen
  <2>3. k < N
    BY <1>2, <2>2
  <2>4. st[k].at \in Around(nodes, st[N].at) /\ st[k].at < st[N].at
    BY <1>1, <1>2, <1>3, <2>3 DEF Chain
  <2>5. PICK d : d = st[k].at
    OBVIOUS
  <2>6. nodes[d].file = "xml" /\ nodes[d].context = None /\ d \in 1..Len(nodes)
    BY <1>1, <1>3, <2>2, <2>5 DEF Mades, Made, Frames, Fits
  <2>7. a # d
    BY <1>4, <2>6, NamesApart
  <2>8. a \in 1..Len(nodes)
    BY <1>2, <1>3, <1>4, AroundOlder
  <2>9. a < d /\ d < p /\ d \in Around(nodes, p)
    BY <1>2, <2>2, <2>4, <2>5, <2>6, <2>7, <2>8
  <2>10. a # p
    BY <1>2, <2>6, <2>8, <2>9
  <2> QED BY <1>1, <2>6, <2>9, <2>10 DEF Between
<1>5. p \in Around(nodes, p)
  BY <1>2, <1>3, AroundFacts
<1> QED
  BY <1>1, <1>4, <1>5

(* What an instruction has made may be a file that is being expanded.        *)
LEMMA MadeClear ==
    ASSUME Inv, Under({"made"}), NEW f \in Files
    PROVE  Clear(input, nodes, Here, f)
<1>1. PICK p : p = nodes[Here].parent
  OBVIOUS
<1>2. p \in 1..Len(nodes) /\ Len(nodes) \in Nat /\ nodes[p].file = "xml" /\ nodes[p].context = None
  <2>1. stack[Len(stack)].phase = "made"
    BY HereFacts
  <2> QED BY <1>1, <2>1, HereFacts, InvFacts
<1>3. Tree(nodes, kids) /\ (\E a : Ways(nodes, a))
  BY InvFacts
<1>4. ASSUME NEW a \in Around(nodes, p), nodes[a].context = f PROVE Between(nodes, Here, a)
  <2>1. a \in 1..Len(nodes) /\ a <= p
    BY <1>2, <1>3, AroundOlder
  <2>2. a # p
    BY <1>2, <1>4, NamesApart
  <2>3. a < p
    BY <1>2, <2>1, <2>2
  <2>4. p \in Around(nodes, p)
    BY <1>2, <1>3, AroundFacts
  <2> QED BY <1>1, <1>2, <2>3, <2>4 DEF Between
<1> QED
  BY <1>1, <1>4 DEF Clear

LEMMA IncludeResult ==
    ASSUME Inv, Include
    PROVE  Result
<1>1. PICK i, f, st : i = Here /\ f = nodes[i].file /\ st = stack
  OBVIOUS
<1>2. Under(Including) /\ nodes[i].name = "include" /\ input' = input
  BY <1>1 DEF Include, Included, Error
<1>3. /\ i \in 2..Len(nodes) /\ i \in 1..Len(nodes) /\ nodes[i] \in NodeType /\ nodes[i].parent \in 1..Len(nodes)
      /\ nodes[i].parent = st[Len(st)].at
      /\ st # <<>> /\ st[Len(st)].todo # <<>> /\ st[Len(st)].phase \in Including
      /\ i = Head(st[Len(st)].todo) /\ Advanced(st, Rest)
  BY <1>1, <1>2, HereFacts
<1>4. \/ \E e \in Errors : Error(i, e)
      \/ ~IsCircular(i) /\ Readable(f) /\ Included(i)
  BY <1>1 DEF Include, Errors
<1>5. CASE \E e \in Errors : Error(i, e)
  <2>1. PICK e \in Errors : Error(Here, e)
    BY <1>1, <1>5
  <2>2. nodes[Here].name # "import" /\ nodes[Here].name # "block"
    BY <1>1, <1>2
  <2> QED BY <1>2, <2>1, <2>2, ErrorResult
<1>6. CASE ~IsCircular(i) /\ Readable(f) /\ Included(i)
  <2>1. Contents(input) /\ f \in Files
    BY <1>6, InputFacts DEF Readable
  <2>2. PICK c, textual, p : c = input.content[f] /\ textual = (input.kind[f] \in Text) /\ p = nodes[i].parent
    OBVIOUS
  <2>3. c \in Seq(Item) /\ textual \in BOOLEAN
    BY <2>1, <2>2 DEF Contents
  <2>4. PICK at : at = CHOOSE k \in DOMAIN kids[p] : kids[p][k] = i
    OBVIOUS
  <2>5. PICK n, w : n = [nodes[i] EXCEPT !.name = "text"] /\ w = [nodes EXCEPT ![i] = n]
    OBVIOUS
  <2>6. n \in NodeType /\ Same(nodes[i], n) /\ n.name = "text" /\ n.context = nodes[i].context
    <3>1. "text" \in Names
      BY DEF Names
    <3> QED BY <1>2, <1>3, <2>5, <3>1, Renamed
  <2>7. Replaced(nodes, w, i, n)
    BY <1>3, <2>5, <2>6, InvFacts, ReplacedFacts
  <2>8. /\ nodes' = w \o Fresh(c, textual, f, p)
        /\ kids' = [kids EXCEPT ![p] = SubSeq(kids[p], 1, at) \o Ids(Len(nodes), Len(c))
                                       \o SubSeq(kids[p], at + 1, Len(kids[p]))] \o [k \in DOMAIN c |-> <<>>]
        /\ stack' = Rest
    BY <1>1, <1>6, <2>2, <2>4, <2>5 DEF Included
  <2>9. nodes[p].context \in Files /\ input.kind[nodes[p].context] \in Checked => nodes[p].context # f
    <3>1. "made" \notin Including
      BY DEF Including
    <3>2. f \in Files /\ input.kind[f] \in Checked => nodes[p].context # f
      BY <1>1, <1>2, <1>6, <2>2, <3>1, NotCircular
    <3> QED BY <2>1, <3>2
  <2>10. PICK us, vs, u : us = nodes' /\ vs = kids' /\ u = stack'
    OBVIOUS
  <2>11. /\ p \in 1..Len(nodes) /\ Step(input, nodes, kids, us, vs, p, at, Len(c)) /\ NoneOpened(nodes, us)
         /\ \A j \in (Len(nodes) + 1)..Len(us) : us[j].parent = p
    <3>1. Tree(nodes, kids)
      BY InvFacts
    <3>2. Brought(us, w, c, f, p) /\ BroughtKids(kids, vs, i, p, at, Len(nodes), c)
      BY <2>3, <2>4, <2>8, <2>10 DEF Brought, BroughtKids
    <3>3. /\ i \in 2..Len(nodes) /\ nodes[i].name = "include" /\ Same(nodes[i], n) /\ n.name = "text"
          /\ n.context = nodes[i].context /\ Replaced(nodes, w, i, n)
          /\ f \in Files /\ c \in Seq(Item) /\ p = nodes[i].parent
          /\ (nodes[p].context \in Files /\ input.kind[nodes[p].context] \in Checked => nodes[p].context # f)
      BY <1>2, <1>3, <2>1, <2>2, <2>3, <2>6, <2>7, <2>9
    <3>4. p \in 1..Len(nodes) /\ Step(input, nodes, kids, us, vs, p, at, Len(c)) /\ NoneOpened(nodes, us)
      BY ONLY <3>1, <3>2, <3>3, IncludedStep
    <3> QED BY <3>4 DEF Step, Grown
  <2>12. Stacked(us, u) /\ Waits(us, u)
    <3>1. Contents(input) /\ TreeInv(input, nodes, kids) /\ Stacked(nodes, st) /\ Waits(nodes, st)
      BY <1>1, <2>1, InvFacts
    <3>2. TreeInv(input, us, vs) /\ Kept(nodes, us)
      BY ONLY <2>11, <3>1, StepKept
    <3>3. Tree(us, vs) /\ \E a : Ways(us, a)
      BY <3>2 DEF TreeInv
    <3>4. Advanced(st, u) /\ st # <<>> /\ st[Len(st)].todo # <<>>
      BY <1>3, <2>8, <2>10
    <3>5. \A j \in 1..Len(nodes) : Open(us[j]) =>
              Open(nodes[j]) /\ (st[Len(st)].phase \in Importing => Head(st[Len(st)].todo) \notin Around(nodes, j))
      <4>1. st[Len(st)].phase \notin Importing
        BY <1>3 DEF Including, Importing
      <4> QED BY <2>11, <4>1 DEF NoneOpened
    <3>6. \A j \in (Len(nodes) + 1)..Len(us) :
              Open(us[j]) => st[Len(st)].phase \in Including /\ us[j].parent = st[Len(st)].at
      BY <1>3, <2>2, <2>11
    <3> QED BY ONLY <3>1, <3>2, <3>3, <3>4, <3>5, <3>6, RestWaits
  <2> QED BY <1>2, <2>10, <2>11, <2>12 DEF Result, Steps
<1> QED
  BY <1>4, <1>5, <1>6

BlockOf(n, c) == [[n EXCEPT !.name = "block"] EXCEPT !.context = c]

LEMMA BlockFacts ==
    ASSUME NEW n \in NodeType, n.name = "import", NEW c \in Origin
    PROVE  /\ BlockOf(n, c) \in NodeType /\ Same(n, BlockOf(n, c))
           /\ BlockOf(n, c).name = "block" /\ BlockOf(n, c).context = c
<1>a. PICK m : m = BlockOf(n, c)
  OBVIOUS
<1>1. PICK l : l = [n EXCEPT !.name = "block"]
  OBVIOUS
<1>2. l \in NodeType /\ Same(n, l) /\ l.name = "block"
  <2>1. "block" \in Names
    BY DEF Names
  <2> QED BY <1>1, <2>1, Renamed
<1>3. m = [l EXCEPT !.context = c]
  BY <1>1, <1>a DEF BlockOf
<1>4. m \in NodeType /\ Same(l, m) /\ m.name = l.name /\ m.context = c
  BY <1>2, <1>3, Labelled
<1> QED
  BY <1>2, <1>4, <1>a, SameTrans

(* What an instruction is to make is the import of a file. *)
Instructs(c, textual, context) ==
    textual = FALSE /\ context = None /\ Len(c) = 1 /\ c[1].k = "import" /\ c[1].f \in Files

LEMMA ExpandedResult ==
    ASSUME Inv, NEW phases, Under(phases), nodes[Here].name = "import",
           NEW context \in Origin, NEW c \in Seq(Item), NEW textual \in BOOLEAN, NEW recognize \in BOOLEAN,
           NEW of \in Origin, NEW phase \in {"include", "made"},
           Expanded(Here, context, c, textual, of, phase, recognize), input' = input,
           Clear(input, nodes, Here, context),
           context \in Files => input.content[context] = c /\ of = context,
           phase = "made" => nodes[Here].file = "xml" /\ Instructs(c, textual, context)
    PROVE  Result
<1>1. PICK i, st : i = Here /\ st = stack
  OBVIOUS
<1>2. /\ i \in 1..Len(nodes) /\ nodes[i] \in NodeType /\ nodes[i].parent = st[Len(st)].at
      /\ st # <<>> /\ st[Len(st)].todo # <<>>
      /\ i = Head(st[Len(st)].todo) /\ Advanced(st, Rest)
  BY <1>1, HereFacts
<1>3. nodes[i].name = "import"
  BY <1>1
<1>4. PICK n, w : n = BlockOf(nodes[i], context) /\ w = [nodes EXCEPT ![i] = n]
  OBVIOUS
<1>5. n \in NodeType /\ Same(nodes[i], n) /\ n.name = "block" /\ n.context = context
  BY <1>2, <1>3, <1>4, BlockFacts
<1>6. Replaced(nodes, w, i, n)
  BY <1>2, <1>4, <1>5, InvFacts, ReplacedFacts
<1>7. [nodes EXCEPT ![i].name = "block", ![i].context = context] = w
  <2>1. DOMAIN nodes = 1..Len(nodes)
    BY InvFacts
  <2>2. i \in 1..Len(nodes)
    BY <1>2
  <2> QED BY ONLY <1>4, <2>1, <2>2 DEF BlockOf
<1>8. PICK x, us, vs, u, v : x = w \o Fresh(c, textual, of, i) /\ us = nodes' /\ vs = kids' /\ u = Rest /\ v = stack'
  OBVIOUS
<1>9. /\ us = (IF textual THEN Recognized(x, "include", Ids(Len(nodes), Len(c))) ELSE x)
      /\ vs = [kids EXCEPT ![i] = Ids(Len(nodes), Len(c))] \o [k \in DOMAIN c |-> <<>>]
      /\ v = Append(u, Frame(phase, i, Ids(Len(nodes), Len(c)), recognize))
  <2>1. /\ us = (IF textual
                 THEN Recognized([nodes EXCEPT ![i].name = "block", ![i].context = context] \o Fresh(c, textual, of, i),
                                 "include", Ids(Len(nodes), Len(c)))
                 ELSE [nodes EXCEPT ![i].name = "block", ![i].context = context] \o Fresh(c, textual, of, i))
        /\ vs = [kids EXCEPT ![i] = Ids(Len(nodes), Len(c))] \o [k \in DOMAIN c |-> <<>>]
        /\ v = Append(u, Frame(phase, i, Ids(Len(nodes), Len(c)), recognize))
    BY ONLY Expanded(Here, context, c, textual, of, phase, recognize), <1>1, <1>8 DEF Expanded, Call
  <2> QED BY ONLY <1>7, <1>8, <2>1
<1>10. Content(nodes, us, w, c, of, i) /\ ContentKids(kids, vs, i, Len(nodes), c)
  <2>1. us = x \/ \E ids : us = Recognized(x, "include", ids)
    BY <1>9
  <2> QED BY <1>8, <1>9, <2>1 DEF Content, ContentKids
<1>11. Step(input, nodes, kids, us, vs, i, 0, Len(c)) /\ DoneWith(nodes, us, w, i, of)
  <2>1. Tree(nodes, kids) /\ Clear(input, nodes, i, n.context)
    BY <1>1, <1>5, InvFacts
  <2>2. n.context \in Files => input.content[n.context] = c /\ of = n.context
    BY <1>5
  <2>3. c \in Seq(Item) /\ of \in Origin
    OBVIOUS
  <2> QED BY ONLY <1>2, <1>3, <1>5, <1>6, <1>10, <2>1, <2>2, <2>3, ExpandedStep
<1>12. phase = "made" =>
           /\ Len(c) = 1 /\ us[i].name = "block" /\ us[i].file = "xml" /\ us[i].context = None
           /\ us[Len(nodes) + 1].name = "import" /\ us[Len(nodes) + 1].file \in Files
  <2> SUFFICES ASSUME phase = "made"
               PROVE  /\ us[i].name = "block" /\ us[i].file = "xml" /\ us[i].context = None
                      /\ us[Len(nodes) + 1].name = "import" /\ us[Len(nodes) + 1].file \in Files
    BY DEF Instructs
  <2>1. Len(c) = 1 /\ ~textual /\ context = None /\ c[1].k = "import" /\ c[1].f \in Files /\ nodes[i].file = "xml"
    BY <1>1 DEF Instructs
  <2>2. us[i].name = "block" /\ us[i].file = "xml" /\ us[i].context = None
    <3>1. w[i] = n
      BY <1>6 DEF Replaced
    <3> QED BY <1>5, <1>11, <2>1, <3>1 DEF DoneWith, Same
  <2>3. PICK f : f = Fresh(c, textual, of, i)
    OBVIOUS
  <2>4. i \in Nat /\ w \in Seq(NodeType) /\ Len(w) = Len(nodes)
    BY <1>2, <1>6 DEF Replaced
  <2>5. f \in Seq(NodeType) /\ Len(f) = Len(c) /\ \A k \in 1..Len(c) : f[k] = ItemNode(c[k], textual, of, i)
    BY <2>3, <2>4, FreshFacts
  <2>6. x = w \o f /\ us = x
    BY <1>8, <1>9, <2>1, <2>3
  <2>7. \A k \in 1..Len(f) : x[Len(w) + k] = f[k]
    BY ONLY <2>4, <2>5, <2>6, ConcatFacts
  <2>8. us[Len(nodes) + 1] = ItemNode(c[1], textual, of, i)
    <3>1. 1 \in 1..Len(c) /\ 1 \in 1..Len(f)
      BY <2>1, <2>5
    <3> QED BY <2>4, <2>5, <2>6, <2>7, <3>1
  <2>9. ItemNode(c[1], textual, of, i) = Node("import", of, c[1].f, None, i)
    BY <2>1 DEF ItemNode, Inner
  <2> QED BY <2>1, <2>2, <2>8, <2>9 DEF Node
<1>13. Steps(input, nodes, kids, us, vs, v)
  <2>1. /\ Contents(input) /\ TreeInv(input, nodes, kids) /\ Stacked(nodes, st) /\ Waits(nodes, st)
        /\ Len(c) \in Nat /\ Advanced(st, u) /\ nodes[i].name # "block"
        /\ phase \in {"include", "made"} /\ recognize \in BOOLEAN
    BY <1>1, <1>2, <1>3, <1>8, InvFacts, InputFacts, SeqFacts
  <2>2. v = Append(u, Frame(phase, i, Ids(Len(nodes), Len(c)), recognize))
    BY <1>9
  <2> QED BY ONLY <1>2, <1>11, <1>12, <2>1, <2>2, PushedSteps
<1> QED
  BY <1>8, <1>13 DEF Result

LEMMA ImportFileResult ==
    ASSUME Inv, ImportFile
    PROVE  Result
<1>1. PICK f : f = nodes[Here].file
  OBVIOUS
<1>2. PICK textual : textual = (input.kind[f] \in Text)
  OBVIOUS
<1>3. /\ Under(Importing) /\ nodes[Here].name = "import" /\ f \in Files /\ ~IsCircular(Here) /\ input' = input
      /\ Expanded(Here, f, input.content[f], textual, f, "include", textual)
  BY <1>1, <1>2 DEF ImportFile, IsImport, Named
<1>4. /\ input.content[f] \in Seq(Item) /\ f \in Origin /\ textual \in BOOLEAN
      /\ "made" \notin Importing /\ "include" \in {"include", "made"}
  BY <1>2, <1>3, InputFacts DEF Contents, Origin, Importing
<1>5. Clear(input, nodes, Here, f)
  BY <1>1, <1>3, <1>4, NotCircular
<1>6. "include" # "made"
  OBVIOUS
<1> QED
  BY <1>3, <1>4, <1>5, <1>6, ExpandedResult

(* A block without a context of a file is in no circle.                      *)
LEMMA NoneClear == ASSUME NEW in, NEW ns, NEW i, NEW f, f \notin Files PROVE Clear(in, ns, i, f)
BY DEF Clear

LEMMA ImportCachedResult ==
    ASSUME Inv, ImportCached
    PROVE  Result
<1>1. PICK f, c : f = nodes[Here].file /\ c = input.content[f]
  OBVIOUS
<1>2. /\ Under(Importing) /\ nodes[Here].name = "import" /\ f \in Files /\ input' = input
      /\ Expanded(Here, None, c, FALSE, f, "include", TRUE)
  BY <1>1, InputFacts DEF ImportCached, IsImport
<1>3. c \in Seq(Item) /\ f \in Origin /\ None \in Origin /\ None \notin Files
  BY <1>1, <1>2, InputFacts, NamesApart DEF Contents, Origin
<1>4. FALSE \in BOOLEAN /\ TRUE \in BOOLEAN /\ "include" \in {"include", "made"} /\ "include" # "made"
  OBVIOUS
<1>5. Clear(input, nodes, Here, None)
  BY <1>3, NoneClear
<1> QED
  BY <1>2, <1>3, <1>4, <1>5, ExpandedResult

(* What an import element holds. *)
LEMMA InnerFacts ==
    ASSUME Inv, NEW phases, Under(phases), nodes[Here].name = "import", nodes[Here].file \in Inner
    PROVE  /\ nodes[Here].inner \in Files
           /\ <<[k |-> "import", f |-> nodes[Here].inner]>> \in Seq(Item)
           /\ nodes[Here].of \in Origin /\ None \in Origin /\ None \notin Files
<1>1. nodes[Here] \in NodeType /\ Filed(nodes[Here])
  BY HereFacts
<1>2. nodes[Here].inner \in Files
  BY <1>1, NamesApart DEF Filed
<1>3. PICK x : x = [k |-> "import", f |-> nodes[Here].inner]
  OBVIOUS
<1>4. x \in Item
  BY <1>2, <1>3 DEF Item
<1>5. <<x>> \in Seq(Item)
  BY ONLY <1>4
<1>6. nodes[Here].of \in Origin /\ None \in Origin /\ None \notin Files
  BY <1>1, NodeFacts, NamesApart DEF Origin
<1> QED
  BY <1>2, <1>3, <1>5, <1>6

LEMMA ImportContentResult ==
    ASSUME Inv, ImportContent
    PROVE  Result
<1>1. PICK c, of : c = <<[k |-> "import", f |-> nodes[Here].inner]>> /\ of = nodes[Here].of
  OBVIOUS
<1>2. /\ Under(Importing) /\ nodes[Here].name = "import" /\ nodes[Here].file \in Inner /\ input' = input
      /\ Expanded(Here, None, c, TRUE, of, "include", TRUE)
  BY <1>1 DEF ImportContent, IsImport, Inner
<1>3. c \in Seq(Item) /\ of \in Origin /\ None \in Origin /\ None \notin Files
  BY <1>1, <1>2, InnerFacts
<1>4. TRUE \in BOOLEAN /\ "include" \in {"include", "made"} /\ "include" # "made"
  OBVIOUS
<1>5. Clear(input, nodes, Here, None)
  BY <1>3, NoneClear
<1> QED
  BY <1>2, <1>3, <1>4, <1>5, ExpandedResult

LEMMA ImportPlainResult ==
    ASSUME Inv, ImportPlain
    PROVE  Result
<1>1. PICK f, c : f = nodes[Here].inner /\ c = input.content[f]
  OBVIOUS
<1>2. /\ Under(Importing) /\ nodes[Here].name = "import" /\ nodes[Here].file \in Inner /\ input' = input
      /\ \/ Expanded(Here, None, c, TRUE, f, "include", TRUE)
         \/ Error(Here, "empty")
  BY <1>1 DEF ImportPlain, IsImport, Inner, Error
<1>3. c \in Seq(Item) /\ f \in Origin /\ None \in Origin /\ None \notin Files
  <2>1. f \in Files /\ None \in Origin /\ None \notin Files
    BY <1>1, <1>2, InnerFacts
  <2> QED BY <1>1, <2>1, InputFacts DEF Contents, Origin
<1>4. /\ TRUE \in BOOLEAN /\ "include" \in {"include", "made"} /\ "include" # "made"
      /\ "empty" \in Errors /\ "empty" # "none" /\ nodes[Here].name # "block"
  BY <1>2 DEF Errors
<1>5. Clear(input, nodes, Here, None)
  BY <1>3, NoneClear
<1>6. CASE Expanded(Here, None, c, TRUE, f, "include", TRUE)
  BY <1>2, <1>3, <1>4, <1>5, <1>6, ExpandedResult
<1>7. CASE Error(Here, "empty")
  BY <1>2, <1>4, <1>7, ErrorResult
<1> QED
  BY <1>2, <1>6, <1>7

LEMMA ImportMakeResult ==
    ASSUME Inv, ImportMake
    PROVE  Result
<1>1. PICK c : c = <<[k |-> "import", f |-> nodes[Here].inner]>>
  OBVIOUS
<1>2. /\ Under(Importing) /\ nodes[Here].name = "import" /\ nodes[Here].file \in Inner /\ input' = input
      /\ nodes[Here].file = "xml" /\ Expanded(Here, None, c, FALSE, None, "made", TRUE)
  BY <1>1 DEF ImportMake, IsImport, Inner
<1>3. c \in Seq(Item) /\ nodes[Here].inner \in Files /\ None \in Origin /\ None \notin Files
  BY <1>1, <1>2, InnerFacts
<1>4. FALSE \in BOOLEAN /\ TRUE \in BOOLEAN /\ "made" \in {"include", "made"}
  OBVIOUS
<1>5. Clear(input, nodes, Here, None)
  BY <1>3, NoneClear
<1>6. Instructs(c, FALSE, None)
  BY <1>1, <1>3 DEF Instructs
<1> QED
  BY <1>2, <1>3, <1>4, <1>5, <1>6, ExpandedResult

LEMMA ProcessMadeResult ==
    ASSUME Inv, ProcessMade
    PROVE  Result
<1>1. PICK f, c : f = nodes[Here].file /\ c = input.content[f]
  OBVIOUS
<1>2. Under({"made"}) /\ input' = input /\ Expanded(Here, f, c, FALSE, f, "include", TRUE)
  BY <1>1 DEF ProcessMade
<1>3. nodes[Here].name = "import" /\ f \in Files
  <2>1. stack[Len(stack)].phase = "made"
    BY <1>2, HereFacts
  <2> QED BY <1>1, <1>2, <2>1, HereFacts
<1>4. c \in Seq(Item) /\ f \in Origin
  BY <1>1, <1>3, InputFacts DEF Contents, Origin
<1>5. FALSE \in BOOLEAN /\ TRUE \in BOOLEAN /\ "include" \in {"include", "made"} /\ "include" # "made"
  OBVIOUS
<1>6. Clear(input, nodes, Here, f)
  BY <1>2, <1>3, MadeClear
<1> QED
  BY <1>1, <1>2, <1>3, <1>4, <1>5, <1>6, ExpandedResult

LEMMA ImportLeafResult ==
    ASSUME Inv, ImportLeaf
    PROVE  Result
<1>1. PICK i, f : i = Here /\ f = nodes[i].file
  OBVIOUS
<1>2. /\ Under(Importing) /\ nodes[i].name = "import" /\ f \in Files /\ input' = input
      /\ input.kind[f] \notin Text \cup Elements
      /\ nodes' = [nodes EXCEPT ![i].name = "block", ![i].context = f]
      /\ stack' = Rest /\ kids' = kids
  BY <1>1 DEF ImportLeaf, IsImport, Named
<1>3. i \in 1..Len(nodes) /\ nodes[i] \in NodeType /\ nodes \in Seq(NodeType) /\ DOMAIN nodes = 1..Len(nodes)
  BY <1>1, <1>2, HereFacts, InvFacts
<1>4. PICK n : n = BlockOf(nodes[i], f)
  OBVIOUS
<1>5. n \in NodeType /\ Same(nodes[i], n) /\ n.name = "block" /\ n.context = f
  BY <1>2, <1>3, <1>4, BlockFacts DEF Origin
<1>6. nodes' = [nodes EXCEPT ![i] = n]
  BY ONLY <1>2, <1>3, <1>4 DEF BlockOf
<1>7. Replaced(nodes, nodes', i, n)
  BY <1>3, <1>5, <1>6, ReplacedFacts
<1>8. ~Open(n) /\ Clear(input, nodes, i, f)
  BY <1>2, <1>5, CheckedTextElements DEF Open, Clear
<1> QED
  BY <1>1, <1>2, <1>5, <1>7, <1>8, ReplacedResult

LEMMA ErrorAfterResult ==
    ASSUME Inv, Under(Importing), IsImport(Here), ~IsCircular(Here), NEW f, f = nodes[Here].file, f \in Files,
           NEW e \in Errors, e # "none", ErrorAfter(Here, e, f), input' = input
    PROVE  Result
<1>1. PICK i : i = Here
  OBVIOUS
<1>2. i \in 1..Len(nodes) /\ nodes[i] \in NodeType /\ nodes \in Seq(NodeType) /\ DOMAIN nodes = 1..Len(nodes)
      /\ nodes[i].name = "import"
  BY <1>1, HereFacts, InvFacts DEF IsImport
<1>3. PICK l, n : l = [nodes[i] EXCEPT !.error = e] /\ n = [l EXCEPT !.context = f]
  OBVIOUS
<1>4. l \in NodeType /\ Same(nodes[i], l) /\ l.name = "import" /\ l.error = e
  BY <1>2, <1>3, Failed
<1>5. n \in NodeType /\ Same(l, n) /\ n.name = "import" /\ n.context = f /\ n.error = e
  <2>1. f \in Origin
    BY DEF Origin
  <2> QED BY <1>3, <1>4, <2>1, Labelled
<1>6. Same(nodes[i], n)
  BY <1>4, <1>5, SameTrans
<1>7. nodes' = [nodes EXCEPT ![i].error = e, ![i].context = f] /\ stack' = Rest /\ kids' = kids
  BY <1>1 DEF ErrorAfter
<1>8. nodes' = [nodes EXCEPT ![i] = n]
  BY ONLY <1>2, <1>3, <1>7
<1>9. Replaced(nodes, nodes', i, n)
  BY <1>2, <1>5, <1>8, ReplacedFacts
<1>10. ~Open(n) /\ n.name # "block" /\ nodes[i].name # "block"
  BY <1>2, <1>5 DEF Open
<1>11. Clear(input, nodes, i, f)
  <2>1. "made" \notin Importing
    BY DEF Importing
  <2> QED BY <1>1, <2>1, NotCircular
<1> QED
  BY <1>1, <1>5, <1>6, <1>7, <1>9, <1>10, <1>11, ReplacedResult

LEMMA ImportFailsResult ==
    ASSUME Inv, ImportFails
    PROVE  Result
<1>1. PICK f : f = nodes[Here].file
  OBVIOUS
<1>2. Under(Importing) /\ IsImport(Here) /\ f \in Files /\ input' = input /\ nodes[Here].name # "block"
  BY <1>1 DEF ImportFails, Error, ErrorAfter, Named, IsImport
<1>3. CASE \E e \in {"circular", "read"} : Error(Here, e)
  <2>1. PICK e \in {"circular", "read"} : Error(Here, e)
    BY <1>3
  <2>2. e \in Errors /\ e # "none"
    BY <2>1 DEF Errors
  <2> QED BY <1>2, <2>1, <2>2, ErrorResult
<1>4. CASE ~IsCircular(Here) /\ \E e \in {"struct", "empty"} : ErrorAfter(Here, e, f)
  <2>1. PICK e \in {"struct", "empty"} : ErrorAfter(Here, e, f)
    BY <1>4
  <2>2. e \in Errors /\ e # "none"
    BY <2>1 DEF Errors
  <2> QED BY <1>1, <1>2, <1>4, <2>1, <2>2, ErrorAfterResult
<1> QED
  BY <1>1, <1>3, <1>4 DEF ImportFails

LEMMA ImportNothingResult ==
    ASSUME Inv, ImportNothing
    PROVE  Result
<1>1. /\ Under(Importing) /\ nodes[Here].name # "block" /\ Error(Here, "unknown") /\ input' = input
      /\ "unknown" \in Errors /\ "unknown" # "none"
  BY DEF ImportNothing, IsImport, Error, Errors
<1> QED
  BY <1>1, ErrorResult

LEMMA ImportStdinResult ==
    ASSUME Inv, ImportStdin
    PROVE  Result
<1>1. PICK i, c, st : i = Here /\ c = StdinContent /\ st = stack
  OBVIOUS
<1>2. Under(Importing) /\ nodes[i].name = "import" /\ input' = input /\ stack' = Rest
  BY <1>1 DEF ImportStdin, IsImport
<1>3. /\ i \in 1..Len(nodes) /\ nodes[i] \in NodeType /\ nodes \in Seq(NodeType) /\ DOMAIN nodes = 1..Len(nodes)
      /\ st # <<>> /\ st[Len(st)].todo # <<>>
      /\ i = Head(st[Len(st)].todo) /\ Advanced(st, Rest)
  BY <1>1, <1>2, HereFacts, InvFacts
<1>4. c \in Seq(Item) /\ "stdin" \notin Files /\ "stdin" \in Origin
  BY <1>1, InputFacts, NamesApart DEF Origin, Bare
<1>5. PICK n : n = BlockOf(nodes[i], "stdin")
  OBVIOUS
<1>6. n \in NodeType /\ Same(nodes[i], n) /\ n.name = "block" /\ n.context = "stdin"
  BY <1>2, <1>3, <1>4, <1>5, BlockFacts
<1>7. CASE stdin
  <2>1. PICK w, us, vs, u : w = [nodes EXCEPT ![i] = n] /\ us = nodes' /\ vs = kids' /\ u = stack'
    OBVIOUS
  <2>2. Replaced(nodes, w, i, n)
    BY <1>3, <1>6, <2>1, ReplacedFacts
  <2>3. [nodes EXCEPT ![i].name = "block", ![i].context = "stdin"] = w
    BY ONLY <1>3, <1>5, <2>1 DEF BlockOf
  <2>4. /\ us = w \o Fresh(c, TRUE, "stdin", i)
        /\ vs = [kids EXCEPT ![i] = Ids(Len(nodes), Len(c))] \o [k \in DOMAIN c |-> <<>>]
    BY <1>1, <1>7, <2>1, <2>3 DEF ImportStdin
  <2>5. Content(nodes, us, w, c, "stdin", i) /\ ContentKids(kids, vs, i, Len(nodes), c)
    <3>1. TRUE \in BOOLEAN
      OBVIOUS
    <3> QED BY <2>4, <3>1 DEF Content, ContentKids
  <2>6. Step(input, nodes, kids, us, vs, i, 0, Len(c)) /\ DoneWith(nodes, us, w, i, "stdin")
    <3>1. Tree(nodes, kids) /\ n.context \notin Files /\ Clear(input, nodes, i, n.context)
      BY <1>4, <1>6, InvFacts, NoneClear
    <3>2. n.context \in Files => input.content[n.context] = c /\ "stdin" = n.context
      BY <3>1
    <3> QED BY ONLY <1>2, <1>3, <1>4, <1>6, <2>2, <2>5, <3>1, <3>2, ExpandedStep
  <2>7. Stacked(us, u) /\ Waits(us, u)
    <3>1. Contents(input) /\ TreeInv(input, nodes, kids) /\ Stacked(nodes, st) /\ Waits(nodes, st)
      BY <1>1, InvFacts, InputFacts
    <3>2. TreeInv(input, us, vs) /\ Kept(nodes, us)
      BY ONLY <1>3, <2>6, <3>1, StepKept
    <3>3. /\ Tree(us, vs) /\ (\E a : Ways(us, a)) /\ Tree(nodes, kids) /\ (\E a : Ways(nodes, a))
          /\ Advanced(st, u) /\ st # <<>> /\ st[Len(st)].todo # <<>>
      BY <1>2, <1>3, <2>1, <3>1, <3>2 DEF TreeInv
    <3>4. ASSUME NEW j \in 1..Len(nodes), Open(us[j]) PROVE Open(nodes[j]) /\ Head(st[Len(st)].todo) \notin Around(nodes, j)
      <4>1. \A h \in Around(nodes, j) : h = j \/ nodes[h].name = "block"
        BY <3>3, AroundBlocks
      <4>2. Open(nodes[j]) /\ j # i
        BY <2>6, <3>4 DEF DoneWith
      <4> QED BY <1>2, <1>3, <4>1, <4>2
    <3>5. \A j \in (Len(nodes) + 1)..Len(us) : ~Open(us[j])
      BY <2>6 DEF DoneWith, Open, Neglected
    <3>6. \A j \in 1..Len(nodes) : Open(us[j]) =>
              Open(nodes[j]) /\ (st[Len(st)].phase \in Importing => Head(st[Len(st)].todo) \notin Around(nodes, j))
      BY <3>4
    <3>7. \A j \in (Len(nodes) + 1)..Len(us) :
              Open(us[j]) => st[Len(st)].phase \in Including /\ us[j].parent = st[Len(st)].at
      BY <3>5
    <3> QED BY ONLY <3>1, <3>2, <3>3, <3>6, <3>7, RestWaits
  <2> QED BY <1>2, <1>3, <2>1, <2>6, <2>7 DEF Result, Steps
<1>8. CASE ~stdin
  <2>1. PICK m : m = [n EXCEPT !.error = "empty"]
    OBVIOUS
  <2>2. m \in NodeType /\ Same(n, m) /\ m.name = "block" /\ m.context = "stdin"
    <3>1. "empty" \in Errors
      BY DEF Errors
    <3> QED BY <1>6, <2>1, <3>1, Failed
  <2>3. Same(nodes[i], m)
    BY <1>6, <2>2, SameTrans
  <2>4. nodes' = [nodes EXCEPT ![i].name = "block", ![i].context = "stdin", ![i].error = "empty"] /\ kids' = kids
    BY <1>1, <1>8 DEF ImportStdin
  <2>5. nodes' = [nodes EXCEPT ![i] = m]
    BY ONLY <1>3, <1>5, <2>1, <2>4 DEF BlockOf
  <2>6. Replaced(nodes, nodes', i, m)
    BY <1>3, <2>2, <2>5, ReplacedFacts
  <2>7. ~Open(m) /\ m.context \notin Files /\ Clear(input, nodes, i, m.context)
    BY <1>4, <2>2 DEF Open, Clear
  <2> QED BY <1>1, <1>2, <2>2, <2>3, <2>4, <2>6, <2>7, ReplacedResult
<1> QED
  BY <1>7, <1>8

LEMMA DoneFacts ==
    ASSUME Inv, NEW phases, Done(phases)
    PROVE  /\ stack # <<>> /\ stack[Len(stack)].phase \in phases /\ stack[Len(stack)].todo = <<>>
           /\ Contents(input) /\ TreeInv(input, nodes, kids) /\ Stacked(nodes, stack) /\ Waits(nodes, stack)
BY InvFacts, InputFacts DEF Done, Top

LEMMA IncludesDoneResult ==
    ASSUME Inv, IncludesDone
    PROVE  Result
<1>1. PICK st, t, us, u : st = stack /\ t = st[Len(st)] /\ us = nodes' /\ u = stack'
  OBVIOUS
<1>2. /\ st # <<>> /\ t.phase = "include" /\ Contents(input) /\ TreeInv(input, nodes, kids)
      /\ Stacked(nodes, st) /\ Waits(nodes, st)
  BY <1>1, DoneFacts DEF IncludesDone
<1>3. /\ us = nodes \/ us = Recognized(nodes, "import", kids[t.at])
      /\ u = [st EXCEPT ![Len(st)] = Frame("import", t.at, kids[t.at], t.recognize)]
      /\ input' = input /\ kids' = kids
  BY <1>1 DEF IncludesDone, Top
<1>4. Steps(input, nodes, kids, us, kids, u)
  BY ONLY <1>1, <1>2, <1>3, DoneSteps
<1> QED
  BY <1>1, <1>3, <1>4 DEF Result

LEMMA MadeDoneResult ==
    ASSUME Inv, MadeDone
    PROVE  Result
<1>1. PICK st, t, u : st = stack /\ t = st[Len(st)] /\ u = stack'
  OBVIOUS
<1>2. /\ st # <<>> /\ t.phase = "made" /\ Contents(input) /\ TreeInv(input, nodes, kids)
      /\ Stacked(nodes, st) /\ Waits(nodes, st)
  BY <1>1, DoneFacts DEF MadeDone
<1>3. /\ u = [st EXCEPT ![Len(st)] = Frame("include", t.at, kids[t.at], TRUE)]
      /\ input' = input /\ nodes' = nodes /\ kids' = kids
  BY <1>1 DEF MadeDone, Top
<1>4. Steps(input, nodes, kids, nodes, kids, u)
  BY ONLY <1>1, <1>2, <1>3, MadeDoneSteps
<1> QED
  BY <1>1, <1>3, <1>4 DEF Result

LEMMA ReturnResult ==
    ASSUME Inv, Return
    PROVE  Result
<1>1. PICK st, u : st = stack /\ u = stack'
  OBVIOUS
<1>2. /\ st # <<>> /\ st[Len(st)].phase \in {"again"} \cup Importing /\ st[Len(st)].todo = <<>>
      /\ Contents(input) /\ TreeInv(input, nodes, kids) /\ Stacked(nodes, st) /\ Waits(nodes, st)
  BY <1>1, DoneFacts DEF Return
<1>3. u = SubSeq(st, 1, Len(st) - 1) /\ input' = input /\ nodes' = nodes /\ kids' = kids
  BY <1>1 DEF Return
<1>4. Steps(input, nodes, kids, nodes, kids, u)
  BY ONLY <1>2, <1>3, ReturnSteps
<1> QED
  BY <1>1, <1>3, <1>4 DEF Result

LEMMA EnterBlockResult ==
    ASSUME Inv, EnterBlock
    PROVE  Result
<1>1. PICK i, st, u, us, v : i = Here /\ st = stack /\ u = Rest /\ us = nodes' /\ v = stack'
  OBVIOUS
<1>2. PICK include : include = (Top.phase \in Including)
  OBVIOUS
<1>3. /\ Under(Including \cup Importing) /\ nodes[i].name = "block" /\ input' = input /\ kids' = kids
      /\ us = Recognized(nodes, IF include THEN "include" ELSE "import", kids[i])
      /\ v = Append(u, Frame(IF include THEN "again" ELSE "retry", i, kids[i], TRUE))
  BY <1>1, <1>2 DEF EnterBlock, Call
<1>4. /\ i \in 1..Len(nodes) /\ nodes[i].parent = st[Len(st)].at
      /\ st # <<>> /\ st[Len(st)].todo # <<>> /\ st[Len(st)].phase \in Including \cup Importing
      /\ i = Head(st[Len(st)].todo) /\ Advanced(st, u)
  BY <1>1, <1>3, HereFacts
<1>5. include = (st[Len(st)].phase \in Including) /\ include \in BOOLEAN
  BY <1>1, <1>2 DEF Top
<1>6. Contents(input) /\ TreeInv(input, nodes, kids) /\ Stacked(nodes, st) /\ Waits(nodes, st)
  BY <1>1, InvFacts, InputFacts
<1>7. Steps(input, nodes, kids, us, kids, v)
  BY ONLY <1>3, <1>4, <1>5, <1>6, EnteredSteps
<1> QED
  BY <1>1, <1>3, <1>7 DEF Result

LEMMA NextResult ==
    ASSUME Inv, Next
    PROVE  Result
<1>1. CASE Include
  BY <1>1, IncludeResult
<1>2. CASE PassInclude
  <2>1. /\ Under(Including) /\ nodes[Here].name # "block" /\ stack' = Rest
        /\ UNCHANGED <<input, stdin, nodes, kids>>
    BY <1>2 DEF PassInclude
  <2> QED BY <2>1, PassResult
<1>3. CASE IncludesDone
  BY <1>3, IncludesDoneResult
<1>4. CASE ImportFile
  BY <1>4, ImportFileResult
<1>5. CASE ImportLeaf
  BY <1>5, ImportLeafResult
<1>6. CASE ImportFails
  BY <1>6, ImportFailsResult
<1>7. CASE ImportCached
  BY <1>7, ImportCachedResult
<1>8. CASE ImportStdin
  BY <1>8, ImportStdinResult
<1>9. CASE ImportContent
  BY <1>9, ImportContentResult
<1>10. CASE ImportPlain
  BY <1>10, ImportPlainResult
<1>11. CASE ImportMake
  BY <1>11, ImportMakeResult
<1>12. CASE ProcessMade
  BY <1>12, ProcessMadeResult
<1>13. CASE MadeDone
  BY <1>13, MadeDoneResult
<1>14. CASE EnterBlock
  BY <1>14, EnterBlockResult
<1>15. CASE ImportNothing
  BY <1>15, ImportNothingResult
<1>16. CASE PassImport
  <2>1. /\ Under(Importing) /\ nodes[Here].name # "block"
        /\ ~IsImport(Here) \/ Silent(nodes[Here])
        /\ stack' = Rest /\ UNCHANGED <<input, stdin, nodes, kids>>
    BY <1>16 DEF PassImport
  <2> QED BY <2>1, PassResult
<1>17. CASE Return
  BY <1>17, ReturnResult
<1> QED
  BY <1>1, <1>2, <1>3, <1>4, <1>5, <1>6, <1>7, <1>8, <1>9, <1>10, <1>11, <1>12, <1>13, <1>14, <1>15, <1>16, <1>17
  DEF Next

LEMMA InvStep ==
    ASSUME Inv, [Next]_vars
    PROVE  Inv'
<1>1. CASE Next
  <2>1. input' = input /\ Steps(input, nodes, kids, nodes', kids', stack')
    BY <1>1, NextResult DEF Result
  <2>2. PICK us, vs, u : us = nodes' /\ vs = kids' /\ u = stack'
    OBVIOUS
  <2>3. PICK p \in 1..Len(nodes) : \E at, m : Step(input, nodes, kids, us, vs, p, at, m)
    BY <2>1, <2>2 DEF Steps
  <2>4. PICK at, m : Step(input, nodes, kids, us, vs, p, at, m)
    BY <2>3
  <2>5. TreeInv(input, us, vs)
    <3>1. Contents(input) /\ TreeInv(input, nodes, kids)
      BY InputFacts DEF Inv
    <3> QED BY <2>4, <3>1, StepTree
  <2>6. Stacked(us, u) /\ Waits(us, u)
    BY <2>1, <2>2 DEF Steps
  <2>7. Waits(us, u)'
    BY <2>1, <2>6 DEF Waits, Open, Neglected, Silent, EmptyCached, MakesDocument
  <2> QED BY <2>1, <2>2, <2>5, <2>6, <2>7 DEF Inv, Waits, Open, Neglected, Silent, EmptyCached, MakesDocument
<1>2. CASE UNCHANGED vars
  BY <1>2 DEF vars, Inv, Waits, Open, Neglected, Silent, EmptyCached, MakesDocument
<1> QED
  BY <1>1, <1>2

-----------------------------------------------------------------------------
(* The document: an import of the root that has been expanded. *)

Before == <<Node("import", None, None, None, 0)>>

LEMMA BeforeFacts ==
    ASSUME NEW in
    PROVE  TreeInv(in, Before, << <<>> >>) /\ Len(Before) = 1
<1>1. PICK n : n = Node("import", None, None, None, 0)
  OBVIOUS
<1>2. n \in NodeType /\ n.parent = 0 /\ n.context = None /\ n.name = "import"
  BY <1>1 DEF Node, NodeType, Names, Origin, Errors
<1>3. PICK ns, ks : ns = Before /\ ks = << <<>> >>
  OBVIOUS
<1>4. ns \in Seq(NodeType) /\ Len(ns) = 1 /\ ns[1] = n
  BY <1>1, <1>2, <1>3 DEF Before
<1>5. ks \in Seq(Seq(Nat)) /\ Len(ks) = 1 /\ ks[1] = <<>>
  BY <1>3
<1>6. \A i \in 1..Len(ns) : i = 1
  BY <1>4
<1>7. \A j \in 2..Len(ns) : FALSE
  BY <1>4
<1>8. \A i \in 1..Len(ns) : Len(ks[i]) = 0
  BY <1>5, <1>6
<1>9. KidsOf(ns, ks)
  <2>1. \A i \in 1..Len(ns) : \A k \in 1..Len(ks[i]) : FALSE
    BY <1>8
  <2>2. \A i \in 1..Len(ns) : ks[i] = <<>>
    BY <1>5, <1>6
  <2> QED BY <1>7, <2>1, <2>2 DEF KidsOf
<1>10. Tree(ns, ks)
  BY <1>2, <1>4, <1>5, <1>7, <1>9 DEF Tree, Older
<1>11. \E a : Ways(ns, a)
  <2>1. PICK a : a = [j \in 0..1 |-> IF j = 0 THEN {} ELSE {1}]
    OBVIOUS
  <2>2. \A j \in 0..1 : a[j] = IF j = 0 THEN {} ELSE {j} \cup a[ns[j].parent]
    <3>1. a[0] = {} /\ a[1] = {1} /\ ns[1].parent = 0
      BY <1>2, <1>4, <2>1
    <3>2. \A j \in 0..1 : j = 0 \/ j = 1
      OBVIOUS
    <3> QED BY <3>1, <3>2
  <2>3. a = [j \in 0..1 |-> IF j = 0 THEN {} ELSE {j} \cup a[ns[j].parent]]
    <3>1. DOMAIN a = 0..1 /\ a = [j \in 0..1 |-> a[j]]
      BY <2>1
    <3> QED BY <2>2, <3>1
  <2>4. 0..Len(ns) = 0..1
    BY <1>4
  <2> QED BY <2>3, <2>4 DEF Ways
<1>12. \A i \in 1..Len(ns) : ns[i].context = None /\ ns[i].name = "import"
  BY <1>2, <1>4, <1>6
<1>13. Apart(in, ns) /\ HasItems(in, ns, ks)
  BY <1>12, NamesApart, NoneClear DEF Apart, HasItems
<1> QED
  BY <1>3, <1>4, <1>10, <1>11, <1>13 DEF TreeInv

LEMMA InitStep ==
    ASSUME Init
    PROVE  /\ input \in Inputs /\ Contents(input)
           /\ \E m : Step(input, Before, << <<>> >>, nodes, kids, 1, 0, m)
           /\ Stacked(nodes, stack) /\ Waits(nodes, stack)
<1>1. PICK c, b : c = input.content[Root]
                  /\ b = [Node("block", None, None, None, 0) EXCEPT !.context = Root]
  OBVIOUS
<1>2. /\ input \in Inputs
      /\ nodes = <<b>> \o Fresh(c, FALSE, Root, 1)
      /\ kids = <<Ids(1, Len(c))>> \o [i \in DOMAIN c |-> <<>>]
      /\ stack = <<Frame("include", 1, Ids(1, Len(c)), TRUE)>>
  BY <1>1 DEF Init
<1>3. Contents(input) /\ Root \in Files /\ Root \in Origin /\ None \notin Files
  BY <1>2, InputAssumption, NamesApart DEF Contents, Origin
<1>4. c \in Seq(Item) /\ Len(c) \in Nat
  <2>1. c \in Seq(Item)
    BY <1>1, <1>3 DEF Contents
  <2> QED BY <2>1, SeqFacts
<1>5. PICK n, ns, ks : n = Node("import", None, None, None, 0) /\ ns = Before /\ ks = << <<>> >>
  OBVIOUS
<1>6. Tree(ns, ks) /\ (\E a : Ways(ns, a)) /\ Len(ns) = 1
  BY <1>5, BeforeFacts DEF TreeInv
<1>7. ns[1] = n /\ n.name = "import" /\ n.parent = 0
  BY <1>5 DEF Before, Node
<1>8. b \in NodeType /\ b.name = "block" /\ b.context = Root /\ b.error = "none"
  BY <1>1, <1>3 DEF Node, NodeType, Names, Origin, Errors
<1>9. Same(n, b)
  BY <1>1, <1>3, <1>5 DEF Same, Node, KindOf, FileOf, Inner, Bare
<1>10. PICK w : w = <<b>>
  OBVIOUS
<1>11. w \in Seq(NodeType) /\ Len(w) = 1 /\ w[1] = b
  BY <1>8, <1>10
<1>12. 1 \in 1..Len(ns) /\ \A j \in 1..Len(ns) : j = 1
  BY <1>6
<1>13. Replaced(ns, w, 1, b)
  BY <1>6, <1>11, <1>12 DEF Replaced
<1>14. PICK us, vs : us = nodes /\ vs = kids
  OBVIOUS
<1>15. Content(ns, us, w, c, Root, 1)
  BY <1>2, <1>10, <1>14 DEF Content
<1>16. ContentKids(ks, vs, 1, Len(ns), c)
  <2>1. PICK q : q = Ids(1, Len(c))
    OBVIOUS
  <2>2. [ks EXCEPT ![1] = q] = <<q>>
    BY <1>5
  <2> QED BY <1>2, <1>6, <1>14, <2>1, <2>2 DEF ContentKids
<1>17. Step(input, ns, ks, us, vs, 1, 0, Len(c)) /\ DoneWith(ns, us, w, 1, Root)
  <2>1. Around(ns, ns[1].parent) = {}
    BY <1>6, <1>7, AroundFacts
  <2>2. Clear(input, ns, 1, b.context)
    BY <2>1 DEF Clear
  <2>3. b.context \in Files => input.content[b.context] = c /\ Root = b.context
    BY <1>1, <1>8
  <2>4. Same(ns[1], b) /\ ns[1].name = "import" /\ 1 \in 1..Len(ns)
    BY <1>7, <1>9, <1>12
  <2> QED BY ONLY <1>3, <1>4, <1>6, <1>8, <1>13, <1>15, <1>16, <2>2, <2>3, <2>4, ExpandedStep
<1>18. Grown(ns, us, 1, Len(c)) /\ Len(us) = 1 + Len(c) /\ 1 \in 1..Len(us)
  <2>1. Grown(ns, us, 1, Len(c))
    BY <1>17 DEF Step
  <2>2. Len(us) = 1 + Len(c)
    BY <1>6, <2>1 DEF Grown
  <2> QED BY <1>4, <2>1, <2>2
<1>19. PICK todo : todo = Ids(1, Len(c))
  OBVIOUS
<1>20. todo \in Seq(Nat) /\ Len(todo) = Len(c) /\ \A k \in 1..Len(c) : todo[k] = 1 + k
  <2>1. Ids(1, Len(c)) \in Seq(Nat) /\ Len(Ids(1, Len(c))) = Len(c) /\ \A k \in 1..Len(c) : Ids(1, Len(c))[k] = 1 + k
    BY <1>4, IdsFacts
  <2> QED BY <1>19, <2>1
<1>21. PICK t : t = Frame("include", 1, todo, TRUE)
  OBVIOUS
<1>22. t \in FrameType /\ t.phase = "include" /\ t.at = 1 /\ t.todo = todo
  <2>1. "include" \in Phases /\ TRUE \in BOOLEAN /\ 1 \in Nat
    BY DEF Phases
  <2> QED BY ONLY <1>20, <1>21, <2>1 DEF Frame, FrameType
<1>23. \A j \in 2..Len(us) : us[j].parent = 1
  <2>1. \A j \in (Len(ns) + 1)..Len(us) : us[j].parent = 1
    BY <1>18 DEF Grown
  <2> QED BY <1>6, <2>1
<1>24. \A l \in 1..Len(todo) : todo[l] \in 2..Len(us) /\ us[todo[l]].parent = 1
  <2>1. \A l \in 1..Len(c) : 1 + l \in 2..Len(us)
    BY <1>4, <1>18
  <2> QED BY <1>20, <1>23, <2>1
<1>25. Fits(us, t)
  BY <1>18, <1>22, <1>24 DEF Fits
<1>26. PICK u : u = <<>>
  OBVIOUS
<1>27. Stacked(us, u)
  BY <1>26 DEF Stacked, Frames, Chain, Mades
<1>28. stack = Append(u, t)
  BY <1>2, <1>19, <1>21, <1>26
<1>29. Tree(us, vs) /\ \E a : Ways(us, a)
  <2>1. TreeInv(input, ns, ks)
    BY <1>5, BeforeFacts
  <2>2. TreeInv(input, us, vs)
    BY <1>3, <1>12, <1>17, <2>1, StepTree
  <2> QED BY <2>2 DEF TreeInv
<1>30. ASSUME NEW j \in 1..Len(us), Open(us[j]) PROVE AheadIn(us, t, j)
  <2>1. j # 1
    <3>1. ~Open(us[1])
      BY <1>12, <1>17 DEF DoneWith
    <3> QED BY <1>30, <3>1
  <2>2. j \in 2..Len(us)
    BY <1>4, <1>18, <2>1
  <2>3. us[j].parent = 1 /\ 1 \in Around(us, 1)
    BY <1>18, <1>23, <1>29, <2>2, AroundFacts
  <2> QED BY <1>22, <2>3 DEF AheadIn
<1>31. Stacked(us, stack) /\ Waits(us, stack)
  <2>1. Made(us, t) /\ t.phase # "again"
    BY <1>22 DEF Made
  <2> QED BY <1>25, <1>26, <1>27, <1>28, <1>29, <1>30, <2>1, PushStack
<1> QED
  BY <1>2, <1>3, <1>5, <1>14, <1>17, <1>31

-----------------------------------------------------------------------------
(* Theorems *)

LEMMA InitInv ==
    ASSUME Init
    PROVE  Inv
<1>1. PICK us, vs : us = nodes /\ vs = kids
  OBVIOUS
<1>2. PICK m : Step(input, Before, << <<>> >>, us, vs, 1, 0, m)
  BY <1>1, InitStep
<1>3. Contents(input) /\ TreeInv(input, Before, << <<>> >>) /\ 1 \in 1..Len(Before)
  BY InitStep, BeforeFacts
<1>4. TreeInv(input, us, vs)
  BY <1>2, <1>3, StepTree
<1> QED
  BY <1>1, <1>4, InitStep DEF Inv

(* The invariant: the nodes are a tree, no element of a kind that is looked  *)
(* at is in one of its own context unless an instruction is between them,    *)
(* blocks have the items of their file, the traversals are below each other, *)
(* and every import that is open is ahead of one of them.                    *)
THEOREM Invariance == Spec => []Inv
<1>1. Init => Inv
  BY InitInv
<1>2. Inv /\ [Next]_vars => Inv'
  BY InvStep
<1> QED
  BY <1>1, <1>2, PTL DEF Spec

LEMMA Distinct ==
    ASSUME NEW s \in Seq(Nat), \A k, l \in 1..Len(s) : s[k] = s[l] => k = l
    PROVE  Cardinality({s[k] : k \in DOMAIN s}) = Len(s)
<1>1. PICK n, T : n = Len(s) /\ T = {s[k] : k \in 1..n}
  OBVIOUS
<1>2. n \in Nat /\ DOMAIN s = 1..n /\ \A k \in 1..n : s[k] \in Nat
  BY <1>1, SeqFacts
<1>3. PICK f : f = [k \in 1..n |-> s[k]]
  OBVIOUS
<1>4. f \in [1..n -> T]
  BY <1>1, <1>3
<1>5. \A k, l \in 1..n : f[k] = f[l] => k = l
  BY <1>1, <1>3
<1>6. \A t \in T : \E k \in 1..n : f[k] = t
  BY <1>1, <1>3
<1>7. f \in Bijection(1..n, T)
  BY <1>4, <1>5, <1>6 DEF Bijection, Injection, Surjection, IsInjective
<1>8. ExistsBijection(1..n, T)
  BY <1>7 DEF ExistsBijection
<1>9. Cardinality(T) = n
  BY <1>2, <1>8, FS_CountingElements
<1> QED
  BY <1>1, <1>2, <1>9

LEMMA InvNotInItself ==
    ASSUME Inv
    PROVE  NotInItself
<1>1. Tree(nodes, kids) /\ Apart(input, nodes)
  BY InvFacts
<1>2. DOMAIN nodes = 1..Len(nodes)
  BY <1>1, TreeFacts
<1>3. ASSUME NEW i \in 1..Len(nodes)
      PROVE  /\ \A k \in DOMAIN kids[i] : nodes[kids[i][k]].parent = i
             /\ Cardinality({kids[i][k] : k \in DOMAIN kids[i]}) = Len(kids[i])
  <2>1. PICK s : s = kids[i]
    OBVIOUS
  <2>2. s \in Seq(Nat) /\ DOMAIN s = 1..Len(s)
    BY <1>1, <2>1, TreeFacts
  <2>3. /\ \A k \in 1..Len(s) : nodes[s[k]].parent = i
        /\ \A k, l \in 1..Len(s) : s[k] = s[l] => k = l
    BY <1>1, <2>1 DEF Tree, KidsOf
  <2>4. Cardinality({s[k] : k \in DOMAIN s}) = Len(s)
    BY <2>2, <2>3, Distinct
  <2> QED BY <2>1, <2>2, <2>3, <2>4
<1>4. ASSUME NEW i \in 1..Len(nodes), nodes[i].context \in Files, input.kind[nodes[i].context] \in Checked,
             NEW a \in Around(nodes, nodes[i].parent), nodes[a].context = nodes[i].context
      PROVE  \E d \in Around(nodes, nodes[i].parent) : nodes[d].file = "xml" /\ a < d
  <2>1. Clear(input, nodes, i, nodes[i].context)
    BY <1>1 DEF Apart
  <2>2. Between(nodes, i, a)
    BY <1>4, <2>1 DEF Clear
  <2> QED BY <2>2 DEF Between
<1> QED
  BY <1>2, <1>3, <1>4 DEF NotInItself

(* Whatever the files import, the children of a node are its own, each once, *)
(* and no file of a kind that is looked at is expanded inside its own        *)
(* expansion but in a document that an instruction inside it has made:       *)
(* IsImportCircular() does what it is there for in those kinds, and the      *)
(* other ones and the instructions are the only ways into a circle.          *)
THEOREM NeverInItself == Spec => []NotInItself
<1>1. Inv => NotInItself
  BY InvNotInItself
<1> QED
  BY <1>1, Invariance, PTL

LEMMA InvProcessed ==
    ASSUME Inv
    PROVE  AllProcessed
<1> SUFFICES ASSUME stack = <<>>, NEW i \in DOMAIN nodes
             PROVE  /\ nodes[i].name = "import" /\ ~Neglected(nodes[i]) => nodes[i].error # "none"
                    /\ (nodes[i].name = "block" /\ nodes[i].context \in Files
                          /\ input.kind[nodes[i].context] \in Text \cup Elements) => ItemsOf(nodes[i].context, i)
  BY DEF AllProcessed
<1>1. i \in 1..Len(nodes) /\ Waits(nodes, stack) /\ HasItems(input, nodes, kids)
  BY InvFacts DEF TreeInv
<1>2. ~Ahead(nodes, stack, i)
  BY DEF Ahead
<1>3. nodes[i].name = "import" /\ ~Neglected(nodes[i]) => nodes[i].error # "none"
  BY <1>1, <1>2 DEF Waits, Open
<1>4. ASSUME nodes[i].name = "block", nodes[i].context \in Files, input.kind[nodes[i].context] \in Text \cup Elements
      PROVE  ItemsOf(nodes[i].context, i)
  <2>1. PICK f : f = nodes[i].context
    OBVIOUS
  <2>2. ItemsIn(input, nodes, kids, f, i)
    BY <1>1, <1>4, <2>1 DEF HasItems
  <2>3. ItemsOf(f, i)
    BY <2>2, ItemsOfIn
  <2> QED BY <2>1, <2>3
<1> QED
  BY <1>3, <1>4

(* Once the processing has returned every import that was recognised is a    *)
(* block or says why it is not, and what was expanded has the items of its   *)
(* file in their order, whatever the files import and however deep.          *)
THEOREM Processed == Spec => []AllProcessed
<1>1. Inv => AllProcessed
  BY InvProcessed
<1> QED
  BY <1>1, Invariance, PTL

=============================================================================
