----------------------------- MODULE PieBlocks_proofs -----------------------------
(* What pieElementParse, pieElementToDOM and GetParentElement make of any text.       *)
(* The places where new elements go are on one chain of last children, so lines are   *)
(* appended in document order; the lines read are in the tree, in the element that is *)
(* being filled or among those skipped; and each element keeps the depth of its mark. *)
EXTENDS PieBlocks, TLAPS, SequenceTheorems, FiniteSetTheorems, WellFoundedInduction

-----------------------------------------------------------------------------
(* Numbers and sequences *)

LEMMA SeqFacts ==
    ASSUME NEW S, NEW p \in Seq(S)
    PROVE  /\ Len(p) \in Nat /\ DOMAIN p = 1..Len(p) /\ (p # <<>> <=> Len(p) > 0)
           /\ \A i \in 1..Len(p) : p[i] \in S
BY EmptySeq, LenProperties, ElementOfSeq

LEMMA LeastNat ==
    ASSUME NEW S \in SUBSET Nat, S # {}
    PROVE  \E i \in S : \A j \in S : i <= j
<1>1. PICK i \in S : \A j \in S : ~(<<j, i>> \in OpToRel(<, Nat))
  BY NatLessThanWellFounded, WFMin
<1>2. \A j \in S : ~(j < i)
  BY <1>1 DEF OpToRel
<1> QED
  BY <1>2

LEMMA LeastFacts ==
    ASSUME NEW S \in SUBSET Nat, S # {}
    PROVE  Least(S) \in S /\ \A j \in S : Least(S) <= j
<1>1. \E i \in S : \A j \in S : i <= j
  BY LeastNat
<1> QED
  BY <1>1 DEF Least

LEMMA MostFacts ==
    ASSUME NEW n \in Nat, NEW S \in SUBSET (0..n), S # {}
    PROVE  Most(S) \in S /\ \A j \in S : Most(S) >= j
<1> DEFINE D == {n - i : i \in S}
<1>1. D \in SUBSET Nat /\ D # {}
  <2>1. \A i \in S : i \in 0..n /\ n - i \in Nat
    OBVIOUS
  <2> QED BY <2>1
<1>2. PICK d \in D : \A j \in D : d <= j
  <2> HIDE DEF D
  <2> QED BY <1>1, LeastNat
<1>3. PICK i \in S : d = n - i
  BY <1>2
<1>4. ASSUME NEW j \in S PROVE i >= j
  <2>1. n - i <= n - j
    BY <1>2, <1>3
  <2>2. i \in Int /\ j \in Int
    OBVIOUS
  <2> QED BY <2>1, <2>2
<1>5. \E k \in S : \A j \in S : k >= j
  BY <1>4
<1> QED
  BY <1>5 DEF Most

-----------------------------------------------------------------------------
(* Trees *)

Names == {"block", "section", "h", "hr", "p", "pre", "import", "list"}
NodeType == [name : Names, lines : Seq(Nat), kids : Seq(Nat), enum : BOOLEAN, hidden : Nat]

(* Every node but the root is in one place, below one that came before it. *)
KidsAbove(t) == \A i \in 1..Len(t) : \A k \in 1..Len(t[i].kids) : t[i].kids[k] \in (i + 1)..Len(t)
OnePlace(t) ==
    \A i, j \in 1..Len(t) : \A k \in 1..Len(t[i].kids), l \in 1..Len(t[j].kids) :
        t[i].kids[k] = t[j].kids[l] => i = j /\ k = l
SomePlace(t) == \A j \in 2..Len(t) : \E i \in 1..Len(t) : \E k \in 1..Len(t[i].kids) : t[i].kids[k] = j
Shape(t) == t \in Seq(NodeType) /\ t # <<>> /\ t[1].name = "block" /\ KidsAbove(t) /\ OnePlace(t) /\ SomePlace(t)

LEMMA NodeFacts ==
    ASSUME NEW t \in Seq(NodeType)
    PROVE  /\ Len(t) \in Nat /\ DOMAIN t = 1..Len(t) /\ (t # <<>> <=> Len(t) > 0)
           /\ \A i \in 1..Len(t) : /\ t[i] \in NodeType /\ t[i].name \in Names
                                   /\ t[i].lines \in Seq(Nat) /\ t[i].kids \in Seq(Nat)
                                   /\ Len(t[i].kids) \in Nat
<1>1. Len(t) \in Nat /\ DOMAIN t = 1..Len(t) /\ (t # <<>> <=> Len(t) > 0) /\ \A i \in 1..Len(t) : t[i] \in NodeType
  BY SeqFacts
<1>2. \A n \in NodeType : n.name \in Names /\ n.lines \in Seq(Nat) /\ n.kids \in Seq(Nat)
  BY DEF NodeType
<1>3. \A s \in Seq(Nat) : Len(s) \in Nat
  BY SeqFacts
<1> QED
  BY <1>1, <1>2, <1>3

(* A node n is put behind the children of p. *)
Put(t, p, n, u) ==
    /\ u \in Seq(NodeType) /\ Len(u) = Len(t) + 1 /\ u # <<>>
    /\ u[Len(t) + 1] = n
    /\ \A i \in 1..Len(t) : u[i].name = t[i].name /\ u[i].lines = t[i].lines
    /\ \A i \in 1..Len(t) : i # p => u[i].kids = t[i].kids
    /\ Len(u[p].kids) = Len(t[p].kids) + 1 /\ u[p].kids[Len(t[p].kids) + 1] = Len(t) + 1
    /\ \A k \in 1..Len(t[p].kids) : u[p].kids[k] = t[p].kids[k]

LEMMA AddedPut ==
    ASSUME NEW t \in Seq(NodeType), NEW p \in 1..Len(t), NEW n \in NodeType
    PROVE  Put(t, p, n, Added(t, p, n))
<1> DEFINE K == Append(t[p].kids, Len(t) + 1)
           v == [t EXCEPT ![p].kids = Append(@, Len(t) + 1)]
<1>1. /\ Len(t) \in Nat /\ DOMAIN t = 1..Len(t)
      /\ \A i \in 1..Len(t) : t[i] \in NodeType
      /\ t[p].kids \in Seq(Nat)
  BY NodeFacts
<1>2. /\ K \in Seq(Nat) /\ Len(K) = Len(t[p].kids) + 1 /\ K[Len(t[p].kids) + 1] = Len(t) + 1
      /\ \A k \in 1..Len(t[p].kids) : K[k] = t[p].kids[k]
  BY <1>1, AppendProperties
<1>3. v = [t EXCEPT ![p] = [t[p] EXCEPT !.kids = K]]
  OBVIOUS
<1>4. [t[p] EXCEPT !.kids = K] \in NodeType
  BY <1>1, <1>2 DEF NodeType
<1>5. /\ [t[p] EXCEPT !.kids = K].kids = K /\ [t[p] EXCEPT !.kids = K].name = t[p].name
      /\ [t[p] EXCEPT !.kids = K].lines = t[p].lines
  BY <1>1 DEF NodeType
<1> DEFINE m == [t[p] EXCEPT !.kids = K]
<1> HIDE DEF K, m
<1>6. /\ v \in Seq(NodeType) /\ Len(v) = Len(t) /\ v[p] = [t[p] EXCEPT !.kids = K]
      /\ \A i \in 1..Len(t) : i # p => v[i] = t[i]
  <2>1. v = [t EXCEPT ![p] = m] /\ m \in NodeType
    BY <1>3, <1>4 DEF m
  <2> HIDE DEF v
  <2>2. /\ v \in Seq(NodeType) /\ Len(v) = Len(t)
        /\ \A j \in 1..Len(t) : v[j] = IF j = p THEN m ELSE t[j]
    BY <2>1, ExceptSeq
  <2> QED BY <2>2 DEF m
<1> HIDE DEF v
<1>7. Added(t, p, n) = Append(v, n)
  BY DEF Added, v
<1>8. /\ Append(v, n) \in Seq(NodeType) /\ Append(v, n) # <<>> /\ Len(Append(v, n)) = Len(v) + 1
      /\ (\A i \in 1..Len(v) : Append(v, n)[i] = v[i]) /\ Append(v, n)[Len(v) + 1] = n
  BY <1>6, AppendProperties
<1> DEFINE u == Append(v, n)
<1> HIDE DEF u
<1>9. /\ u \in Seq(NodeType) /\ u # <<>> /\ Len(u) = Len(t) + 1 /\ u[Len(t) + 1] = n
      /\ \A i \in 1..Len(t) : u[i] = v[i]
  BY <1>6, <1>8 DEF u
<1>10. u[p].kids = K /\ u[p].name = t[p].name /\ u[p].lines = t[p].lines
  BY <1>5, <1>6, <1>9
<1> QED
  BY <1>2, <1>6, <1>7, <1>9, <1>10 DEF Put, u

LEMMA PutShape ==
    ASSUME NEW t, Shape(t), NEW p \in 1..Len(t), NEW n \in NodeType, n.kids = <<>>, NEW u, Put(t, p, n, u)
    PROVE  Shape(u)
<1>1. /\ Len(t) \in Nat /\ Len(t) > 0 /\ Len(u) = Len(t) + 1 /\ p \in Nat
      /\ \A i \in 1..Len(t) : Len(t[i].kids) \in Nat
  BY NodeFacts DEF Shape, Put
<1>2. Len(u[Len(u)].kids) = 0
  BY <1>1, SeqFacts DEF Put
<1>3. ASSUME NEW i \in 1..Len(u), NEW k \in 1..Len(u[i].kids)
      PROVE  /\ i \in 1..Len(t)
             /\ \/ k \in 1..Len(t[i].kids) /\ u[i].kids[k] = t[i].kids[k]
                \/ i = p /\ k = Len(t[p].kids) + 1 /\ u[i].kids[k] = Len(u)
  <2>1. i # Len(u)
    BY <1>2, <1>3
  <2>2. i \in 1..Len(t)
    BY <1>1, <2>1
  <2>3. CASE i # p
    BY <1>3, <2>2, <2>3 DEF Put
  <2>4. CASE i = p
    <3>1. k \in 1..Len(t[p].kids) + 1
      BY <1>3, <2>4 DEF Put
    <3>2. CASE k = Len(t[p].kids) + 1
      BY <1>1, <2>2, <2>4, <3>2 DEF Put
    <3>3. CASE k # Len(t[p].kids) + 1
      <4>1. k \in 1..Len(t[p].kids)
        <5>1. Len(t[p].kids) \in Nat
          BY <1>1
        <5> QED BY ONLY <3>1, <3>3, <5>1
      <4> QED BY <2>2, <2>4, <4>1 DEF Put
    <3> QED BY <3>2, <3>3
  <2> QED BY <2>3, <2>4
<1>4. KidsAbove(u)
  <2> SUFFICES ASSUME NEW i \in 1..Len(u), NEW k \in 1..Len(u[i].kids) PROVE u[i].kids[k] \in (i + 1)..Len(u)
    BY DEF KidsAbove
  <2>1. CASE k \in 1..Len(t[i].kids) /\ u[i].kids[k] = t[i].kids[k]
    <3>1. i \in 1..Len(t)
      BY <1>3
    <3>2. t[i].kids[k] \in (i + 1)..Len(t)
      BY <2>1, <3>1 DEF Shape, KidsAbove
    <3> QED BY <1>1, <2>1, <3>2
  <2>2. CASE i = p /\ u[i].kids[k] = Len(u)
    BY <1>1, <2>2
  <2> QED BY <1>3, <2>1, <2>2
<1>5. \A i \in 1..Len(t) : \A k \in 1..Len(t[i].kids) : t[i].kids[k] \in Nat /\ t[i].kids[k] < Len(u)
  <2> SUFFICES ASSUME NEW i \in 1..Len(t), NEW k \in 1..Len(t[i].kids)
               PROVE  t[i].kids[k] \in Nat /\ t[i].kids[k] < Len(u)
    OBVIOUS
  <2>1. t[i].kids[k] \in (i + 1)..Len(t)
    BY DEF Shape, KidsAbove
  <2> QED BY <1>1, <2>1
<1>6. OnePlace(u)
  <2> SUFFICES ASSUME NEW i \in 1..Len(u), NEW j \in 1..Len(u), NEW k \in 1..Len(u[i].kids),
                      NEW l \in 1..Len(u[j].kids), u[i].kids[k] = u[j].kids[l]
               PROVE  i = j /\ k = l
    BY DEF OnePlace
  <2>0. i \in 1..Len(t) /\ j \in 1..Len(t)
    BY <1>3
  <2>1. CASE k \in 1..Len(t[i].kids) /\ u[i].kids[k] = t[i].kids[k]
    <3>1. u[i].kids[k] < Len(u)
      BY <1>5, <2>0, <2>1
    <3>2. u[j].kids[l] # Len(u)
      BY <1>1, <1>5, <2>0, <2>1, <3>1
    <3>3. l \in 1..Len(t[j].kids) /\ u[j].kids[l] = t[j].kids[l]
      BY <1>3, <3>2
    <3>4. t[i].kids[k] = t[j].kids[l]
      BY <2>1, <3>3
    <3>5. OnePlace(t)
      BY DEF Shape
    <3> QED BY <2>0, <2>1, <3>3, <3>4, <3>5 DEF OnePlace
  <2>2. CASE i = p /\ k = Len(t[p].kids) + 1 /\ u[i].kids[k] = Len(u)
    <3>1. ~(l \in 1..Len(t[j].kids) /\ u[j].kids[l] = t[j].kids[l])
      BY <1>1, <1>5, <2>0, <2>2
    <3> QED BY <1>3, <2>2, <3>1
  <2> QED BY <1>3, <2>1, <2>2
<1>7. SomePlace(u)
  <2> SUFFICES ASSUME NEW j \in 2..Len(u)
               PROVE  \E i \in 1..Len(u) : \E k \in 1..Len(u[i].kids) : u[i].kids[k] = j
    BY DEF SomePlace
  <2>1. CASE j = Len(u)
    <3>1. p \in 1..Len(u) /\ Len(t[p].kids) + 1 \in 1..Len(u[p].kids)
      BY <1>1 DEF Put
    <3>2. u[p].kids[Len(t[p].kids) + 1] = j
      BY <1>1, <2>1 DEF Put
    <3> QED BY <3>1, <3>2
  <2>2. CASE j # Len(u)
    <3>1. j \in 2..Len(t)
      BY <1>1, <2>2
    <3>2. PICK i \in 1..Len(t) : \E k \in 1..Len(t[i].kids) : t[i].kids[k] = j
      BY <3>1 DEF Shape, SomePlace
    <3>3. PICK k \in 1..Len(t[i].kids) : t[i].kids[k] = j
      BY <3>2
    <3>4. i \in 1..Len(u)
      BY <1>1
    <3>5. k \in 1..Len(u[i].kids) /\ u[i].kids[k] = j
      <4>1. CASE i = p
        <5>1. Len(u[p].kids) = Len(t[p].kids) + 1 /\ Len(t[p].kids) \in Nat
          BY <1>1 DEF Put
        <5>2. k \in 1..Len(u[p].kids)
          BY <4>1, <5>1
        <5> QED BY <3>3, <4>1, <5>2 DEF Put
      <4>2. CASE i # p
        BY <3>3, <4>2 DEF Put
      <4> QED BY <4>1, <4>2
    <3> QED BY <3>4, <3>5
  <2> QED BY <2>1, <2>2
<1>8. u \in Seq(NodeType) /\ u # <<>> /\ u[1].name = "block"
  <2>1. 1 \in 1..Len(t)
    BY <1>1
  <2> QED BY <2>1 DEF Put, Shape
<1> QED
  BY <1>4, <1>6, <1>7, <1>8 DEF Shape

-----------------------------------------------------------------------------
(* Ancestors *)

Ancs(t, a) == a = [j \in DOMAIN t |-> UNION {{p} \cup a[p] : p \in Parents(t, j)}]

LEMMA ParentsAre ==
    ASSUME NEW t, Shape(t)
    PROVE  /\ Parents(t, 1) = {}
           /\ \A i \in 1..Len(t) : \A k \in 1..Len(t[i].kids) : \A j : t[i].kids[k] = j => Parents(t, j) = {i}
           /\ \A j \in 1..Len(t) : Parents(t, j) \subseteq 1..(j - 1)
           /\ \A j \in 2..Len(t) : \E i \in 1..(j - 1) : Parents(t, j) = {i}
<1>1. /\ Len(t) \in Nat /\ DOMAIN t = 1..Len(t)
      /\ \A i \in 1..Len(t) : t[i].kids \in Seq(Nat) /\ DOMAIN t[i].kids = 1..Len(t[i].kids)
  BY NodeFacts, SeqFacts DEF Shape
<1>2. KidsAbove(t) /\ OnePlace(t) /\ SomePlace(t)
  BY DEF Shape
<1>3. \A j : Parents(t, j) = {p \in 1..Len(t) : \E k \in 1..Len(t[p].kids) : t[p].kids[k] = j}
  BY <1>1 DEF Parents
<1>4. \A i \in 1..Len(t) : \A k \in 1..Len(t[i].kids) : \A j : t[i].kids[k] = j => Parents(t, j) = {i}
  BY <1>2, <1>3 DEF OnePlace
<1>5. \A j \in 1..Len(t) : Parents(t, j) \subseteq 1..(j - 1)
  <2> SUFFICES ASSUME NEW j \in 1..Len(t), NEW p \in Parents(t, j) PROVE p \in 1..(j - 1)
    OBVIOUS
  <2>1. PICK k \in 1..Len(t[p].kids) : p \in 1..Len(t) /\ t[p].kids[k] = j
    BY <1>3
  <2>2. j \in (p + 1)..Len(t)
    BY <1>2, <2>1 DEF KidsAbove
  <2> QED BY <1>1, <2>1, <2>2
<1>6. Parents(t, 1) = {}
  <2>1. Len(t) > 0
    BY NodeFacts DEF Shape
  <2>2. 1 \in 1..Len(t)
    BY <1>1, <2>1
  <2>3. 1..(1 - 1) = {}
    OBVIOUS
  <2> QED BY <1>5, <2>2, <2>3
<1>7. ASSUME NEW j \in 2..Len(t) PROVE \E i \in 1..(j - 1) : Parents(t, j) = {i}
  <2>1. PICK i \in 1..Len(t) : \E k \in 1..Len(t[i].kids) : t[i].kids[k] = j
    BY <1>2 DEF SomePlace
  <2>2. PICK k \in 1..Len(t[i].kids) : t[i].kids[k] = j
    BY <2>1
  <2>3. Parents(t, j) = {i}
    BY <1>4, <2>2
  <2>4. j \in 1..Len(t)
    BY <1>1
  <2> QED BY <1>5, <2>3, <2>4
<1> QED
  BY <1>4, <1>5, <1>6, <1>7

LEMMA AncsAre ==
    ASSUME NEW t, Shape(t), NEW a, Ancs(t, a)
    PROVE  \A i \in 1..Len(t) : Ancestors(t, i) = a[i]
<1>1. DOMAIN t = 1..Len(t) /\ Len(t) \in Nat
  BY NodeFacts DEF Shape
<1> DEFINE c == CHOOSE b : Ancs(t, b)
<1>2. Ancs(t, c)
  OBVIOUS
<1>3. \A i : Ancestors(t, i) = c[i]
  BY DEF Ancestors, Ancs
<1> HIDE DEF c
<1> DEFINE S == {j \in 1..Len(t) : c[j] # a[j]}
<1> SUFFICES ASSUME S # {} PROVE FALSE
  BY <1>3
<1>4. S \in SUBSET Nat
  OBVIOUS
<1>5. PICK j \in S : \A i \in S : j <= i
  <2> HIDE DEF S
  <2> QED BY <1>4, LeastNat
<1>6. \A p \in Parents(t, j) : c[p] = a[p]
  <2> SUFFICES ASSUME NEW p \in Parents(t, j), c[p] # a[p] PROVE FALSE
    OBVIOUS
  <2>1. p \in 1..(j - 1)
    BY ParentsAre
  <2>2. p \in S /\ p < j /\ j \in Nat
    BY <1>1, <2>1
  <2> HIDE DEF S
  <2> QED BY <1>5, <2>1, <2>2
<1>7. j \in DOMAIN t
  BY <1>1
<1>8. c[j] = UNION {{p} \cup c[p] : p \in Parents(t, j)} /\ a[j] = UNION {{p} \cup a[p] : p \in Parents(t, j)}
  BY <1>2, <1>7 DEF Ancs
<1>9. c[j] = a[j]
  BY <1>6, <1>8
<1> QED
  BY <1>5, <1>9

LEMMA AncestorsAre ==
    ASSUME NEW t, Shape(t), NEW a, Ancs(t, a)
    PROVE  /\ Ancestors(t, 1) = {}
           /\ \A i, j \in 1..Len(t) : Parents(t, j) = {i} => Ancestors(t, j) = {i} \cup Ancestors(t, i)
<1>1. DOMAIN t = 1..Len(t) /\ Len(t) \in Nat /\ Len(t) > 0
  BY NodeFacts DEF Shape
<1>2. \A j \in 1..Len(t) : a[j] = UNION {{p} \cup a[p] : p \in Parents(t, j)}
  BY <1>1 DEF Ancs
<1>3. a[1] = {}
  BY <1>1, <1>2, ParentsAre
<1>4. \A i, j \in 1..Len(t) : Parents(t, j) = {i} => a[j] = {i} \cup a[i]
  BY <1>2
<1> QED
  BY <1>1, <1>3, <1>4, AncsAre

LEMMA PutParents ==
    ASSUME NEW t, Shape(t), NEW p \in 1..Len(t), NEW n \in NodeType, n.kids = <<>>, NEW u, Put(t, p, n, u)
    PROVE  /\ \A j \in 1..Len(t) : Parents(u, j) = Parents(t, j)
           /\ Parents(u, Len(t) + 1) = {p}
<1>1. /\ Shape(u) /\ Len(t) \in Nat /\ Len(u) = Len(t) + 1 /\ Len(t) > 0 /\ p \in 1..Len(u)
      /\ \A i \in 1..Len(t) : Len(t[i].kids) \in Nat
  <2>1. Shape(u)
    BY PutShape
  <2>2. Len(t) \in Nat /\ Len(t) > 0 /\ \A i \in 1..Len(t) : Len(t[i].kids) \in Nat
    BY NodeFacts DEF Shape
  <2> QED BY <2>1, <2>2 DEF Put
<1>2. ASSUME NEW i \in 1..Len(t), NEW k \in 1..Len(t[i].kids)
      PROVE  i \in 1..Len(u) /\ k \in 1..Len(u[i].kids) /\ u[i].kids[k] = t[i].kids[k]
  <2>1. CASE i = p
    <3>1. Len(u[p].kids) = Len(t[p].kids) + 1 /\ Len(t[p].kids) \in Nat
      BY <1>1 DEF Put
    <3>2. k \in 1..Len(u[p].kids)
      BY <2>1, <3>1
    <3> QED BY <1>1, <2>1, <3>2 DEF Put
  <2>2. CASE i # p
    BY <1>1, <2>2 DEF Put
  <2> QED BY <2>1, <2>2
<1>k. /\ \A i \in 1..Len(t) : \A k \in 1..Len(t[i].kids) : \A j : t[i].kids[k] = j => Parents(t, j) = {i}
      /\ \A i \in 1..Len(u) : \A k \in 1..Len(u[i].kids) : \A j : u[i].kids[k] = j => Parents(u, j) = {i}
  BY <1>1, ParentsAre
<1>3. Parents(u, Len(t) + 1) = {p}
  <2>1. Len(t[p].kids) + 1 \in 1..Len(u[p].kids) /\ u[p].kids[Len(t[p].kids) + 1] = Len(t) + 1
    BY <1>1 DEF Put
  <2> QED BY <1>1, <1>k, <2>1
<1>4. ASSUME NEW j \in 1..Len(t) PROVE Parents(u, j) = Parents(t, j)
  <2>1. CASE j = 1
    BY <1>1, <2>1, ParentsAre
  <2>2. CASE j # 1
    <3>1. j \in 2..Len(t)
      BY <1>1, <2>2
    <3>2. PICK i \in 1..Len(t) : \E k \in 1..Len(t[i].kids) : t[i].kids[k] = j
      BY <3>1 DEF Shape, SomePlace
    <3>3. PICK k \in 1..Len(t[i].kids) : t[i].kids[k] = j
      BY <3>2
    <3>4. Parents(t, j) = {i}
      BY <1>k, <3>3
    <3>5. Parents(u, j) = {i}
      BY <1>k, <1>2, <3>3
    <3> QED BY <3>4, <3>5
  <2> QED BY <2>1, <2>2
<1> QED
  BY <1>3, <1>4

LEMMA PutAncestors ==
    ASSUME NEW t, Shape(t), NEW a, Ancs(t, a),
           NEW p \in 1..Len(t), NEW n \in NodeType, n.kids = <<>>, NEW u, Put(t, p, n, u)
    PROVE  /\ \E b : Ancs(u, b)
           /\ \A j \in 1..Len(t) : Ancestors(u, j) = Ancestors(t, j)
           /\ Ancestors(u, Len(t) + 1) = {p} \cup Ancestors(t, p)
<1>1. /\ Shape(u) /\ Len(t) \in Nat /\ DOMAIN t = 1..Len(t) /\ Len(u) = Len(t) + 1 /\ DOMAIN u = 1..Len(u)
  <2>1. Shape(u)
    BY PutShape
  <2>2. Len(t) \in Nat /\ DOMAIN t = 1..Len(t)
    BY NodeFacts DEF Shape
  <2>3. DOMAIN u = 1..Len(u)
    BY NodeFacts, <2>1 DEF Shape
  <2> QED BY <2>1, <2>2, <2>3 DEF Put
<1> DEFINE b == [j \in 1..Len(u) |-> IF j = Len(u) THEN {p} \cup a[p] ELSE a[j]]
<1>2. ASSUME NEW j \in 1..Len(u) PROVE b[j] = UNION {{q} \cup b[q] : q \in Parents(u, j)}
  <2>1. CASE j = Len(u)
    <3>1. Parents(u, j) = {p} /\ b[p] = a[p]
      BY <1>1, <2>1, PutParents
    <3> QED BY <2>1, <3>1
  <2>2. CASE j # Len(u)
    <3>1. j \in 1..Len(t)
      BY <1>1, <2>2
    <3>2. Parents(u, j) = Parents(t, j) /\ Parents(t, j) \subseteq 1..(j - 1)
      BY <3>1, PutParents, ParentsAre
    <3>3. \A q \in Parents(t, j) : b[q] = a[q]
      BY <1>1, <3>1, <3>2
    <3>4. b[j] = UNION {{q} \cup a[q] : q \in Parents(t, j)}
      BY <1>1, <2>2, <3>1 DEF Ancs
    <3> HIDE DEF b
    <3> QED BY <3>2, <3>3, <3>4
  <2> QED BY <2>1, <2>2
<1>3. Ancs(u, b)
  <2>1. b = [j \in 1..Len(u) |-> b[j]]
    OBVIOUS
  <2> HIDE DEF b
  <2>2. [j \in 1..Len(u) |-> b[j]] = [j \in 1..Len(u) |-> UNION {{q} \cup b[q] : q \in Parents(u, j)}]
    BY <1>2
  <2> QED BY <1>1, <2>1, <2>2 DEF Ancs
<1>4. \A j \in 1..Len(u) : Ancestors(u, j) = b[j]
  <2> HIDE DEF b
  <2> QED BY <1>1, <1>3, AncsAre
<1>5. \A j \in 1..Len(t) : Ancestors(t, j) = a[j]
  BY AncsAre
<1>6. \A j \in 1..Len(t) : j \in 1..Len(u) /\ b[j] = a[j]
  BY <1>1
<1>7. Len(u) \in 1..Len(u) /\ b[Len(u)] = {p} \cup a[p]
  BY <1>1
<1> HIDE DEF b
<1> QED
  BY <1>1, <1>3, <1>4, <1>5, <1>6, <1>7

-----------------------------------------------------------------------------
(* The way from the root to p over last children, its nodes being S *)

Spine(t, S, p) ==
    /\ S \subseteq 1..Len(t) /\ 1 \in S /\ p \in S
    /\ \A i \in S : i <= p
    /\ \A i \in S \ {p} : LastKid(t, i) \in S
    /\ \A j \in S \ {1} : \E i \in S \ {p} : LastKid(t, i) = j
    /\ \A i, j \in S : i < j => LastKid(t, i) <= j

LEMMA LastKidIs ==
    ASSUME NEW t, Shape(t), NEW i \in 1..Len(t)
    PROVE  /\ LastKid(t, i) = 0 \/ LastKid(t, i) \in (i + 1)..Len(t)
           /\ LastKid(t, i) # 0 => /\ Len(t[i].kids) \in 1..Len(t[i].kids)
                                   /\ t[i].kids[Len(t[i].kids)] = LastKid(t, i)
<1>1. t[i].kids \in Seq(Nat) /\ KidsAbove(t)
  BY NodeFacts DEF Shape
<1>2. Len(t[i].kids) \in Nat /\ (t[i].kids # <<>> => Len(t[i].kids) > 0)
  BY <1>1, SeqFacts
<1>3. CASE t[i].kids = <<>>
  BY <1>3 DEF LastKid
<1>4. CASE t[i].kids # <<>>
  <2>1. Len(t[i].kids) \in 1..Len(t[i].kids)
    BY <1>2, <1>4
  <2>2. LastKid(t, i) = t[i].kids[Len(t[i].kids)]
    BY <1>4 DEF LastKid
  <2> QED BY <1>1, <2>1, <2>2 DEF KidsAbove
<1> QED
  BY <1>3, <1>4

LEMMA SpineRoot ==
    ASSUME NEW t, Shape(t)
    PROVE  Spine(t, {1}, 1)
<1>1. 1 \in 1..Len(t)
  BY NodeFacts DEF Shape
<1> QED
  BY <1>1 DEF Spine

LEMMA SpineDown ==
    ASSUME NEW t, Shape(t), NEW S, NEW p, Spine(t, S, p), LastKid(t, p) # 0
    PROVE  Spine(t, S \cup {LastKid(t, p)}, LastKid(t, p))
<1> DEFINE q == LastKid(t, p)
           R == S \cup {q}
<1>0. Len(t) \in Nat /\ S \subseteq 1..Len(t) /\ 1 \in S /\ p \in S /\ \A i \in S : i \in Nat
  BY NodeFacts DEF Spine, Shape
<1>1. p \in 1..Len(t) /\ q \in (p + 1)..Len(t)
  BY <1>0, LastKidIs
<1>2. \A i \in S : i <= p /\ i < q /\ i # q
  BY <1>0, <1>1 DEF Spine
<1>a. q \in 1..Len(t) /\ q \in Nat /\ p \in Nat
  BY <1>0, <1>1
<1>b. \A i \in S : i <= q
  <2> HIDE DEF q
  <2> QED BY <1>0, <1>2, <1>a
<1>3. R \subseteq 1..Len(t) /\ 1 \in R /\ q \in R /\ \A i \in R : i <= q
  <2> HIDE DEF q
  <2>1. q <= q
    BY <1>a
  <2> QED BY <1>0, <1>a, <1>b, <2>1
<1>4. \A i \in R \ {q} : LastKid(t, i) \in R
  BY <1>2 DEF Spine
<1>5. \A j \in R \ {1} : \E i \in R \ {q} : LastKid(t, i) = j
  <2> SUFFICES ASSUME NEW j \in R \ {1} PROVE \E i \in R \ {q} : LastKid(t, i) = j
    OBVIOUS
  <2>1. CASE j = q
    BY <1>0, <1>2, <2>1
  <2>2. CASE j # q
    <3>1. PICK i \in S \ {p} : LastKid(t, i) = j
      BY <2>2 DEF Spine
    <3> QED BY <1>2, <3>1
  <2> QED BY <2>1, <2>2
<1>6. ASSUME NEW i \in R, NEW j \in R, i < j PROVE LastKid(t, i) <= j
  <2>0. i \in S
    BY <1>0, <1>1, <1>2, <1>6
  <2>1. CASE j = q
    <3>1. CASE i = p
      BY <1>1, <2>1, <3>1
    <3>2. CASE i # p
      <4>1. LastKid(t, i) \in S
        BY <2>0, <3>2 DEF Spine
      <4> QED BY <1>b, <2>1, <4>1
    <3> QED BY <3>1, <3>2
  <2>2. CASE j # q
    BY <1>6, <2>0, <2>2 DEF Spine
  <2> QED BY <2>1, <2>2
<1> QED
  BY <1>3, <1>4, <1>5, <1>6 DEF Spine

LEMMA SpineCut ==
    ASSUME NEW t, Shape(t), NEW S, NEW p, Spine(t, S, p), NEW q \in S
    PROVE  Spine(t, {i \in S : i <= q}, q)
<1> DEFINE R == {i \in S : i <= q}
<1>0. Len(t) \in Nat /\ S \subseteq 1..Len(t) /\ 1 \in S /\ p \in S /\ \A i \in S : i \in Nat /\ i >= 1 /\ i <= p
  BY NodeFacts DEF Spine, Shape
<1>1. R \subseteq 1..Len(t) /\ 1 \in R /\ q \in R /\ \A i \in R : i <= q
  <2>1. q <= q /\ 1 <= q
    BY <1>0
  <2> QED BY <1>0, <2>1
<1>2. ASSUME NEW i \in R \ {q} PROVE LastKid(t, i) \in R
  <2>1. i \in S /\ i < q /\ i # p
    BY <1>0, <1>2
  <2> QED BY <2>1 DEF Spine
<1>3. ASSUME NEW j \in R \ {1} PROVE \E i \in R \ {q} : LastKid(t, i) = j
  <2>1. PICK i \in S \ {p} : LastKid(t, i) = j
    BY <1>3 DEF Spine
  <2>2. i < j
    <3>1. j \in (i + 1)..Len(t)
      BY <1>0, <2>1, LastKidIs
    <3> QED BY <1>0, <3>1
  <2>3. i \in R \ {q}
    BY <1>0, <2>2
  <2> QED BY <2>1, <2>3
<1>4. \A i, j \in R : i < j => LastKid(t, i) <= j
  BY DEF Spine
<1> QED
  BY <1>1, <1>2, <1>3, <1>4 DEF Spine

LEMMA PutLastKid ==
    ASSUME NEW t, Shape(t), NEW p \in 1..Len(t), NEW n \in NodeType, n.kids = <<>>, NEW u, Put(t, p, n, u)
    PROVE  /\ \A i \in 1..Len(t) : i # p => LastKid(u, i) = LastKid(t, i)
           /\ LastKid(u, p) = Len(t) + 1
<1>1. \A i \in 1..Len(t) : i # p => LastKid(u, i) = LastKid(t, i)
  BY DEF Put, LastKid
<1>2. LastKid(u, p) = Len(t) + 1
  <2>1. Len(t[p].kids) \in Nat /\ Len(t) \in Nat
    BY NodeFacts DEF Shape
  <2>2. p \in 1..Len(u) /\ u \in Seq(NodeType)
    BY <2>1 DEF Put
  <2>3. u[p].kids \in Seq(Nat)
    BY <2>2, NodeFacts
  <2>4. u[p].kids # <<>>
    BY <2>1, <2>3, SeqFacts DEF Put
  <2> QED BY <2>4 DEF LastKid, Put
<1> QED
  BY <1>1, <1>2

LEMMA SpinePut ==
    ASSUME NEW t, Shape(t), NEW S, NEW p, Spine(t, S, p),
           NEW n \in NodeType, n.kids = <<>>, NEW u, Put(t, p, n, u)
    PROVE  Spine(u, S, p) /\ Spine(u, S \cup {Len(t) + 1}, Len(t) + 1)
<1>0. Len(t) \in Nat /\ S \subseteq 1..Len(t) /\ 1 \in S /\ p \in S /\ p \in 1..Len(t)
      /\ \A i \in S : i \in 1..Len(t) /\ i \in Nat
  BY NodeFacts DEF Spine, Shape
<1>1. Shape(u) /\ Len(u) = Len(t) + 1
  <2>1. Shape(u)
    BY <1>0, PutShape
  <2> QED BY <2>1 DEF Put
<1>2. LastKid(u, p) = Len(t) + 1 /\ \A i \in S \ {p} : LastKid(u, i) = LastKid(t, i)
  BY <1>0, PutLastKid
<1>3. Spine(u, S, p)
  <2>1. S \subseteq 1..Len(u)
    BY <1>0, <1>1
  <2>2. \A i \in S : i <= p
    BY DEF Spine
  <2>3. \A i \in S \ {p} : LastKid(u, i) \in S
    BY <1>2 DEF Spine
  <2>4. \A j \in S \ {1} : \E i \in S \ {p} : LastKid(u, i) = j
    BY <1>2 DEF Spine
  <2>5. ASSUME NEW i \in S, NEW j \in S, i < j PROVE LastKid(u, i) <= j
    <3>1. i # p
      BY <1>0, <2>2, <2>5
    <3> QED BY <1>2, <2>5, <3>1 DEF Spine
  <2> QED BY <1>0, <2>1, <2>2, <2>3, <2>4, <2>5 DEF Spine
<1>4. LastKid(u, p) # 0
  BY <1>0, <1>2
<1> QED
  BY <1>1, <1>2, <1>3, <1>4, SpineDown

LEMMA SpineAncestors ==
    ASSUME NEW t, Shape(t), NEW a, Ancs(t, a), NEW S, NEW p, Spine(t, S, p)
    PROVE  Ancestors(t, p) = S \ {p}
<1>0. Len(t) \in Nat /\ S \subseteq 1..Len(t) /\ 1 \in S /\ p \in S
      /\ \A i \in S : i \in 1..Len(t) /\ i \in Nat /\ i >= 1 /\ i <= p
  BY NodeFacts DEF Spine, Shape
<1> DEFINE B == {j \in S : Ancestors(t, j) # {i \in S : i < j}}
<1>1. B = {}
  <2> SUFFICES ASSUME B # {} PROVE FALSE
    OBVIOUS
  <2>1. B \in SUBSET Nat
    BY <1>0
  <2>2. PICK j \in B : \A i \in B : j <= i
    <3> HIDE DEF B
    <3> QED BY <2>1, LeastNat
  <2>3. j # 1
    <3>1. Ancestors(t, 1) = {}
      BY AncestorsAre
    <3>2. {i \in S : i < 1} = {}
      <4>1. \A i \in S : ~(i < 1)
        BY <1>0
      <4> QED BY <4>1
    <3> QED BY <2>2, <3>1, <3>2
  <2>4. PICK i \in S \ {p} : LastKid(t, i) = j
    BY <2>2, <2>3 DEF Spine
  <2>5. j \in (i + 1)..Len(t) /\ Len(t[i].kids) \in 1..Len(t[i].kids) /\ t[i].kids[Len(t[i].kids)] = j
    BY <1>0, <2>4, LastKidIs
  <2>6. Parents(t, j) = {i}
    <3>1. \A x \in 1..Len(t) : \A k \in 1..Len(t[x].kids) : \A y : t[x].kids[k] = y => Parents(t, y) = {x}
      BY ParentsAre
    <3> QED BY <1>0, <2>5, <3>1
  <2>7. Ancestors(t, j) = {i} \cup Ancestors(t, i)
    BY <1>0, <2>2, <2>6, AncestorsAre
  <2>8. i < j /\ i \notin B
    <3>1. i < j
      BY <1>0, <2>5
    <3> HIDE DEF B
    <3> QED BY <1>0, <2>1, <2>2, <3>1
  <2>9. Ancestors(t, i) = {x \in S : x < i}
    BY <2>8
  <2>10. {x \in S : x < j} = {i} \cup {x \in S : x < i}
    <3>1. ASSUME NEW x \in S, x < j, ~(x < i) PROVE x = i
      <4>1. ~(i < x)
        <5> SUFFICES ASSUME i < x PROVE FALSE
          OBVIOUS
        <5>1. j <= x
          BY <2>4 DEF Spine
        <5> QED BY <1>0, <2>2, <3>1, <5>1
      <4> QED BY <1>0, <3>1, <4>1
    <3>2. ASSUME NEW x \in S, x < i PROVE x < j
      BY <1>0, <2>8, <2>2, <3>2
    <3> QED BY <2>8, <3>1, <3>2
  <2> QED BY <2>2, <2>7, <2>9, <2>10
<1>2. Ancestors(t, p) = {i \in S : i < p}
  BY <1>0, <1>1
<1>3. {i \in S : i < p} = S \ {p}
  <2>1. \A i \in S : i < p <=> i # p
    BY <1>0
  <2> QED BY <2>1
<1> QED
  BY <1>2, <1>3

-----------------------------------------------------------------------------
(* The lines of a tree *)

Pairs(t) == UNION {{i} \X (0..Len(t[i].kids)) : i \in DOMAIN t}
Reads(t, w) ==
    w = [x \in Pairs(t) |->
            IF x[2] = 0 THEN t[x[1]].lines ELSE w[<<x[1], x[2] - 1>>] \o w[All(t, t[x[1]].kids[x[2]])]]

LEMMA PairsAre ==
    ASSUME NEW t, Shape(t)
    PROVE  /\ \A i \in 1..Len(t) : \A k \in 0..Len(t[i].kids) : <<i, k>> \in Pairs(t)
           /\ \A x \in Pairs(t) : \E i \in 1..Len(t) : \E k \in 0..Len(t[i].kids) : x = <<i, k>>
           /\ \A i \in 1..Len(t) : All(t, i) \in Pairs(t)
<1>1. DOMAIN t = 1..Len(t) /\ \A i \in 1..Len(t) : Len(t[i].kids) \in Nat
  BY NodeFacts DEF Shape
<1>2. ASSUME NEW i \in 1..Len(t), NEW k \in 0..Len(t[i].kids) PROVE <<i, k>> \in Pairs(t)
  <2>1. <<i, k>> \in {i} \X (0..Len(t[i].kids))
    OBVIOUS
  <2> QED BY <1>1, <2>1 DEF Pairs
<1>3. ASSUME NEW x \in Pairs(t) PROVE \E i \in 1..Len(t) : \E k \in 0..Len(t[i].kids) : x = <<i, k>>
  BY <1>1 DEF Pairs
<1>4. \A i \in 1..Len(t) : Len(t[i].kids) \in 0..Len(t[i].kids)
  BY <1>1
<1> QED
  BY <1>2, <1>3, <1>4 DEF All

LEMMA ReadsAt ==
    ASSUME NEW t, Shape(t), NEW w, Reads(t, w)
    PROVE  /\ \A i \in 1..Len(t) : w[<<i, 0>>] = t[i].lines
           /\ \A i \in 1..Len(t) : \A k \in 1..Len(t[i].kids) :
                  w[<<i, k>>] = w[<<i, k - 1>>] \o w[All(t, t[i].kids[k])]
<1>1. \A i \in 1..Len(t) : Len(t[i].kids) \in Nat
  BY NodeFacts DEF Shape
<1>2. ASSUME NEW i \in 1..Len(t) PROVE w[<<i, 0>>] = t[i].lines
  <2>1. <<i, 0>> \in Pairs(t)
    BY <1>1, PairsAre
  <2> QED BY <2>1 DEF Reads
<1>3. ASSUME NEW i \in 1..Len(t), NEW k \in 1..Len(t[i].kids)
      PROVE  w[<<i, k>>] = w[<<i, k - 1>>] \o w[All(t, t[i].kids[k])]
  <2>1. k \in 0..Len(t[i].kids) /\ k # 0
    BY <1>1
  <2>2. <<i, k>> \in Pairs(t)
    BY <2>1, PairsAre
  <2> QED BY <2>1, <2>2 DEF Reads
<1> QED
  BY <1>2, <1>3

LEMMA WrittenIs ==
    ASSUME NEW t, Shape(t), NEW w, Reads(t, w)
    PROVE  Written(t) = w[All(t, 1)]
<1> DEFINE c == CHOOSE b : Reads(t, b)
           B == {i \in 1..Len(t) : \E k \in 0..Len(t[i].kids) : c[<<i, k>>] # w[<<i, k>>]}
<1>0. Len(t) \in Nat /\ Len(t) > 0 /\ \A i \in 1..Len(t) : Len(t[i].kids) \in Nat
  BY NodeFacts DEF Shape
<1>1. Reads(t, c)
  OBVIOUS
<1>2. Written(t) = c[All(t, 1)]
  BY DEF Written, Reads, Pairs
<1>r. /\ \A i \in 1..Len(t) : c[<<i, 0>>] = t[i].lines /\ w[<<i, 0>>] = t[i].lines
      /\ \A i \in 1..Len(t) : \A k \in 1..Len(t[i].kids) :
             /\ c[<<i, k>>] = c[<<i, k - 1>>] \o c[All(t, t[i].kids[k])]
             /\ w[<<i, k>>] = w[<<i, k - 1>>] \o w[All(t, t[i].kids[k])]
  <2> HIDE DEF c, B
  <2>1. /\ \A i \in 1..Len(t) : c[<<i, 0>>] = t[i].lines
        /\ \A i \in 1..Len(t) : \A k \in 1..Len(t[i].kids) : c[<<i, k>>] = c[<<i, k - 1>>] \o c[All(t, t[i].kids[k])]
    BY <1>1, ReadsAt
  <2>2. /\ \A i \in 1..Len(t) : w[<<i, 0>>] = t[i].lines
        /\ \A i \in 1..Len(t) : \A k \in 1..Len(t[i].kids) : w[<<i, k>>] = w[<<i, k - 1>>] \o w[All(t, t[i].kids[k])]
    BY ReadsAt
  <2> QED BY <2>1, <2>2
<1> HIDE DEF c
<1>3. B = {}
  <2> SUFFICES ASSUME B # {} PROVE FALSE
    OBVIOUS
  <2>1. B \in SUBSET (0..Len(t))
    BY <1>0
  <2>2. Most(B) \in B /\ \A j \in B : Most(B) >= j
    <3> HIDE DEF B
    <3> QED BY <1>0, <2>1, MostFacts
  <2>3. PICK i \in B : \A j \in B : i >= j
    <3> HIDE DEF B
    <3> QED BY <2>2
  <2> DEFINE K == {k \in 0..Len(t[i].kids) : c[<<i, k>>] # w[<<i, k>>]}
  <2>4. K \in SUBSET Nat /\ K # {}
    <3>1. i \in 1..Len(t) /\ Len(t[i].kids) \in Nat
      BY <1>0, <2>3
    <3>2. \E k \in 0..Len(t[i].kids) : c[<<i, k>>] # w[<<i, k>>]
      BY <2>3
    <3>3. \A k \in 0..Len(t[i].kids) : k \in Nat
      BY <3>1
    <3> HIDE DEF B
    <3> QED BY <3>2, <3>3
  <2>5. PICK k \in K : \A l \in K : k <= l
    <3> HIDE DEF K
    <3> QED BY <2>4, LeastNat
  <2>6. i \in 1..Len(t) /\ Len(t[i].kids) \in Nat
    BY <1>0, <2>3
  <2>7. k # 0
    BY <1>r, <2>5, <2>6
  <2>8. k \in 1..Len(t[i].kids) /\ k - 1 \in 0..Len(t[i].kids) /\ ~(k <= k - 1)
    BY <2>5, <2>6, <2>7
  <2>9. c[<<i, k - 1>>] = w[<<i, k - 1>>]
    <3>1. k - 1 \notin K
      <4> HIDE DEF K
      <4> QED BY <2>5, <2>8
    <3> QED BY <2>8, <3>1
  <2>10. PICK j : j = t[i].kids[k]
    OBVIOUS
  <2>11. j \in (i + 1)..Len(t)
    BY <2>6, <2>8, <2>10 DEF Shape, KidsAbove
  <2>12. j \in 1..Len(t) /\ j \notin B
    <3>1. j \in 1..Len(t) /\ ~(i >= j)
      BY <1>0, <2>6, <2>11
    <3> HIDE DEF B
    <3> QED BY <2>3, <3>1
  <2>13. Len(t[j].kids) \in 0..Len(t[j].kids)
    BY <1>0, <2>12
  <2>14. c[All(t, j)] = w[All(t, j)]
    BY <2>12, <2>13 DEF All
  <2>15. /\ c[<<i, k>>] = c[<<i, k - 1>>] \o c[All(t, j)]
         /\ w[<<i, k>>] = w[<<i, k - 1>>] \o w[All(t, j)]
    BY <1>r, <2>6, <2>8, <2>10
  <2> QED
    BY <2>5, <2>9, <2>14, <2>15
<1>4. 1 \in 1..Len(t) /\ Len(t[1].kids) \in 0..Len(t[1].kids)
  BY <1>0
<1> QED
  BY <1>2, <1>3, <1>4 DEF All

LEMMA ConcatFacts ==
    ASSUME NEW S, NEW x \in Seq(S), NEW y \in Seq(S), NEW c, c = x \o y
    PROVE  /\ c \in Seq(S) /\ Len(c) = Len(x) + Len(y) /\ Len(x) \in Nat /\ Len(y) \in Nat
           /\ \A i \in 1..Len(x) : c[i] = x[i]
           /\ \A i \in 1..Len(y) : c[Len(x) + i] = y[i]
<1>1. Len(x) \in Nat /\ Len(y) \in Nat
  BY SeqFacts
<1>2. c \in Seq(S) /\ Len(c) = Len(x) + Len(y)
      /\ \A i \in 1..Len(x) + Len(y) : c[i] = IF i <= Len(x) THEN x[i] ELSE y[i - Len(x)]
  BY ConcatProperties
<1>3. \A i \in 1..Len(x) : c[i] = x[i]
  BY <1>1, <1>2
<1>4. ASSUME NEW i \in 1..Len(y) PROVE c[Len(x) + i] = y[i]
  <2>1. Len(x) + i \in 1..Len(x) + Len(y) /\ ~(Len(x) + i <= Len(x)) /\ (Len(x) + i) - Len(x) = i
    BY <1>1
  <2> QED BY <1>2, <2>1
<1> QED
  BY <1>1, <1>2, <1>3, <1>4

LEMMA Associative ==
    ASSUME NEW x \in Seq(Nat), NEW y \in Seq(Nat), NEW z \in Seq(Nat)
    PROVE  (x \o y) \o z = x \o (y \o z)
<1>1. PICK a : a = x \o y
  OBVIOUS
<1>2. PICK b : b = y \o z
  OBVIOUS
<1>3. /\ a \in Seq(Nat) /\ Len(a) = Len(x) + Len(y) /\ Len(x) \in Nat /\ Len(y) \in Nat
      /\ (\A i \in 1..Len(x) : a[i] = x[i]) /\ (\A i \in 1..Len(y) : a[Len(x) + i] = y[i])
  BY <1>1, ConcatFacts
<1>4. /\ b \in Seq(Nat) /\ Len(b) = Len(y) + Len(z) /\ Len(z) \in Nat
      /\ (\A i \in 1..Len(y) : b[i] = y[i]) /\ (\A i \in 1..Len(z) : b[Len(y) + i] = z[i])
  BY <1>2, ConcatFacts
<1>a. a \in Seq(Nat) /\ b \in Seq(Nat)
  BY <1>3, <1>4
<1>l. Len(x) \in Nat /\ Len(y) \in Nat /\ Len(z) \in Nat /\ Len(a) = Len(x) + Len(y) /\ Len(b) = Len(y) + Len(z)
  BY <1>3, <1>4
<1>5. PICK c : c = a \o z
  OBVIOUS
<1>6. PICK d : d = x \o b
  OBVIOUS
<1>7. /\ c \in Seq(Nat) /\ Len(c) = Len(a) + Len(z)
      /\ (\A i \in 1..Len(a) : c[i] = a[i]) /\ (\A i \in 1..Len(z) : c[Len(a) + i] = z[i])
  BY ONLY <1>a, <1>5, z \in Seq(Nat), ConcatFacts
<1>8. /\ d \in Seq(Nat) /\ Len(d) = Len(x) + Len(b)
      /\ (\A i \in 1..Len(x) : d[i] = x[i]) /\ (\A i \in 1..Len(b) : d[Len(x) + i] = b[i])
  BY ONLY <1>a, <1>6, x \in Seq(Nat), ConcatFacts
<1>9. Len(c) = Len(d) /\ Len(c) = Len(x) + Len(y) + Len(z)
  BY <1>3, <1>4, <1>7, <1>8
<1>10. ASSUME NEW i \in 1..Len(c) PROVE c[i] = d[i]
  <2>1. CASE i <= Len(x)
    <3>1. i \in 1..Len(x) /\ i \in 1..Len(a)
      BY <1>3, <2>1
    <3> QED BY <1>3, <1>7, <1>8, <3>1
  <2>2. CASE i > Len(x) /\ i <= Len(a)
    <3>1. PICK j : j = i - Len(x)
      OBVIOUS
    <3>2. j \in 1..Len(y) /\ i = Len(x) + j /\ j \in 1..Len(b) /\ i \in 1..Len(a)
      <4>1. i \in Int
        BY <1>l, <1>9
      <4> QED BY ONLY <1>l, <2>2, <3>1, <4>1
    <3> QED BY <1>3, <1>4, <1>7, <1>8, <3>2
  <2>3. CASE i > Len(a)
    <3>1. PICK j : j = i - Len(a)
      OBVIOUS
    <3>2. j \in 1..Len(z) /\ i = Len(a) + j /\ Len(y) + j \in 1..Len(b) /\ i = Len(x) + (Len(y) + j)
      BY <1>3, <1>4, <1>9, <2>3, <3>1
    <3>3. c[Len(a) + j] = z[j] /\ d[Len(x) + (Len(y) + j)] = b[Len(y) + j] /\ b[Len(y) + j] = z[j]
      BY <1>4, <1>7, <1>8, <3>2
    <3>4. c[i] = c[Len(a) + j] /\ d[i] = d[Len(x) + (Len(y) + j)]
      BY <3>2
    <3> QED BY <3>3, <3>4
  <2> QED BY <1>3, <1>9, <2>1, <2>2, <2>3
<1>11. c = d
  BY <1>7, <1>8, <1>9, <1>10, SeqEqual
<1> QED
  BY <1>1, <1>2, <1>5, <1>6, <1>11
(* A node that is put at the end of the way from the root is read last. *)
LEMMA PutReads ==
    ASSUME NEW t, Shape(t), NEW w \in [Pairs(t) -> Seq(Nat)], Reads(t, w), NEW S, NEW p, Spine(t, S, p),
           NEW n \in NodeType, n.kids = <<>>, NEW u, Put(t, p, n, u)
    PROVE  /\ \E b \in [Pairs(u) -> Seq(Nat)] : Reads(u, b)
           /\ Written(u) = Written(t) \o n.lines /\ Written(t) \in Seq(Nat)
<1> DEFINE L == Len(t)
           b == [x \in Pairs(u) |->
                    IF x[1] = L + 1 THEN n.lines
                    ELSE IF x[1] \in S /\ x[2] = Len(u[x[1]].kids) THEN w[All(t, x[1])] \o n.lines
                    ELSE w[x]]
<1>0. /\ L \in Nat /\ L > 0 /\ S \subseteq 1..L /\ 1 \in S /\ p \in S /\ p \in 1..L
      /\ \A i \in 1..L : i \in Nat /\ Len(t[i].kids) \in Nat
  BY NodeFacts DEF Spine, Shape
<1>1. Shape(u) /\ Len(u) = L + 1
  <2>1. Shape(u)
    BY <1>0, PutShape
  <2> QED BY <2>1 DEF Put
<1>2. /\ u[L + 1] = n /\ Len(n.kids) = 0
      /\ \A i \in 1..L : u[i].lines = t[i].lines
      /\ \A i \in 1..L : i # p => u[i].kids = t[i].kids
      /\ Len(u[p].kids) = Len(t[p].kids) + 1 /\ u[p].kids[Len(t[p].kids) + 1] = L + 1
      /\ \A k \in 1..Len(t[p].kids) : u[p].kids[k] = t[p].kids[k]
  BY EmptySeq DEF Put
<1>3. n.lines \in Seq(Nat)
  BY DEF NodeType
<1>r. /\ \A i \in 1..L : w[<<i, 0>>] = t[i].lines
      /\ \A i \in 1..L : \A k \in 1..Len(t[i].kids) : w[<<i, k>>] = w[<<i, k - 1>>] \o w[All(t, t[i].kids[k])]
  BY ReadsAt
<1>w. \A x \in Pairs(t) : w[x] \in Seq(Nat)
  OBVIOUS
<1>4. ASSUME NEW i \in 1..L, NEW k \in 0..Len(u[i].kids), ~(i = p /\ k = Len(u[i].kids))
      PROVE  k \in 0..Len(t[i].kids) /\ (k # 0 => k \in 1..Len(t[i].kids) /\ u[i].kids[k] = t[i].kids[k])
  <2>1. Len(t[i].kids) \in Nat
    BY <1>0
  <2>2. CASE i = p
    <3>1. k \in 0..Len(t[p].kids) + 1 /\ k # Len(t[p].kids) + 1 /\ Len(t[p].kids) \in Nat
      BY <1>2, <1>4, <2>1, <2>2
    <3>2. k \in 0..Len(t[p].kids) /\ (k # 0 => k \in 1..Len(t[p].kids))
      BY ONLY <3>1
    <3> QED BY <1>2, <2>2, <3>2
  <2>3. CASE i # p
    <3>1. k \in 0..Len(t[i].kids) /\ u[i].kids = t[i].kids
      BY <1>2, <1>4, <2>3
    <3> QED BY <2>1, <3>1
  <2> QED BY <2>2, <2>3
<1>5. ASSUME NEW i \in 1..L PROVE Len(u[i].kids) \in Nat /\ (i # p => Len(u[i].kids) = Len(t[i].kids))
  BY <1>0, <1>2
<1>6. \A i \in S \ {p} : /\ Len(t[i].kids) \in 1..Len(t[i].kids) /\ t[i].kids[Len(t[i].kids)] = LastKid(t, i)
                         /\ LastKid(t, i) \in S
  <2> SUFFICES ASSUME NEW i \in S \ {p}
               PROVE  /\ Len(t[i].kids) \in 1..Len(t[i].kids) /\ t[i].kids[Len(t[i].kids)] = LastKid(t, i)
                      /\ LastKid(t, i) \in S
    OBVIOUS
  <2>1. LastKid(t, i) \in S
    BY DEF Spine
  <2>2. LastKid(t, i) # 0
    BY <1>0, <2>1
  <2> QED BY <1>0, <2>1, <2>2, LastKidIs
<1>b. ASSUME NEW i \in 1..L, NEW k \in 0..Len(u[i].kids)
      PROVE  b[<<i, k>>] = IF i \in S /\ k = Len(u[i].kids) THEN w[All(t, i)] \o n.lines ELSE w[<<i, k>>]
  <2>1. i \in 1..Len(u) /\ i # L + 1
    BY <1>0, <1>1
  <2>2. <<i, k>> \in Pairs(u)
    BY <1>1, <2>1, PairsAre
  <2> QED BY <2>1, <2>2
<1>n. \A k \in 0..Len(u[L + 1].kids) : b[<<L + 1, k>>] = n.lines
  <2>1. L + 1 \in 1..Len(u)
    BY <1>0, <1>1
  <2>2. \A k \in 0..Len(u[L + 1].kids) : <<L + 1, k>> \in Pairs(u)
    BY <1>1, <2>1, PairsAre
  <2> QED BY <2>2
<1>7. b \in [Pairs(u) -> Seq(Nat)]
  <2> SUFFICES ASSUME NEW x \in Pairs(u) PROVE b[x] \in Seq(Nat)
    OBVIOUS
  <2>1. PICK i \in 1..Len(u) : \E k \in 0..Len(u[i].kids) : x = <<i, k>>
    BY <1>1, PairsAre
  <2>2. PICK k \in 0..Len(u[i].kids) : x = <<i, k>>
    BY <2>1
  <2>3. CASE i = L + 1
    BY <1>3, <1>n, <2>2, <2>3
  <2>4. CASE i # L + 1
    <3>1. i \in 1..L
      BY <1>0, <1>1, <2>4
    <3>2. b[x] = IF i \in S /\ k = Len(u[i].kids) THEN w[All(t, i)] \o n.lines ELSE w[<<i, k>>]
      BY <1>b, <2>2, <3>1
    <3>3. w[All(t, i)] \in Seq(Nat)
      BY <1>w, <3>1, PairsAre
    <3>4. w[All(t, i)] \o n.lines \in Seq(Nat)
      BY <1>3, <3>3, ConcatProperties
    <3>5. ASSUME ~(i \in S /\ k = Len(u[i].kids)) PROVE w[<<i, k>>] \in Seq(Nat)
      <4>1. k \in 0..Len(t[i].kids)
        BY <1>0, <1>4, <3>1, <3>5
      <4> QED BY <1>w, <3>1, <4>1, PairsAre
    <3> HIDE DEF b
    <3> QED BY <3>2, <3>4, <3>5
  <2> QED BY <2>3, <2>4
<1> HIDE DEF b
(* All lines of a node that is not on the way *)
<1>8. ASSUME NEW j \in 1..L, j \notin S PROVE b[All(u, j)] = w[All(t, j)]
  <2>1. j # p /\ Len(u[j].kids) = Len(t[j].kids) /\ Len(u[j].kids) \in 0..Len(u[j].kids)
    BY <1>0, <1>5, <1>8
  <2> QED BY <1>b, <1>8, <2>1 DEF All
(* and of one on it *)
<1>9. ASSUME NEW j \in S PROVE b[All(u, j)] = w[All(t, j)] \o n.lines
  <2>1. j \in 1..L /\ Len(u[j].kids) \in 0..Len(u[j].kids)
    BY <1>0, <1>5
  <2> QED BY <1>b, <2>1 DEF All
<1>10. ASSUME NEW i \in 1..L PROVE b[<<i, 0>>] = u[i].lines
  <2>1. 0 \in 0..Len(u[i].kids) /\ ~(i \in S /\ 0 = Len(u[i].kids))
    <3>1. CASE i = p
      BY <1>0, <1>2, <3>1
    <3>2. CASE i # p
      BY <1>0, <1>5, <1>6, <3>2
    <3> QED BY <3>1, <3>2
  <2> QED BY <1>2, <1>b, <1>r, <2>1
<1>11. ASSUME NEW i \in 1..L, NEW k \in 1..Len(u[i].kids)
       PROVE  b[<<i, k>>] = b[<<i, k - 1>>] \o b[All(u, u[i].kids[k])]
  <2>0. /\ k \in 0..Len(u[i].kids) /\ k - 1 \in 0..Len(u[i].kids) /\ k - 1 # Len(u[i].kids) /\ k # 0
        /\ Len(u[i].kids) \in Nat
    BY <1>5
  <2>1. b[<<i, k - 1>>] = w[<<i, k - 1>>]
    BY <1>b, <2>0
  <2>2. CASE i = p /\ k = Len(u[i].kids)
    <3>1. u[i].kids[k] = L + 1 /\ k - 1 = Len(t[p].kids)
      BY <1>0, <1>2, <2>2
    <3>2. b[All(u, L + 1)] = n.lines
      <4>1. Len(u[L + 1].kids) \in 0..Len(u[L + 1].kids)
        BY <1>2
      <4> QED BY <1>n, <4>1 DEF All
    <3>3. b[<<i, k>>] = w[All(t, p)] \o n.lines
      BY <1>0, <1>b, <2>0, <2>2
    <3> QED BY <2>1, <2>2, <3>1, <3>2, <3>3 DEF All
  <2>3. CASE ~(i = p /\ k = Len(u[i].kids))
    <3> DEFINE j == t[i].kids[k]
    <3>1. k \in 1..Len(t[i].kids) /\ u[i].kids[k] = j
      BY <1>4, <2>0, <2>3
    <3>2. w[<<i, k>>] = w[<<i, k - 1>>] \o w[All(t, j)]
      BY <1>r, <3>1
    <3>3. j \in (i + 1)..Len(t)
      BY <3>1 DEF Shape, KidsAbove
    <3>4. j \in 1..L /\ j # 1
      BY <1>0, <3>3
    <3> HIDE DEF j
    <3>5. CASE i \in S /\ k = Len(u[i].kids)
      <4>1. i # p /\ k = Len(t[i].kids)
        BY <1>5, <2>3, <3>5
      <4>2. j \in S
        BY <1>6, <3>5, <4>1 DEF j
      <4>3. b[<<i, k>>] = w[<<i, k>>] \o n.lines
        BY <1>b, <2>0, <3>5, <4>1 DEF All
      <4>4. b[All(u, j)] = w[All(t, j)] \o n.lines
        BY <1>9, <4>2
      <4>5. w[<<i, k - 1>>] \in Seq(Nat) /\ w[All(t, j)] \in Seq(Nat)
        <5>1. k - 1 \in 0..Len(t[i].kids)
          BY <1>0, <3>1
        <5> QED BY <1>w, <3>4, <5>1, PairsAre
      <4>6. (w[<<i, k - 1>>] \o w[All(t, j)]) \o n.lines = w[<<i, k - 1>>] \o (w[All(t, j)] \o n.lines)
        BY <1>3, <4>5, Associative
      <4> QED BY <2>1, <3>1, <3>2, <4>3, <4>4, <4>6
    <3>6. CASE ~(i \in S /\ k = Len(u[i].kids))
      <4>1. j \notin S
        <5> SUFFICES ASSUME j \in S PROVE FALSE
          OBVIOUS
        <5>1. PICK x \in S \ {p} : LastKid(t, x) = j
          BY <3>4 DEF Spine
        <5>2. Len(t[x].kids) \in 1..Len(t[x].kids) /\ t[x].kids[Len(t[x].kids)] = t[i].kids[k]
          BY <1>6, <5>1 DEF j
        <5>3. OnePlace(t) /\ x \in 1..L
          BY <1>0 DEF Shape
        <5>4. i = x /\ k = Len(t[x].kids)
          BY <3>1, <5>2, <5>3 DEF OnePlace
        <5> QED BY <1>5, <3>6, <5>4
      <4>2. b[All(u, j)] = w[All(t, j)]
        BY <1>8, <3>4, <4>1
      <4>3. b[<<i, k>>] = w[<<i, k>>]
        BY <1>b, <2>0, <3>6
      <4> QED BY <2>1, <3>1, <3>2, <4>2, <4>3
    <3> QED BY <3>5, <3>6
  <2> QED BY <2>2, <2>3
<1>12. Reads(u, b)
  <2> DEFINE F(x) == IF x[2] = 0 THEN u[x[1]].lines ELSE b[<<x[1], x[2] - 1>>] \o b[All(u, u[x[1]].kids[x[2]])]
  <2>1. ASSUME NEW x \in Pairs(u) PROVE b[x] = F(x)
    <3>1. PICK i \in 1..Len(u) : \E k \in 0..Len(u[i].kids) : x = <<i, k>>
      BY <1>1, PairsAre
    <3>2. PICK k \in 0..Len(u[i].kids) : x = <<i, k>>
      BY <3>1
    <3>3. x[1] = i /\ x[2] = k
      BY <3>2
    <3>4. CASE i = L + 1
      <4>1. k = 0
        BY <1>2, <3>4
      <4> QED BY <1>2, <1>n, <3>2, <3>3, <3>4, <4>1
    <3>5. CASE i # L + 1
      <4>1. i \in 1..L
        BY <1>0, <1>1, <3>5
      <4>2. CASE k = 0
        BY <1>10, <3>2, <3>3, <4>1, <4>2
      <4>3. CASE k # 0
        <5>1. k \in 1..Len(u[i].kids)
          BY <1>5, <4>1, <4>3
        <5> QED BY <1>11, <3>2, <3>3, <4>1, <4>3, <5>1
      <4> QED BY <4>2, <4>3
    <3> QED BY <3>4, <3>5
  <2>2. b = [x \in Pairs(u) |-> b[x]]
    BY <1>7
  <2>3. [x \in Pairs(u) |-> b[x]] = [x \in Pairs(u) |-> F(x)]
    <3> HIDE DEF F
    <3> QED BY <2>1
  <2> QED BY <2>2, <2>3 DEF Reads
<1>13. Written(u) = w[All(t, 1)] \o n.lines
  BY <1>0, <1>1, <1>9, <1>12, WrittenIs
<1>14. Written(t) = w[All(t, 1)] /\ w[All(t, 1)] \in Seq(Nat)
  BY <1>0, <1>w, WrittenIs, PairsAre
<1> QED
  BY <1>7, <1>12, <1>13, <1>14

-----------------------------------------------------------------------------
(* Trees that grow *)

Whole(t) == Shape(t) /\ (\E a : Ancs(t, a)) /\ (\E w \in [Pairs(t) -> Seq(Nat)] : Reads(t, w))

Kept(t, u) ==
    /\ Len(u) >= Len(t)
    /\ \A i \in 1..Len(t) : u[i].name = t[i].name /\ u[i].lines = t[i].lines /\ Ancestors(u, i) = Ancestors(t, i)

LEMMA WrittenType ==
    ASSUME NEW t, Whole(t)
    PROVE  Written(t) \in Seq(Nat)
<1>1. PICK w \in [Pairs(t) -> Seq(Nat)] : Reads(t, w)
  BY DEF Whole
<1>2. Shape(t)
  BY DEF Whole
<1>3. 1 \in 1..Len(t)
  BY <1>2, NodeFacts DEF Shape
<1>4. All(t, 1) \in Pairs(t)
  BY <1>2, <1>3, PairsAre
<1>5. w[All(t, 1)] \in Seq(Nat)
  BY <1>1, <1>4
<1> QED
  BY <1>1, <1>2, <1>5, WrittenIs

(* The number the next node gets. *)
Fresh(t) == Len(t) + 1

Leaf(n, name, lines) == n \in NodeType /\ n.kids = <<>> /\ n.name = name /\ n.lines = lines
IsAt(t, i, name, lines) == t[i].name = name /\ t[i].lines = lines
Joined(c, x, y) == c = x \o y

LEMMA AddedTree ==
    ASSUME NEW t, Whole(t), NEW S, NEW p, Spine(t, S, p), NEW n, NEW name, NEW lines, Leaf(n, name, lines)
    PROVE  /\ Whole(Added(t, p, n)) /\ Kept(t, Added(t, p, n)) /\ Len(Added(t, p, n)) = Fresh(t)
           /\ IsAt(Added(t, p, n), Fresh(t), name, lines)
           /\ Joined(Written(Added(t, p, n)), Written(t), lines)
           /\ Ancestors(Added(t, p, n), Fresh(t)) = S
           /\ Spine(Added(t, p, n), S, p) /\ Spine(Added(t, p, n), S \cup {Fresh(t)}, Fresh(t))
<1>n. n \in NodeType /\ n.kids = <<>> /\ n.name = name /\ n.lines = lines
  BY DEF Leaf
<1>0. PICK u : u = Added(t, p, n)
  OBVIOUS
<1>1. Shape(t) /\ Len(t) \in Nat
  BY NodeFacts DEF Whole, Shape
<1>2. PICK a : Ancs(t, a)
  BY DEF Whole
<1>3. PICK w \in [Pairs(t) -> Seq(Nat)] : Reads(t, w)
  BY DEF Whole
<1>4. p \in S /\ p \in 1..Len(t)
  BY DEF Spine
<1>5. Put(t, p, n, u)
  BY <1>n, <1>0, <1>1, <1>4, AddedPut DEF Shape
<1>6. Shape(u)
  BY <1>n, <1>1, <1>4, <1>5, PutShape
<1>7. /\ \E b : Ancs(u, b)
      /\ \A j \in 1..Len(t) : Ancestors(u, j) = Ancestors(t, j)
      /\ Ancestors(u, Len(t) + 1) = {p} \cup Ancestors(t, p)
  BY <1>n, <1>1, <1>2, <1>4, <1>5, PutAncestors
<1>8. Ancestors(t, p) = S \ {p}
  BY <1>1, <1>2, SpineAncestors
<1>9. (\E b \in [Pairs(u) -> Seq(Nat)] : Reads(u, b)) /\ Written(u) = Written(t) \o n.lines
  BY <1>n, <1>1, <1>3, <1>5, PutReads
<1>10. Spine(u, S, p) /\ Spine(u, S \cup {Len(t) + 1}, Len(t) + 1)
  BY <1>n, <1>1, <1>5, SpinePut
<1>11. Whole(u)
  BY <1>6, <1>7, <1>9 DEF Whole
<1>12. Kept(t, u)
  BY <1>n, <1>1, <1>5, <1>7 DEF Kept, Put
<1>13. Ancestors(u, Len(t) + 1) = S
  BY <1>4, <1>7, <1>8
<1>14. Len(u) = Len(t) + 1 /\ u[Len(t) + 1].name = n.name /\ u[Len(t) + 1].lines = n.lines
  BY <1>5 DEF Put
<1> QED
  BY <1>n, <1>0, <1>9, <1>10, <1>11, <1>12, <1>13, <1>14 DEF Fresh, IsAt, Joined

LEMMA KeptTransitive ==
    ASSUME NEW t, NEW u, NEW v, Len(t) \in Nat, Len(u) \in Nat, Len(v) \in Nat, Kept(t, u), Kept(u, v)
    PROVE  Kept(t, v)
<1>1. \A i \in 1..Len(t) : i \in 1..Len(u)
  BY DEF Kept
<1> QED
  BY <1>1 DEF Kept

LEMMA KeptSelf ==
    ASSUME NEW t, Len(t) \in Nat
    PROVE  Kept(t, t)
BY DEF Kept

(* The attribute of a list changes nothing of this. *)
Enumerated(t, l, e, u) == u = [t EXCEPT ![l].enum = @ \/ e]

LEMMA EnumTree ==
    ASSUME NEW t, Whole(t), NEW l \in 1..Len(t), NEW e \in BOOLEAN, NEW u, Enumerated(t, l, e, u)
    PROVE  /\ Whole(u) /\ Kept(t, u) /\ Len(u) = Len(t) /\ Written(u) = Written(t)
           /\ \A S, p : Spine(t, S, p) => Spine(u, S, p)
<1>1. Shape(t) /\ t \in Seq(NodeType) /\ Len(t) \in Nat /\ DOMAIN t = 1..Len(t) /\ t[l] \in NodeType
  BY NodeFacts DEF Whole, Shape
<1>2. PICK m : m = [t[l] EXCEPT !.enum = t[l].enum \/ e]
  OBVIOUS
<1>3. m \in NodeType /\ m.name = t[l].name /\ m.lines = t[l].lines /\ m.kids = t[l].kids
  BY <1>1, <1>2 DEF NodeType
<1>4. u = [t EXCEPT ![l] = m]
  BY <1>1, <1>2 DEF Enumerated
<1>5. u \in Seq(NodeType) /\ Len(u) = Len(t) /\ \A i \in 1..Len(t) : u[i] = IF i = l THEN m ELSE t[i]
  BY <1>1, <1>3, <1>4, ExceptSeq
<1>6. \A i \in 1..Len(t) : u[i].name = t[i].name /\ u[i].lines = t[i].lines /\ u[i].kids = t[i].kids
  BY <1>3, <1>5
<1>7. DOMAIN u = 1..Len(t)
  BY <1>5, NodeFacts
<1>8. Shape(u)
  <2>1. u # <<>> /\ u[1].name = "block"
    <3>1. Len(t) > 0 /\ t[1].name = "block"
      BY <1>1, NodeFacts DEF Shape
    <3> QED BY <1>1, <1>5, <1>6, <3>1, NodeFacts
  <2>2. KidsAbove(u)
    BY <1>1, <1>5, <1>6 DEF Shape, KidsAbove
  <2>3. OnePlace(u)
    <3>1. OnePlace(t)
      BY <1>1 DEF Shape
    <3>2. Len(u) = Len(t)
      BY <1>5
    <3>3. \A i \in 1..Len(t) : \A k : u[i].kids[k] = t[i].kids[k]
      BY <1>6
    <3>4. \A i \in 1..Len(t) : Len(u[i].kids) = Len(t[i].kids)
      BY <1>6
    <3> QED BY ONLY <3>1, <3>2, <3>3, <3>4 DEF OnePlace
  <2>4. SomePlace(u)
    <3>1. SomePlace(t)
      BY <1>1 DEF Shape
    <3>2. Len(u) = Len(t)
      BY <1>5
    <3>3. \A i \in 1..Len(t) : \A k : u[i].kids[k] = t[i].kids[k]
      BY <1>6
    <3>4. \A i \in 1..Len(t) : Len(u[i].kids) = Len(t[i].kids)
      BY <1>6
    <3>5. ASSUME NEW j \in 2..Len(t) PROVE \E i \in 1..Len(t) : \E k \in 1..Len(u[i].kids) : u[i].kids[k] = j
      <4>1. PICK i \in 1..Len(t) : \E k \in 1..Len(t[i].kids) : t[i].kids[k] = j
        BY <3>1 DEF SomePlace
      <4>2. PICK k \in 1..Len(t[i].kids) : t[i].kids[k] = j
        BY <4>1
      <4>3. k \in 1..Len(u[i].kids) /\ u[i].kids[k] = j
        BY <3>3, <3>4, <4>2
      <4> QED BY <4>3
    <3> QED BY ONLY <3>2, <3>5 DEF SomePlace
  <2> QED BY <1>5, <2>1, <2>2, <2>3, <2>4 DEF Shape
<1>9. \A j : Parents(u, j) = Parents(t, j)
  BY <1>1, <1>6, <1>7 DEF Parents
<1>10. PICK a : Ancs(t, a)
  BY DEF Whole
<1>11. Ancs(u, a)
  BY <1>1, <1>7, <1>9, <1>10 DEF Ancs
<1>12. \A i \in 1..Len(t) : Ancestors(u, i) = Ancestors(t, i)
  <2>1. \A i \in 1..Len(t) : Ancestors(t, i) = a[i]
    BY <1>1, <1>10, AncsAre
  <2>2. \A i \in 1..Len(u) : Ancestors(u, i) = a[i]
    BY <1>8, <1>11, AncsAre
  <2> QED BY <1>5, <2>1, <2>2
<1>13. PICK w \in [Pairs(t) -> Seq(Nat)] : Reads(t, w)
  BY DEF Whole
<1>14. Pairs(u) = Pairs(t)
  BY <1>1, <1>6, <1>7 DEF Pairs
<1>15. \A i \in 1..Len(t) : All(u, i) = All(t, i)
  BY <1>6 DEF All
<1>16. Reads(u, w)
  <2> DEFINE F(v, x) == IF x[2] = 0 THEN v[x[1]].lines
                        ELSE w[<<x[1], x[2] - 1>>] \o w[All(v, v[x[1]].kids[x[2]])]
  <2>1. ASSUME NEW x \in Pairs(t) PROVE F(u, x) = F(t, x)
    <3>1. PICK i \in 1..Len(t) : \E k \in 0..Len(t[i].kids) : x = <<i, k>>
      BY <1>1, PairsAre
    <3>2. PICK k \in 0..Len(t[i].kids) : x = <<i, k>>
      BY <3>1
    <3>3. x[1] = i /\ x[2] = k /\ u[i].lines = t[i].lines /\ u[i].kids = t[i].kids
      BY <1>6, <3>2
    <3>4. CASE k = 0
      BY <3>3, <3>4
    <3>5. CASE k # 0
      <4>1. k \in 1..Len(t[i].kids) /\ Len(t[i].kids) \in Nat
        BY <1>1, <3>5, NodeFacts
      <4>2. t[i].kids[k] \in (i + 1)..Len(t)
        BY <1>1, <4>1 DEF Shape, KidsAbove
      <4>3. t[i].kids[k] \in 1..Len(t)
        BY <1>1, <4>2
      <4>4. All(u, t[i].kids[k]) = All(t, t[i].kids[k])
        BY <1>15, <4>3
      <4> QED BY <3>3, <4>4
    <3> QED BY <3>4, <3>5
  <2>2. w = [x \in Pairs(t) |-> F(t, x)]
    BY <1>13 DEF Reads
  <2>3. [x \in Pairs(t) |-> F(t, x)] = [x \in Pairs(u) |-> F(u, x)]
    <3> HIDE DEF F
    <3> QED BY <1>14, <2>1
  <2> HIDE DEF F
  <2>4. w = [x \in Pairs(u) |-> F(u, x)]
    BY <2>2, <2>3
  <2> QED BY <2>4 DEF Reads, F
<1>17. Written(u) = Written(t)
  <2>1. Written(u) = w[All(u, 1)] /\ Written(t) = w[All(t, 1)]
    BY <1>1, <1>8, <1>13, <1>16, WrittenIs
  <2>2. 1 \in 1..Len(t)
    BY <1>1, NodeFacts DEF Shape
  <2> QED BY <1>15, <2>1, <2>2
<1>18. Whole(u)
  BY <1>8, <1>11, <1>13, <1>14, <1>16 DEF Whole
<1>19. \A i \in 1..Len(t) : LastKid(u, i) = LastKid(t, i)
  BY <1>6 DEF LastKid
<1>20. ASSUME NEW S, NEW p, Spine(t, S, p) PROVE Spine(u, S, p)
  <2>1. \A i \in S : LastKid(u, i) = LastKid(t, i)
    BY <1>19, <1>20 DEF Spine
  <2> QED BY <1>5, <1>20, <2>1 DEF Spine
<1>21. Kept(t, u)
  <2>1. Len(u) >= Len(t)
    BY <1>1, <1>5
  <2> QED BY <1>6, <1>12, <2>1 DEF Kept
<1> QED
  BY <1>5, <1>17, <1>18, <1>20, <1>21

LEMMA RootTree ==
    ASSUME NEW t, t = <<Node("block", <<>>)>>
    PROVE  Whole(t) /\ Written(t) = <<>> /\ Len(t) = 1 /\ t[1].name = "block" /\ t[1].lines = <<>>
<1>1. Node("block", <<>>) \in NodeType /\ Node("block", <<>>).kids = <<>> /\ Node("block", <<>>).lines = <<>>
      /\ Node("block", <<>>).name = "block"
  BY DEF Node, NodeType, Names
<1>2. /\ t \in Seq(NodeType) /\ Len(t) = 1 /\ t[1] = Node("block", <<>>) /\ t # <<>> /\ DOMAIN t = {1}
      /\ 1..Len(t) = {1}
  <2>1. t \in Seq(NodeType) /\ Len(t) = 1 /\ t[1] = Node("block", <<>>)
    BY <1>1
  <2>2. t # <<>> /\ DOMAIN t = 1..1 /\ 1..1 = {1}
    BY <2>1, NodeFacts
  <2> QED BY <2>1, <2>2
<1>3. Len(t[1].kids) = 0 /\ 1..Len(t[1].kids) = {} /\ 0..Len(t[1].kids) = {0}
  BY <1>1, <1>2, EmptySeq
<1>4. Shape(t)
  <2>1. KidsAbove(t)
    BY <1>2, <1>3 DEF KidsAbove
  <2>2. OnePlace(t)
    BY <1>2, <1>3 DEF OnePlace
  <2>3. SomePlace(t)
    BY <1>2 DEF SomePlace
  <2> QED BY <1>1, <1>2, <2>1, <2>2, <2>3 DEF Shape
<1>5. Ancs(t, [j \in {1} |-> {}])
  <2>1. Parents(t, 1) = {}
    BY <1>4, ParentsAre
  <2> QED BY <1>2, <2>1 DEF Ancs
<1>6. Pairs(t) = {<<1, 0>>}
  BY <1>2, <1>3 DEF Pairs
<1> DEFINE w == [x \in {<<1, 0>>} |-> <<>>]
<1>7. w \in [Pairs(t) -> Seq(Nat)] /\ Reads(t, w)
  BY <1>1, <1>2, <1>6 DEF Reads
<1>8. Written(t) = <<>>
  <2>1. Written(t) = w[All(t, 1)]
    <3> HIDE DEF w
    <3> QED BY <1>4, <1>7, WrittenIs
  <2> QED BY <1>3, <2>1 DEF All
<1> QED
  BY <1>1, <1>2, <1>4, <1>5, <1>7, <1>8 DEF Whole

-----------------------------------------------------------------------------
(* Chains of last nodes *)

IsChain(t, i, s) ==
    /\ s \in Seq(1..Len(t)) /\ Len(s) > 0 /\ s[1] = i
    /\ \A k \in 1..(Len(s) - 1) : s[k + 1] = LastKid(t, s[k]) /\ s[k + 1] # 0
    /\ LastKid(t, s[Len(s)]) = 0

LEMMA ConsFacts ==
    ASSUME NEW S, NEW x \in S, NEW t \in Seq(S), NEW c, c = <<x>> \o t
    PROVE  /\ c \in Seq(S) /\ Len(c) = Len(t) + 1 /\ Len(t) \in Nat
           /\ c[1] = x /\ \A i \in 1..Len(t) : c[i + 1] = t[i]
<1>1. <<x>> \in Seq(S) /\ Len(<<x>>) = 1 /\ <<x>>[1] = x
  OBVIOUS
<1>2. /\ c \in Seq(S) /\ Len(c) = Len(<<x>>) + Len(t) /\ Len(t) \in Nat
      /\ (\A i \in 1..Len(<<x>>) : c[i] = <<x>>[i]) /\ (\A i \in 1..Len(t) : c[Len(<<x>>) + i] = t[i])
  BY <1>1, ConcatFacts
<1>3. ASSUME NEW i \in 1..Len(t) PROVE c[i + 1] = t[i]
  <2>1. 1 + i = i + 1
    BY <1>2
  <2> QED BY <1>1, <1>2, <2>1
<1> QED
  BY <1>1, <1>2, <1>3

LEMMA ChainCons ==
    ASSUME NEW t, Shape(t), NEW i \in 1..Len(t), LastKid(t, i) # 0, NEW s, IsChain(t, LastKid(t, i), s)
    PROVE  IsChain(t, i, <<i>> \o s)
<1>1. PICK c : c = <<i>> \o s
  OBVIOUS
<1>2. /\ c \in Seq(1..Len(t)) /\ Len(c) = Len(s) + 1 /\ Len(s) \in Nat /\ c[1] = i
      /\ \A k \in 1..Len(s) : c[k + 1] = s[k]
  BY <1>1, ConsFacts DEF IsChain
<1>3. ASSUME NEW k \in 1..(Len(c) - 1) PROVE c[k + 1] = LastKid(t, c[k]) /\ c[k + 1] # 0
  <2>1. k \in 1..Len(s)
    BY <1>2
  <2>2. CASE k = 1
    BY <1>2, <2>1, <2>2 DEF IsChain
  <2>3. CASE k # 1
    <3>1. PICK l : l = k - 1
      OBVIOUS
    <3>2. l \in 1..(Len(s) - 1) /\ l + 1 = k /\ l \in 1..Len(s)
      BY <1>2, <2>1, <2>3, <3>1
    <3>3. c[k + 1] = s[k] /\ c[k] = s[l] /\ s[k] = LastKid(t, s[l]) /\ s[k] # 0
      BY <1>2, <2>1, <3>2 DEF IsChain
    <3> QED BY <3>3
  <2> QED BY <2>2, <2>3
<1>4. c[Len(c)] = s[Len(s)]
  <2>1. Len(s) \in 1..Len(s)
    BY <1>2 DEF IsChain
  <2> QED BY <1>2, <2>1
<1>5. LastKid(t, c[Len(c)]) = 0 /\ Len(c) > 0
  BY <1>2, <1>4 DEF IsChain
<1> QED
  BY <1>1, <1>2, <1>3, <1>5 DEF IsChain

LEMMA ChainOne ==
    ASSUME NEW t, NEW i \in 1..Len(t), LastKid(t, i) = 0
    PROVE  IsChain(t, i, <<i>>)
<1>1. PICK s : s = <<i>>
  OBVIOUS
<1>2. s \in Seq(1..Len(t)) /\ Len(s) = 1 /\ s[1] = i
  BY <1>1
<1> QED
  BY <1>1, <1>2 DEF IsChain

ChainStep(t, c, j) == IF LastKid(t, j) = 0 THEN <<j>> ELSE <<j>> \o c[LastKid(t, j)]
Chains(t, c) == c = [j \in DOMAIN t |-> ChainStep(t, c, j)]

LEMMA ChainsExist ==
    ASSUME NEW t, Shape(t)
    PROVE  \E c : Chains(t, c)
<1> DEFINE L == Len(t)
           Good(n) == \E g : /\ g = [j \in 1..L |-> g[j]]
                             /\ \A j \in 1..L : L - n < j => g[j] = ChainStep(t, g, j)
           B == {n \in 0..L : ~Good(n)}
<1>1. L \in Nat /\ DOMAIN t = 1..L
  BY NodeFacts DEF Shape
<1>2. Good(0)
  <2> DEFINE g == [j \in 1..L |-> <<>>]
  <2>1. g = [j \in 1..L |-> g[j]]
    OBVIOUS
  <2>2. \A j \in 1..L : ~(L - 0 < j)
    BY <1>1
  <2> HIDE DEF g
  <2> QED BY <2>1, <2>2
<1>3. ASSUME NEW n \in 0..L, n # L, Good(n) PROVE Good(n + 1)
  <2>1. PICK g : g = [j \in 1..L |-> g[j]] /\ \A j \in 1..L : L - n < j => g[j] = ChainStep(t, g, j)
    BY <1>3
  <2>2. PICK m : m = L - n
    OBVIOUS
  <2>3. m \in 1..L /\ L - (n + 1) = m - 1
    BY <1>1, <1>3, <2>2
  <2> DEFINE h == [j \in 1..L |-> IF j = m THEN ChainStep(t, g, m) ELSE g[j]]
  <2>4. h = [j \in 1..L |-> h[j]]
    OBVIOUS
  <2>5. ASSUME NEW j \in 1..L, m <= j PROVE ChainStep(t, h, j) = ChainStep(t, g, j)
    <3>1. CASE LastKid(t, j) = 0
      BY <3>1 DEF ChainStep
    <3>2. CASE LastKid(t, j) # 0
      <4>1. LastKid(t, j) \in (j + 1)..L
        BY <3>2, LastKidIs
      <4>2. LastKid(t, j) \in 1..L /\ LastKid(t, j) # m
        BY <1>1, <2>3, <2>5, <4>1
      <4>3. h[LastKid(t, j)] = g[LastKid(t, j)]
        BY <4>2
      <4> QED BY <4>3 DEF ChainStep
    <3> QED BY <3>1, <3>2
  <2>6. ASSUME NEW j \in 1..L, m - 1 < j PROVE h[j] = ChainStep(t, h, j)
    <3>1. m <= j
      BY <2>3, <2>6
    <3>2. CASE j = m
      BY <2>5, <3>1, <3>2
    <3>3. CASE j # m
      <4>1. L - n < j
        BY <2>2, <2>3, <3>1, <3>3
      <4>2. h[j] = g[j]
        BY <3>3
      <4> HIDE DEF h
      <4> QED BY <2>1, <2>5, <3>1, <4>1, <4>2
    <3> QED BY <3>2, <3>3
  <2> HIDE DEF h
  <2> QED BY <2>3, <2>4, <2>6
<1>4. Good(L)
  <2> HIDE DEF Good
  <2>1. B = {}
    <3> SUFFICES ASSUME B # {} PROVE FALSE
      OBVIOUS
    <3>1. B \in SUBSET Nat
      BY <1>1
    <3>2. PICK n \in B : \A k \in B : n <= k
      <4> HIDE DEF B
      <4> QED BY <3>1, LeastNat
    <3>3. n \in 0..L /\ n # 0
      BY <1>2, <3>2
    <3>4. n - 1 \in 0..L /\ n - 1 # L /\ (n - 1) + 1 = n /\ ~(n <= n - 1)
      BY <1>1, <3>3
    <3>5. n - 1 \notin B
      <4> HIDE DEF B
      <4> QED BY <3>2, <3>4
    <3>6. Good(n - 1)
      BY <3>4, <3>5
    <3>7. Good((n - 1) + 1)
      BY <1>3, <3>4, <3>6
    <3> QED BY <3>2, <3>4, <3>7
  <2> QED BY <1>1, <2>1
<1>5. PICK g : g = [j \in 1..L |-> g[j]] /\ \A j \in 1..L : L - L < j => g[j] = ChainStep(t, g, j)
  BY <1>4
<1>6. \A j \in 1..L : g[j] = ChainStep(t, g, j)
  BY <1>1, <1>5
<1>7. [j \in 1..L |-> g[j]] = [j \in 1..L |-> ChainStep(t, g, j)]
  BY <1>6
<1> QED
  BY <1>1, <1>5, <1>7 DEF Chains

LEMMA ChainIs ==
    ASSUME NEW t, Shape(t), NEW i \in 1..Len(t)
    PROVE  IsChain(t, i, Chain(t, i))
<1> DEFINE L == Len(t)
           c == CHOOSE b : Chains(t, b)
           B == {j \in 1..L : ~IsChain(t, j, c[j])}
<1>1. L \in Nat /\ DOMAIN t = 1..L
  BY NodeFacts DEF Shape
<1>2. Chains(t, c)
  BY ChainsExist
<1>3. Chain(t, i) = c[i]
  BY DEF Chain, Chains, ChainStep
<1> HIDE DEF c
<1>4. B = {}
  <2> SUFFICES ASSUME B # {} PROVE FALSE
    OBVIOUS
  <2>1. B \in SUBSET (0..L)
    BY <1>1
  <2>2. PICK j \in B : \A k \in B : j >= k
    <3> HIDE DEF B
    <3> QED BY <1>1, <2>1, MostFacts
  <2>3. j \in 1..L /\ c[j] = ChainStep(t, c, j)
    BY <1>1, <1>2, <2>2 DEF Chains
  <2>4. CASE LastKid(t, j) = 0
    BY <2>2, <2>3, <2>4, ChainOne DEF ChainStep
  <2>5. CASE LastKid(t, j) # 0
    <3>1. LastKid(t, j) \in (j + 1)..L
      BY <2>3, <2>5, LastKidIs
    <3>2. LastKid(t, j) \in 1..L /\ LastKid(t, j) \notin B
      <4>1. LastKid(t, j) \in 1..L /\ ~(j >= LastKid(t, j))
        BY <1>1, <2>3, <3>1
      <4> HIDE DEF B
      <4> QED BY <2>2, <4>1
    <3>3. IsChain(t, LastKid(t, j), c[LastKid(t, j)])
      BY <3>2
    <3>4. IsChain(t, j, <<j>> \o c[LastKid(t, j)])
      BY <2>3, <2>5, <3>3, ChainCons
    <3> QED BY <2>2, <2>3, <2>5, <3>4 DEF ChainStep
  <2> QED BY <2>4, <2>5
<1> QED
  BY <1>3, <1>4

-----------------------------------------------------------------------------
(* Nodes of a name on the way from the root *)

Named(t, R, name) == {a \in R : t[a].name = name}

LEMMA AddCount ==
    ASSUME NEW R, IsFiniteSet(R), NEW x, x \notin R, NEW Q, Q = R \/ Q = R \cup {x}
    PROVE  /\ IsFiniteSet(Q) /\ Cardinality(R) \in Nat
           /\ Q = R => Cardinality(Q) = Cardinality(R)
           /\ x \in Q => Cardinality(Q) = Cardinality(R) + 1
<1>1. Cardinality(R) \in Nat
  BY FS_CardinalityType
<1>2. CASE Q = R
  BY <1>1, <1>2
<1>3. CASE Q = R \cup {x}
  BY <1>1, <1>3, FS_AddElement
<1> QED
  BY <1>2, <1>3

LEMMA NamedAdd ==
    ASSUME NEW t, NEW R, IsFiniteSet(R), NEW x, x \notin R, NEW name
    PROVE  /\ IsFiniteSet(Named(t, R, name)) /\ Cardinality(Named(t, R, name)) \in Nat
           /\ Cardinality(Named(t, R \cup {x}, name)) =
                  Cardinality(Named(t, R, name)) + IF t[x].name = name THEN 1 ELSE 0
<1>1. Named(t, R, name) \subseteq R
  BY DEF Named
<1>2. IsFiniteSet(Named(t, R, name))
  BY <1>1, FS_Subset
<1>3. CASE t[x].name = name
  <2>1. Named(t, R \cup {x}, name) = Named(t, R, name) \cup {x} /\ x \notin Named(t, R, name)
    BY <1>3 DEF Named
  <2>2. PICK Q : Q = Named(t, R, name) \cup {x}
    OBVIOUS
  <2>3. PICK P : P = Named(t, R, name)
    OBVIOUS
  <2>4. IsFiniteSet(P) /\ x \notin P /\ Q = P \cup {x} /\ x \in Q
    BY <1>2, <2>1, <2>2, <2>3
  <2>5. Cardinality(Q) = Cardinality(P) + 1 /\ Cardinality(P) \in Nat
    BY <2>4, AddCount
  <2> QED BY <1>2, <1>3, <2>1, <2>2, <2>3, <2>5
<1>4. CASE t[x].name # name
  <2>1. Named(t, R \cup {x}, name) = Named(t, R, name) /\ x \notin Named(t, R, name)
    BY <1>4 DEF Named
  <2>2. Cardinality(Named(t, R, name)) \in Nat
    BY <1>2, FS_CardinalityType
  <2> QED BY <1>2, <1>4, <2>1, <2>2
<1> QED
  BY <1>2, <1>3, <1>4, FS_CardinalityType

SpineTo(S, c, k) == S \cup {c[j] : j \in 1..k}
ChainNamed(t, c, k, name) == {j \in 2..k : t[c[j]].name = name}

LEMMA SpineFinite ==
    ASSUME NEW t, Shape(t), NEW S, NEW p, Spine(t, S, p)
    PROVE  IsFiniteSet(S)
<1>1. S \subseteq 1..Len(t) /\ Len(t) \in Nat
  BY NodeFacts DEF Shape, Spine
<1> QED
  <2>1. IsFiniteSet(1..Len(t))
    BY <1>1, FS_Interval
  <2> QED BY <1>1, <2>1, FS_Subset

LEMMA ChainSpine ==
    ASSUME NEW t, Shape(t), NEW S, NEW i, Spine(t, S, i), NEW c, IsChain(t, i, c), NEW name
    PROVE  \A k \in 1..Len(c) :
              /\ Spine(t, SpineTo(S, c, k), c[k])
              /\ IsFiniteSet(ChainNamed(t, c, k, name))
              /\ Cardinality(ChainNamed(t, c, k, name)) \in Nat
              /\ Cardinality(Named(t, SpineTo(S, c, k), name)) =
                     Cardinality(Named(t, S, name)) + Cardinality(ChainNamed(t, c, k, name))
<1> DEFINE Good(k) ==
              /\ Spine(t, SpineTo(S, c, k), c[k])
              /\ IsFiniteSet(ChainNamed(t, c, k, name))
              /\ Cardinality(ChainNamed(t, c, k, name)) \in Nat
              /\ Cardinality(Named(t, SpineTo(S, c, k), name)) =
                     Cardinality(Named(t, S, name)) + Cardinality(ChainNamed(t, c, k, name))
           B == {k \in 1..Len(c) : ~Good(k)}
<1>1. /\ Len(c) \in Nat /\ Len(c) > 0 /\ c[1] = i /\ \A k \in 1..Len(c) : c[k] \in 1..Len(t)
      /\ \A k \in 1..(Len(c) - 1) : c[k + 1] = LastKid(t, c[k]) /\ c[k + 1] # 0
  BY SeqFacts DEF IsChain
<1>2. IsFiniteSet(S) /\ i \in S /\ Len(t) \in Nat
  BY SpineFinite, NodeFacts DEF Spine, Shape
<1>3. Cardinality(Named(t, S, name)) \in Nat
  <2>1. Named(t, S, name) \subseteq S
    BY DEF Named
  <2> QED BY <1>2, <2>1, FS_Subset, FS_CardinalityType
<1>4. Good(1)
  <2>1. SpineTo(S, c, 1) = S
    <3>1. \A j \in 1..1 : c[j] = i
      BY <1>1
    <3> QED BY <1>2, <3>1 DEF SpineTo
  <2>2. ChainNamed(t, c, 1, name) = {}
    BY DEF ChainNamed
  <2>3. IsFiniteSet({}) /\ Cardinality({}) = 0
    BY FS_EmptySet
  <2>4. Cardinality(Named(t, S, name)) = Cardinality(Named(t, S, name)) + 0
    BY <1>3
  <2>5. Spine(t, SpineTo(S, c, 1), c[1])
    BY <1>1, <2>1
  <2>6. Cardinality(ChainNamed(t, c, 1, name)) = 0 /\ 0 \in Nat /\ IsFiniteSet(ChainNamed(t, c, 1, name))
    BY <2>2, <2>3
  <2>7. Cardinality(Named(t, SpineTo(S, c, 1), name)) =
                     Cardinality(Named(t, S, name)) + Cardinality(ChainNamed(t, c, 1, name))
    BY <2>1, <2>4, <2>6
  <2> QED BY <2>5, <2>6, <2>7
<1>5. ASSUME NEW k \in 1..(Len(c) - 1), Good(k) PROVE Good(k + 1)
  <2>1. k \in 1..Len(c) /\ k + 1 \in 1..Len(c) /\ k \in Nat
    BY <1>1
  <2>2. PICK R : R = SpineTo(S, c, k)
    OBVIOUS
  <2>3. PICK x : x = c[k + 1]
    OBVIOUS
  <2>4. Spine(t, R, c[k]) /\ LastKid(t, c[k]) = x /\ x # 0
    BY <1>1, <1>5, <2>2, <2>3
  <2>5. SpineTo(S, c, k + 1) = R \cup {x}
    <3>1. \A j \in 1..(k + 1) : j \in 1..k \/ j = k + 1
      BY <2>1
    <3>2. \A j \in 1..k : j \in 1..(k + 1)
      BY <2>1
    <3>3. k + 1 \in 1..(k + 1)
      BY <2>1
    <3> QED BY <2>2, <2>3, <3>1, <3>2, <3>3 DEF SpineTo
  <2>6. Spine(t, R \cup {x}, x)
    BY <2>4, SpineDown
  <2>7. IsFiniteSet(R)
    BY <2>4, SpineFinite
  <2>8. x \notin R
    <3>1. \A r \in R : r <= c[k] /\ r \in 1..Len(t)
      BY <2>4 DEF Spine
    <3>2. x \in (c[k] + 1)..Len(t) /\ c[k] \in 1..Len(t)
      BY <1>1, <2>1, <2>4, LastKidIs
    <3>3. ~(x <= c[k])
      BY <1>2, <3>2
    <3> QED BY <3>1, <3>3
  <2>9. Cardinality(Named(t, R \cup {x}, name)) = Cardinality(Named(t, R, name)) + IF t[x].name = name THEN 1 ELSE 0
    BY <2>7, <2>8, NamedAdd
  <2>10. PICK D : D = ChainNamed(t, c, k, name)
    OBVIOUS
  <2>11. PICK E : E = ChainNamed(t, c, k + 1, name)
    OBVIOUS
  <2>12. k + 1 \notin D /\ IsFiniteSet(D) /\ Cardinality(D) \in Nat
    BY <1>5, <2>1, <2>10 DEF ChainNamed
  <2>13. E = IF t[x].name = name THEN D \cup {k + 1} ELSE D
    <3>1. 2..(k + 1) = (2..k) \cup {k + 1}
      BY <2>1
    <3> QED BY <2>3, <2>10, <2>11, <3>1 DEF ChainNamed
  <2>14. IsFiniteSet(E) /\ Cardinality(E) = Cardinality(D) + IF t[x].name = name THEN 1 ELSE 0
    <3>1. CASE t[x].name = name
      BY <2>12, <2>13, <3>1, AddCount
    <3>2. CASE t[x].name # name
      BY <2>12, <2>13, <3>2
    <3> QED BY <3>1, <3>2
  <2>15. Cardinality(Named(t, R, name)) = Cardinality(Named(t, S, name)) + Cardinality(D)
    BY <1>5, <2>2, <2>10
  <2>16. PICK z : z = IF t[x].name = name THEN 1 ELSE 0
    OBVIOUS
  <2>17. z \in Nat
    BY <2>16
  <2>18. Cardinality(E) \in Nat /\ Cardinality(Named(t, R \cup {x}, name)) = Cardinality(Named(t, S, name)) + Cardinality(E)
    BY <1>3, <2>9, <2>12, <2>14, <2>15, <2>16, <2>17
  <2> QED BY <2>3, <2>5, <2>6, <2>11, <2>14, <2>18
<1> HIDE DEF Good
<1>6. B = {}
  <2> SUFFICES ASSUME B # {} PROVE FALSE
    OBVIOUS
  <2>1. B \in SUBSET Nat
    BY <1>1
  <2>2. PICK k \in B : \A l \in B : k <= l
    <3> HIDE DEF B
    <3> QED BY <2>1, LeastNat
  <2>3. k \in 1..Len(c) /\ k # 1
    BY <1>4, <2>2
  <2>4. PICK l : l = k - 1
    OBVIOUS
  <2>5. l \in 1..(Len(c) - 1) /\ l \in 1..Len(c) /\ l + 1 = k /\ ~(k <= l)
    BY <1>1, <2>3, <2>4
  <2>6. l \notin B
    <3> HIDE DEF B
    <3> QED BY <2>2, <2>5
  <2>7. Good(l)
    BY <2>5, <2>6
  <2>8. Good(l + 1)
    BY <1>5, <2>5, <2>7
  <2> QED BY <2>2, <2>5, <2>8
<1> QED
  BY <1>6 DEF Good

-----------------------------------------------------------------------------
(* Missing sections and lists *)

FillAt(t, p, name, g, j) == IF j = 0 THEN t ELSE Added(g[j - 1], IF j = 1 THEN p ELSE Len(g[j - 1]), Node(name, <<>>))
Fills(t, p, name, d, g) == g = [j \in 0..d |-> FillAt(t, p, name, g, j)]

LEMMA FillsExist ==
    ASSUME NEW t, NEW p, NEW name, NEW d \in Nat
    PROVE  \E g : Fills(t, p, name, d, g)
<1> DEFINE Good(n) == \E g : Fills(t, p, name, n, g)
           B == {n \in 0..d : ~Good(n)}
<1>1. Good(0)
  <2> DEFINE g == [j \in 0..0 |-> t]
  <2>1. [j \in 0..0 |-> FillAt(t, p, name, g, j)] = g
    BY DEF FillAt
  <2> HIDE DEF g
  <2> QED BY <2>1 DEF Fills
<1>2. ASSUME NEW n \in 0..d, Good(n) PROVE Good(n + 1)
  <2>1. PICK g : Fills(t, p, name, n, g)
    BY <1>2
  <2> DEFINE h == [j \in 0..(n + 1) |-> IF j = n + 1 THEN FillAt(t, p, name, g, j) ELSE g[j]]
  <2>2. ASSUME NEW j \in 0..(n + 1) PROVE h[j] = FillAt(t, p, name, h, j)
    <3>1. CASE j = 0
      <4>1. 0 \in 0..n /\ 0 \in 0..(n + 1) /\ 0 # n + 1
        OBVIOUS
      <4>2. g[0] = t
        BY <2>1, <4>1 DEF Fills, FillAt
      <4> QED BY <3>1, <4>1, <4>2 DEF FillAt
    <3>2. CASE j # 0
      <4>1. j - 1 \in 0..(n + 1) /\ j - 1 # n + 1
        BY <3>2
      <4>2. h[j - 1] = g[j - 1]
        BY <4>1
      <4>3. FillAt(t, p, name, h, j) = FillAt(t, p, name, g, j)
        <5> HIDE DEF h
        <5> QED BY <3>2, <4>2 DEF FillAt
      <4>4. h[j] = FillAt(t, p, name, g, j)
        <5>1. CASE j = n + 1
          BY <5>1
        <5>2. CASE j # n + 1
          <6>1. j \in 0..n
            BY <5>2
          <6>2. g[j] = FillAt(t, p, name, g, j)
            BY <2>1, <6>1 DEF Fills
          <6> QED BY <5>2, <6>2
        <5> QED BY <5>1, <5>2
      <4> HIDE DEF h
      <4> QED BY <4>3, <4>4
    <3> QED BY <3>1, <3>2
  <2>3. h = [j \in 0..(n + 1) |-> h[j]]
    OBVIOUS
  <2> HIDE DEF h
  <2>4. [j \in 0..(n + 1) |-> h[j]] = [j \in 0..(n + 1) |-> FillAt(t, p, name, h, j)]
    BY <2>2
  <2> QED BY <2>3, <2>4 DEF Fills
<1> HIDE DEF Good
<1>3. B = {}
  <2> SUFFICES ASSUME B # {} PROVE FALSE
    OBVIOUS
  <2>1. B \in SUBSET Nat
    OBVIOUS
  <2>2. PICK n \in B : \A k \in B : n <= k
    <3> HIDE DEF B
    <3> QED BY <2>1, LeastNat
  <2>3. n \in 0..d /\ n # 0
    BY <1>1, <2>2
  <2>4. n - 1 \in 0..d /\ (n - 1) + 1 = n /\ ~(n <= n - 1)
    BY <2>3
  <2>5. n - 1 \notin B
    <3> HIDE DEF B
    <3> QED BY <2>2, <2>4
  <2>6. Good((n - 1) + 1)
    BY <1>2, <2>4, <2>5
  <2> QED BY <2>2, <2>4, <2>6
<1> QED
  BY <1>3 DEF Good

FilledTo(t, S, p, name, d, u) ==
    /\ Whole(u) /\ Kept(t, u) /\ Len(u) = Len(t) + d /\ Written(u) = Written(t)
    /\ d = 0 => u = t
    /\ Spine(u, S \cup ((Len(t) + 1)..(Len(t) + d)), IF d = 0 THEN p ELSE Len(t) + d)
    /\ \A i \in (Len(t) + 1)..(Len(t) + d) :
          u[i].name = name /\ u[i].lines = <<>> /\ Ancestors(u, i) = S \cup ((Len(t) + 1)..(i - 1))
    /\ Cardinality(Named(u, S \cup ((Len(t) + 1)..(Len(t) + d)), name)) = Cardinality(Named(t, S, name)) + d

LEMMA FilledIs ==
    ASSUME NEW t, Whole(t), NEW S, NEW p, Spine(t, S, p), NEW name \in Names, NEW d \in Nat
    PROVE  FilledTo(t, S, p, name, d, Filled(t, p, d, name))
<1> DEFINE g == CHOOSE f : Fills(t, p, name, d, f)
           L == Len(t)
           Good(j) == FilledTo(t, S, p, name, j, g[j])
           B == {j \in 0..d : ~Good(j)}
           n == Node(name, <<>>)
<1>1. Fills(t, p, name, d, g)
  BY FillsExist
<1>2. Filled(t, p, d, name) = g[d]
  BY DEF Filled, Fills, FillAt
<1> HIDE DEF g
<1>3. L \in Nat /\ Shape(t) /\ S \subseteq 1..L /\ p \in S
  BY NodeFacts DEF Whole, Shape, Spine
<1>4. IsFiniteSet(S) /\ Cardinality(Named(t, S, name)) \in Nat
  <2>1. IsFiniteSet(S)
    BY <1>3, SpineFinite
  <2>2. Named(t, S, name) \subseteq S
    BY DEF Named
  <2> QED BY <2>1, <2>2, FS_Subset, FS_CardinalityType
<1>n. n \in NodeType /\ n.kids = <<>> /\ n.name = name /\ n.lines = <<>>
  BY DEF Node, NodeType
<1>5. Good(0)
  <2>1. g[0] = t
    BY <1>1 DEF Fills, FillAt
  <2>2. (L + 1)..(L + 0) = {}
    BY <1>3
  <2>3. S \cup ((L + 1)..(L + 0)) = S /\ L + 0 = L
    BY <1>3, <2>2
  <2>4. Kept(t, t)
    BY <1>3, KeptSelf
  <2>5. Cardinality(Named(t, S, name)) = Cardinality(Named(t, S, name)) + 0
    BY <1>4
  <2> QED BY <2>1, <2>2, <2>3, <2>4, <2>5 DEF FilledTo
<1>6. ASSUME NEW j \in 0..d, j # d, Good(j) PROVE Good(j + 1)
  <2>1. PICK u : u = g[j]
    OBVIOUS
  <2>2. PICK v : v = g[j + 1]
    OBVIOUS
  <2>3. PICK q : q = IF j = 0 THEN p ELSE L + j
    OBVIOUS
  <2>4. PICK R : R = S \cup ((L + 1)..(L + j))
    OBVIOUS
  <2>5. /\ Whole(u) /\ Kept(t, u) /\ Len(u) = L + j /\ Written(u) = Written(t) /\ Spine(u, R, q)
        /\ \A i \in (L + 1)..(L + j) :
              u[i].name = name /\ u[i].lines = <<>> /\ Ancestors(u, i) = S \cup ((L + 1)..(i - 1))
        /\ Cardinality(Named(u, R, name)) = Cardinality(Named(t, S, name)) + j
    BY <1>6, <2>1, <2>3, <2>4 DEF FilledTo
  <2>6. v = Added(u, q, n)
    <3>1. j + 1 \in 0..d /\ j + 1 # 0 /\ (j + 1) - 1 = j /\ (j + 1 = 1 <=> j = 0)
      BY <1>6
    <3>2. v = FillAt(t, p, name, g, j + 1)
      BY <1>1, <2>2, <3>1 DEF Fills
    <3> QED BY <2>1, <2>3, <2>5, <3>1, <3>2 DEF FillAt
  <2> HIDE DEF n
  <2>7. /\ Whole(v) /\ Kept(u, v) /\ Len(v) = Len(u) + 1 /\ v[Len(u) + 1].name = name
        /\ v[Len(u) + 1].lines = <<>> /\ Written(v) = Written(u) \o <<>>
        /\ Ancestors(v, Len(u) + 1) = R /\ Spine(v, R \cup {Len(u) + 1}, Len(u) + 1)
    <3>1. Whole(u) /\ Spine(u, R, q)
      BY <2>5
    <3>2. Leaf(n, name, <<>>)
      BY <1>n DEF Leaf
    <3>3. /\ Whole(Added(u, q, n)) /\ Kept(u, Added(u, q, n)) /\ Len(Added(u, q, n)) = Fresh(u)
          /\ IsAt(Added(u, q, n), Fresh(u), name, <<>>)
          /\ Joined(Written(Added(u, q, n)), Written(u), <<>>)
          /\ Ancestors(Added(u, q, n), Fresh(u)) = R
          /\ Spine(Added(u, q, n), R \cup {Fresh(u)}, Fresh(u))
      BY ONLY <3>1, <3>2, AddedTree
    <3> QED BY <2>6, <3>3 DEF IsAt, Fresh, Joined
  <2>8. Len(u) + 1 = L + (j + 1) /\ Len(v) = L + (j + 1) /\ Len(v) \in Nat /\ Len(u) \in Nat
    BY <1>3, <2>5, <2>7
  <2>9. (L + 1)..(L + (j + 1)) = ((L + 1)..(L + j)) \cup {L + (j + 1)}
    BY <1>3
  <2>10. S \cup ((L + 1)..(L + (j + 1))) = R \cup {L + (j + 1)}
    BY <2>4, <2>9
  <2>11. Kept(t, v)
    BY <1>3, <2>5, <2>7, <2>8, KeptTransitive
  <2>12. Written(v) = Written(t)
    <3>1. Written(u) \in Seq(Nat)
      BY <2>5, WrittenType
    <3> QED BY <2>5, <2>7, <3>1, ConcatEmptySeq
  <2>13. Spine(v, R \cup {L + (j + 1)}, L + (j + 1))
    BY <2>7, <2>8
  <2>14. ASSUME NEW i \in (L + 1)..(L + (j + 1))
         PROVE  v[i].name = name /\ v[i].lines = <<>> /\ Ancestors(v, i) = S \cup ((L + 1)..(i - 1))
    <3>1. CASE i = L + (j + 1)
      <4>1. i - 1 = L + j
        BY <1>3, <3>1
      <4> QED BY <2>4, <2>7, <2>8, <3>1, <4>1
    <3>2. CASE i # L + (j + 1)
      <4>1. i \in (L + 1)..(L + j) /\ i \in 1..Len(u)
        <5>1. L \in Nat /\ j \in Nat /\ Len(u) = L + j /\ i \in (L + 1)..(L + (j + 1))
          BY <1>3, <2>5, <2>14
        <5> HIDE DEF L
        <5> QED BY ONLY <3>2, <5>1
      <4> QED BY <2>5, <2>7, <4>1 DEF Kept
    <3> QED BY <3>1, <3>2
  <2>15. R \subseteq 1..Len(u) /\ IsFiniteSet(R)
    BY <2>5, SpineFinite DEF Spine, Whole
  <2>16. L + (j + 1) \notin R
    BY <1>3, <2>8, <2>15
  <2>17. Named(v, R, name) = Named(u, R, name)
    BY <2>7, <2>15 DEF Named, Kept
  <2>18. Cardinality(Named(v, R \cup {L + (j + 1)}, name)) = Cardinality(Named(v, R, name)) + 1
    <3>1. v[L + (j + 1)].name = name
      BY <2>7, <2>8
    <3> QED BY <2>15, <2>16, <3>1, NamedAdd
  <2>19. Cardinality(Named(v, R \cup {L + (j + 1)}, name)) = Cardinality(Named(t, S, name)) + (j + 1)
    BY <1>4, <2>5, <2>17, <2>18
  <2>20. j + 1 # 0
    OBVIOUS
  <2> QED
    BY <2>2, <2>7, <2>8, <2>10, <2>11, <2>12, <2>13, <2>14, <2>19, <2>20 DEF FilledTo
<1> HIDE DEF Good
<1>7. B = {}
  <2> SUFFICES ASSUME B # {} PROVE FALSE
    OBVIOUS
  <2>1. B \in SUBSET Nat
    OBVIOUS
  <2>2. PICK k \in B : \A l \in B : k <= l
    <3> HIDE DEF B
    <3> QED BY <2>1, LeastNat
  <2>3. k \in 0..d /\ k # 0
    BY <1>5, <2>2
  <2>4. k - 1 \in 0..d /\ k - 1 # d /\ (k - 1) + 1 = k /\ ~(k <= k - 1)
    BY <2>3
  <2>5. k - 1 \notin B
    <3> HIDE DEF B
    <3> QED BY <2>2, <2>4
  <2>6. Good((k - 1) + 1)
    BY <1>6, <2>4, <2>5
  <2> QED BY <2>2, <2>4, <2>6
<1>8. d \in 0..d
  OBVIOUS
<1> QED
  BY <1>2, <1>7, <1>8 DEF Good

-----------------------------------------------------------------------------
(* The places of headers and items *)

Placed(t, u, q, S, name, n, R) ==
    /\ Whole(u) /\ Kept(t, u) /\ Written(u) = Written(t) /\ Spine(u, R, q) /\ S \subseteq R
    /\ Cardinality(Named(u, R, name)) = n
    /\ \A i \in (Len(t) + 1)..Len(u) : u[i].name = name /\ S \subseteq Ancestors(u, i)

LEMMA FilledPlaced ==
    ASSUME NEW t, Whole(t), NEW S, NEW p, Spine(t, S, p), NEW name \in Names, NEW d \in Nat,
           NEW u, u = Filled(t, p, d, name), NEW q, q = IF d = 0 THEN p ELSE Len(u),
           NEW R, R = S \cup ((Len(t) + 1)..Len(u)), NEW Q, Q \subseteq S,
           NEW n, n = Cardinality(Named(t, S, name)) + d
    PROVE  Placed(t, u, q, Q, name, n, R)
<1>1. FilledTo(t, S, p, name, d, u)
  BY FilledIs
<1>2. Len(t) \in Nat
  BY NodeFacts DEF Whole, Shape
<1>3. Len(u) = Len(t) + d
  BY <1>1 DEF FilledTo
<1>4. q = IF d = 0 THEN p ELSE Len(t) + d
  BY <1>3
<1>5. R = S \cup ((Len(t) + 1)..(Len(t) + d))
  BY <1>3
<1>6. Whole(u) /\ Kept(t, u) /\ Written(u) = Written(t) /\ Spine(u, R, q)
  BY <1>1, <1>4, <1>5 DEF FilledTo
<1>7. Q \subseteq R
  OBVIOUS
<1>8. Cardinality(Named(u, R, name)) = n
  BY <1>1, <1>5 DEF FilledTo
<1>9. ASSUME NEW i \in (Len(t) + 1)..Len(u) PROVE u[i].name = name /\ Q \subseteq Ancestors(u, i)
  <2>1. i \in (Len(t) + 1)..(Len(t) + d)
    BY <1>3
  <2>2. u[i].name = name /\ Ancestors(u, i) = S \cup ((Len(t) + 1)..(i - 1))
    BY <1>1, <2>1 DEF FilledTo
  <2> QED BY <2>2
<1> QED
  BY <1>6, <1>7, <1>8, <1>9 DEF Placed

HeaderPlaced(t, u, q, d, R) ==
    Placed(t, u, q, {1}, "section", d - 1, R) /\ \A i \in R : u[i].name \in {"block", "section"}

LEMMA HeaderPlace ==
    ASSUME NEW t, Whole(t), NEW d \in Nat, d > 0
    PROVE  \E u, q, R : HeaderParent(t, d) = <<u, q>> /\ HeaderPlaced(t, u, q, d, R)
<1>1. Shape(t) /\ Len(t) \in Nat /\ 1 \in 1..Len(t) /\ t[1].name = "block"
  BY NodeFacts DEF Whole, Shape
<1>2. PICK c : c = Chain(t, 1)
  OBVIOUS
<1>3. IsChain(t, 1, c)
  BY <1>1, <1>2, ChainIs
<1>4. Len(c) \in Nat /\ Len(c) > 0 /\ c[1] = 1
  BY <1>3, SeqFacts DEF IsChain
<1>5. PICK deep : deep = {k \in 1..d : k <= Len(c) /\ \A j \in 2..k : t[c[j]].name = "section"}
  OBVIOUS
<1>6. PICK k : k = Most(deep)
  OBVIOUS
<1>7. k \in deep
  <2>1. 1 \in deep
    BY <1>4, <1>5
  <2>2. deep \in SUBSET (0..d)
    BY <1>5
  <2> QED BY <1>6, <2>1, <2>2, MostFacts
<1>8. k \in 1..d /\ k \in 1..Len(c) /\ \A j \in 2..k : t[c[j]].name = "section"
  BY <1>4, <1>5, <1>7
<1>9. PICK u : u = Filled(t, c[k], d - k, "section")
  OBVIOUS
<1>10. PICK q : q = IF d - k = 0 THEN c[k] ELSE Len(u)
  OBVIOUS
<1>11. HeaderParent(t, d) = <<u, q>>
  <2>1. k = d <=> d - k = 0
    BY <1>8
  <2>2. HeaderParent(t, d) = <<u, IF k = d THEN c[k] ELSE Len(u)>>
    BY <1>2, <1>5, <1>6, <1>9 DEF HeaderParent
  <2> QED BY <1>10, <2>1, <2>2
<1>12. PICK S : S = SpineTo({1}, c, k)
  OBVIOUS
<1>13. /\ Spine(t, S, c[k]) /\ Cardinality(ChainNamed(t, c, k, "section")) \in Nat
       /\ Cardinality(Named(t, S, "section")) = Cardinality(Named(t, {1}, "section")) + Cardinality(ChainNamed(t, c, k, "section"))
  <2>1. Spine(t, {1}, 1)
    BY <1>1, SpineRoot
  <2> QED BY <1>1, <1>3, <1>8, <1>12, <2>1, ChainSpine
<1>14. Cardinality(Named(t, {1}, "section")) = 0
  <2>1. Named(t, {1}, "section") = {}
    BY <1>1 DEF Named
  <2> QED BY <2>1, FS_EmptySet
<1>15. Cardinality(ChainNamed(t, c, k, "section")) = k - 1
  <2>1. ChainNamed(t, c, k, "section") = 2..k
    BY <1>8 DEF ChainNamed
  <2>2. Cardinality(2..k) = IF 2 > k THEN 0 ELSE k - 2 + 1
    BY <1>8, FS_Interval
  <2> QED BY <1>8, <2>1, <2>2
<1>16. d - 1 = Cardinality(Named(t, S, "section")) + (d - k)
  <2>1. Cardinality(Named(t, S, "section")) = 0 + (k - 1)
    BY <1>13, <1>14, <1>15
  <2> QED BY <1>8, <2>1
<1>17. PICK R : R = S \cup ((Len(t) + 1)..Len(u))
  OBVIOUS
<1>18. {1} \subseteq S
  BY <1>12 DEF SpineTo
<1>19. Placed(t, u, q, {1}, "section", d - 1, R)
  <2>1. "section" \in Names /\ d - k \in Nat
    BY <1>8 DEF Names
  <2> QED BY <1>9, <1>10, <1>13, <1>16, <1>17, <1>18, <2>1, FilledPlaced
<1>20. ASSUME NEW i \in R PROVE u[i].name \in {"block", "section"}
  <2>1. CASE i \in S
    <3>1. i \in 1..Len(t)
      BY <1>13, <2>1 DEF Spine
    <3>2. u[i].name = t[i].name
      BY <1>19, <3>1 DEF Placed, Kept
    <3>3. i = 1 \/ \E j \in 2..k : i = c[j]
      <4>1. i \in {1} \/ \E j \in 1..k : i = c[j]
        BY <1>12, <2>1 DEF SpineTo
      <4>2. \A j \in 1..k : j = 1 \/ j \in 2..k
        BY <1>8
      <4> QED BY <1>4, <4>1, <4>2
    <3> QED BY <1>1, <1>8, <3>2, <3>3
  <2>2. CASE i \notin S
    BY <1>17, <1>19, <2>2 DEF Placed
  <2> QED BY <2>1, <2>2
<1> QED
  BY <1>11, <1>19, <1>20 DEF HeaderPlaced

-----------------------------------------------------------------------------
ListsIn(t, c, k) == {j \in 1..k : t[c[j]].name = "list"}

LEMMA ListsInAre ==
    ASSUME NEW t, NEW c, NEW n \in Nat
    PROVE  \A k \in 0..n :
              /\ IsFiniteSet(ListsIn(t, c, k)) /\ Cardinality(ListsIn(t, c, k)) \in Nat
              /\ k = 0 => Cardinality(ListsIn(t, c, k)) = 0
              /\ k > 0 => Cardinality(ListsIn(t, c, k)) <= Cardinality(ListsIn(t, c, k - 1)) + 1
              /\ \A l \in 0..k : Cardinality(ListsIn(t, c, l)) <= Cardinality(ListsIn(t, c, k))
<1>1. ASSUME NEW k \in 0..n
      PROVE  IsFiniteSet(ListsIn(t, c, k)) /\ Cardinality(ListsIn(t, c, k)) \in Nat
  <2>1. IsFiniteSet(1..k)
    BY FS_Interval
  <2>2. ListsIn(t, c, k) \subseteq 1..k
    BY DEF ListsIn
  <2> QED BY <2>1, <2>2, FS_Subset, FS_CardinalityType
<1>2. ASSUME NEW k \in 0..n, k = 0 PROVE Cardinality(ListsIn(t, c, k)) = 0
  <2>1. ListsIn(t, c, k) = {}
    BY <1>2 DEF ListsIn
  <2> QED BY <2>1, FS_EmptySet
<1>3. ASSUME NEW k \in 0..n, k > 0
      PROVE  Cardinality(ListsIn(t, c, k)) <= Cardinality(ListsIn(t, c, k - 1)) + 1
  <2>1. PICK R : R = ListsIn(t, c, k - 1)
    OBVIOUS
  <2>2. PICK Q : Q = ListsIn(t, c, k)
    OBVIOUS
  <2>3. k - 1 \in 0..n
    BY <1>3
  <2>4. IsFiniteSet(R) /\ Cardinality(R) \in Nat
    BY <1>1, <2>1, <2>3
  <2>5. 1..k = (1..(k - 1)) \cup {k} /\ k \notin 1..(k - 1)
    BY <1>3
  <2>6. k \notin R
    BY <2>1, <2>5 DEF ListsIn
  <2>7. Q = R \/ Q = R \cup {k}
    <3>1. CASE t[c[k]].name = "list"
      <4>1. \A j : j \in Q <=> j \in R \/ j = k
        BY <2>1, <2>2, <2>5, <3>1 DEF ListsIn
      <4> QED BY <4>1
    <3>2. CASE t[c[k]].name # "list"
      <4>1. \A j : j \in Q <=> j \in R
        BY <2>1, <2>2, <2>5, <3>2 DEF ListsIn
      <4> QED BY <4>1
    <3> QED BY <3>1, <3>2
  <2>8. /\ Q = R => Cardinality(Q) = Cardinality(R)
        /\ k \in Q => Cardinality(Q) = Cardinality(R) + 1
    BY <2>4, <2>6, <2>7, AddCount
  <2>9. Cardinality(Q) = Cardinality(R) \/ Cardinality(Q) = Cardinality(R) + 1
    <3>1. Q = R \cup {k} => k \in Q
      OBVIOUS
    <3> QED BY <2>7, <2>8, <3>1
  <2>10. Cardinality(Q) <= Cardinality(R) + 1
    BY ONLY <2>4, <2>9
  <2> QED BY <2>1, <2>2, <2>10
<1>4. ASSUME NEW k \in 0..n, NEW l \in 0..k
      PROVE  Cardinality(ListsIn(t, c, l)) <= Cardinality(ListsIn(t, c, k))
  <2>1. ListsIn(t, c, l) \subseteq ListsIn(t, c, k)
    <3>1. 1..l \subseteq 1..k
      OBVIOUS
    <3> QED BY <3>1 DEF ListsIn
  <2> QED BY <1>1, <2>1, FS_Subset
<1> QED
  BY <1>1, <1>2, <1>3, <1>4

LEMMA EnumPlaced ==
    ASSUME NEW t, Len(t) \in Nat, NEW u, NEW q, NEW S, NEW name, NEW n, NEW R, Placed(t, u, q, S, name, n, R),
           NEW e \in BOOLEAN, NEW v, Enumerated(u, q, e, v)
    PROVE  Placed(t, v, q, S, name, n, R)
<1>1. Whole(u) /\ Spine(u, R, q)
  BY DEF Placed
<1>2. Len(u) \in Nat /\ R \subseteq 1..Len(u) /\ q \in 1..Len(u)
  BY <1>1, NodeFacts DEF Whole, Shape, Spine
<1>3. Whole(v) /\ Kept(u, v) /\ Len(v) = Len(u) /\ Written(v) = Written(u) /\ Spine(v, R, q)
  BY <1>1, <1>2, EnumTree
<1>4. Kept(t, v)
  BY <1>2, <1>3, KeptTransitive DEF Placed
<1>5. Named(v, R, name) = Named(u, R, name)
  BY <1>2, <1>3 DEF Named, Kept
<1>6. ASSUME NEW i \in (Len(t) + 1)..Len(v) PROVE v[i].name = name /\ S \subseteq Ancestors(v, i)
  <2>1. i \in (Len(t) + 1)..Len(u) /\ i \in 1..Len(u)
    BY <1>2, <1>3
  <2> QED BY <1>3, <2>1 DEF Placed, Kept
<1> QED
  BY <1>3, <1>4, <1>5, <1>6 DEF Placed

LEMMA ItemPlace ==
    ASSUME NEW t, Whole(t), NEW S, NEW p, Spine(t, S, p), \A i \in S : t[i].name # "list",
           NEW d \in Nat, d > 0, NEW e \in BOOLEAN
    PROVE  \E u, q, R : ItemParent(t, p, d, e) = <<u, q>> /\ Placed(t, u, q, S, "list", d, R)
<1>1. Shape(t) /\ Len(t) \in Nat /\ p \in 1..Len(t) /\ p \in S
  BY NodeFacts DEF Whole, Shape, Spine
<1>2. PICK c : c = Chain(t, p)
  OBVIOUS
<1>3. IsChain(t, p, c)
  BY <1>1, <1>2, ChainIs
<1>4. Len(c) \in Nat /\ Len(c) > 0 /\ c[1] = p
  BY <1>3, SeqFacts DEF IsChain
<1> DEFINE L(k) == Cardinality(ListsIn(t, c, k))
<1>5. \A k \in 0..Len(c) :
              /\ IsFiniteSet(ListsIn(t, c, k)) /\ L(k) \in Nat
              /\ k = 0 => L(k) = 0
              /\ k > 0 => L(k) <= L(k - 1) + 1
              /\ \A l \in 0..k : L(l) <= L(k)
  BY <1>4, ListsInAre
<1>6. PICK seen : seen = {k \in 1..Len(c) : L(k - 1) < d}
  OBVIOUS
<1>7. PICK m : m = Most(seen)
  OBVIOUS
<1>8. PICK lists : lists = {k \in seen : t[c[k]].name \in {"list", "p"}}
  OBVIOUS
<1>9. PICK z : z = IF lists = {} THEN 1 ELSE Most(lists)
  OBVIOUS
<1>10. 1 \in seen
  <2>1. 1 - 1 = 0 /\ 0 \in 0..Len(c) /\ 1 \in 1..Len(c)
    BY <1>4
  <2>2. L(1 - 1) = 0
    BY <1>5, <2>1
  <2> HIDE DEF L
  <2> QED BY <1>6, <2>1, <2>2
<1>11. m \in seen /\ \A k \in seen : m >= k
  <2>1. seen \in SUBSET (0..Len(c))
    BY <1>6
  <2> QED BY <1>4, <1>7, <1>10, <2>1, MostFacts
<1>12. z \in seen /\ \A k \in lists : z >= k
  <2>1. lists \in SUBSET (0..Len(c))
    BY <1>6, <1>8
  <2>2. lists # {} => Most(lists) \in lists /\ \A k \in lists : Most(lists) >= k
    BY <1>4, <2>1, MostFacts
  <2> QED BY <1>8, <1>9, <1>10, <2>2
<1>13. /\ m \in 1..Len(c) /\ z \in 1..Len(c) /\ z <= m /\ m - 1 \in 0..Len(c) /\ m \in 0..Len(c) /\ z \in 0..Len(c)
  BY <1>4, <1>6, <1>11, <1>12
<1>14. L(m - 1) < d
  BY <1>6, <1>11
<1>15. L(m) \in Nat /\ L(m) <= d
  <2>1. L(m) \in Nat /\ L(m - 1) \in Nat /\ L(m) <= L(m - 1) + 1
    BY <1>5, <1>13
  <2> HIDE DEF L
  <2> QED BY <1>14, <2>1
<1>16. ListsIn(t, c, m) = ListsIn(t, c, z)
  <2>1. ASSUME NEW j \in 1..m, t[c[j]].name = "list" PROVE j \in 1..z
    <3>1. j \in 1..Len(c) /\ j - 1 \in 0..(m - 1)
      BY <1>13
    <3>2. L(j - 1) <= L(m - 1) /\ L(j - 1) \in Nat /\ L(m - 1) \in Nat
      <4>1. j - 1 \in 0..Len(c)
        BY <1>13
      <4> QED BY <1>5, <1>13, <3>1, <4>1
    <3>3. L(j - 1) < d
      <4> HIDE DEF L
      <4> QED BY <1>14, <3>2
    <3>4. j \in lists
      BY <1>6, <1>8, <2>1, <3>1, <3>3
    <3> QED BY <1>12, <1>13, <3>4
  <2>2. \A j \in 1..z : j \in 1..m
    BY <1>13
  <2>3. \A j : j \in ListsIn(t, c, m) <=> j \in ListsIn(t, c, z)
    BY <2>1, <2>2 DEF ListsIn
  <2> QED BY <2>3
<1>17. L(z) = L(m)
  BY <1>16
<1>18. PICK g : g = d - L(m)
  OBVIOUS
<1>19. g \in Nat /\ d = L(z) + g /\ L(z) \in Nat
  <2> HIDE DEF L
  <2> QED BY <1>15, <1>17, <1>18
<1>20. PICK T : T = SpineTo(S, c, z)
  OBVIOUS
<1>21. /\ Spine(t, T, c[z])
       /\ Cardinality(Named(t, T, "list")) = Cardinality(Named(t, S, "list")) + Cardinality(ChainNamed(t, c, z, "list"))
  BY <1>1, <1>3, <1>13, <1>20, ChainSpine
<1>22. Cardinality(Named(t, S, "list")) = 0
  <2>1. Named(t, S, "list") = {}
    BY DEF Named
  <2> QED BY <2>1, FS_EmptySet
<1>23. ChainNamed(t, c, z, "list") = ListsIn(t, c, z)
  <2>1. \A j \in 1..z : j = 1 \/ j \in 2..z
    BY <1>13
  <2>2. \A j \in 2..z : j \in 1..z
    BY <1>13
  <2>3. t[c[1]].name # "list"
    BY <1>1, <1>4
  <2>4. \A j : j \in ChainNamed(t, c, z, "list") <=> j \in ListsIn(t, c, z)
    BY <2>1, <2>2, <2>3 DEF ChainNamed, ListsIn
  <2> QED BY <2>4
<1>24. d = Cardinality(Named(t, T, "list")) + g
  <2>1. Cardinality(Named(t, T, "list")) = 0 + L(z)
    BY <1>21, <1>22, <1>23
  <2> HIDE DEF L
  <2> QED BY <1>19, <2>1
<1>25. PICK f : f = Filled(t, c[z], g, "list")
  OBVIOUS
<1>26. PICK q : q = IF g = 0 THEN c[z] ELSE Len(f)
  OBVIOUS
<1>27. PICK u : u = [f EXCEPT ![q].enum = @ \/ e]
  OBVIOUS
<1>28. ItemParent(t, p, d, e) = <<u, q>>
  <2>1. c[z] = IF lists = {} THEN p ELSE c[Most(lists)]
    BY <1>4, <1>9
  <2>2. seen = {k \in 1..Len(c) : Cardinality({j \in 1..(k - 1) : t[c[j]].name = "list"}) < d}
    BY <1>6 DEF ListsIn
  <2>3. g = d - Cardinality({j \in 1..m : t[c[j]].name = "list"})
    BY <1>18 DEF ListsIn
  <2> HIDE DEF L
  <2> QED BY ONLY <1>2, <1>7, <1>8, <1>25, <1>26, <1>27, <2>1, <2>2, <2>3, ZenonT(60) DEF ItemParent
<1>29. PICK R : R = T \cup ((Len(t) + 1)..Len(f))
  OBVIOUS
<1>30. Placed(t, f, q, S, "list", d, R)
  <2>1. "list" \in Names /\ S \subseteq T
    BY <1>20 DEF Names, SpineTo
  <2> QED BY <1>19, <1>21, <1>24, <1>25, <1>26, <1>29, <2>1, FilledPlaced
<1>31. Placed(t, u, q, S, "list", d, R)
  BY <1>1, <1>27, <1>30, EnumPlaced DEF Enumerated
<1> QED
  BY <1>28, <1>31

-----------------------------------------------------------------------------
(* The elements of a text *)

Reading == text \in Seq(SourceLine) /\ size \in 1..Len(text) /\ pos \in Nat /\ pos > 0

LEMMA TextFacts ==
    ASSUME Reading
    PROVE  /\ Len(text) \in Nat /\ DOMAIN text = 1..Len(text)
           /\ \A i \in 1..Len(text) : text[i] \in SourceLine
BY SeqFacts DEF Reading

(* The text ends with its size, or with the memory once its end is passed. *)
LEMMA LastLineFacts ==
    ASSUME Reading
    PROVE  /\ LastLine \in Nat /\ size \in Nat /\ size > 0 /\ size <= LastLine /\ LastLine <= Len(text)
           /\ pos <= size + 1 => LastLine = size
           /\ ~(pos <= size + 1) => LastLine = Len(text)
<1>1. Len(text) \in Nat /\ pos \in Nat /\ size \in 1..Len(text)
  BY TextFacts DEF Reading
<1>2. LastLine = IF pos > size + 1 THEN Len(text) ELSE size
  BY DEF LastLine
<1> QED
  BY <1>1, <1>2

Ascending(w) == \A i, j \in 1..Len(w) : i < j => w[i] < w[j]
Within(w, a, b) == \A i \in 1..Len(w) : w[i] \in a..b
In(w, j) == \E i \in 1..Len(w) : w[i] = j

LEMMA LinesFacts ==
    ASSUME NEW a \in Nat, NEW b \in Nat, NEW w, w = Lines(a, b)
    PROVE  w \in Seq(Nat) /\ Ascending(w) /\ Within(w, a, b) /\ \A j \in a..b : In(w, j)
<1>1. PICK n : n = IF b < a THEN 0 ELSE b - a + 1
  OBVIOUS
<1>2. n \in Nat
  BY <1>1
<1>3. w = [i \in 1..n |-> a + i - 1]
  BY <1>1 DEF Lines
<1>4. w \in Seq(Nat) /\ Len(w) = n
  <2>1. \A i \in 1..n : a + i - 1 \in Nat
    BY <1>2
  <2> QED BY <1>2, <1>3, <2>1
<1>5. \A i \in 1..n : w[i] = a + i - 1
  BY <1>3
<1>6. Ascending(w)
  <2>1. ASSUME NEW i \in 1..n, NEW j \in 1..n, i < j PROVE w[i] < w[j]
    <3>1. a + i - 1 < a + j - 1
      BY <1>2, <2>1
    <3> QED BY <1>5, <3>1
  <2> QED BY <1>4, <2>1 DEF Ascending
<1>7. Within(w, a, b)
  <2>1. ASSUME NEW i \in 1..n PROVE a + i - 1 \in a..b
    BY <1>1, <1>2
  <2> QED BY <1>4, <1>5, <2>1 DEF Within
<1>8. ASSUME NEW j \in a..b PROVE In(w, j)
  <2>1. j - a + 1 \in 1..n /\ a + (j - a + 1) - 1 = j
    BY <1>1, <1>2
  <2> QED BY <1>4, <1>5, <2>1 DEF In
<1> QED
  BY <1>4, <1>6, <1>7, <1>8

Types == {"undefined", "par", "pre", "csv", "script", "skip"}
Plain(e) ==
    /\ e.type \in Types /\ e.next \in Nat /\ pos <= e.next
    /\ e.depth = 0 /\ e.hidden = 0 /\ e.enum = FALSE
PassedBy(j) == text[j].kind \in {"empty", "begin", "end"} \/ Skipped(j)
Fits(e) ==
    /\ Plain(e) /\ e.lines \in Seq(Nat) /\ Ascending(e.lines)
    /\ Within(e.lines, pos, e.next - 1) /\ Within(e.lines, 1, Len(text))
    /\ \A j \in pos..(e.next - 1) : j <= Len(text) => In(e.lines, j) \/ PassedBy(j)

LEMMA ReadFits ==
    ASSUME Reading, NEW e, Plain(e), NEW a \in Nat, NEW b \in Nat, e.lines = Lines(a, b),
           pos <= a, b < e.next, b <= Len(text),
           \A j \in pos..(e.next - 1) : j <= Len(text) => j \in a..b \/ PassedBy(j)
    PROVE  Fits(e)
<1>1. PICK w : w = e.lines
  OBVIOUS
<1>2. w \in Seq(Nat) /\ Ascending(w) /\ Within(w, a, b) /\ \A j \in a..b : In(w, j)
  BY <1>1, LinesFacts
<1>3. Len(text) \in Nat /\ pos \in Nat /\ pos > 0 /\ e.next \in Nat /\ Len(w) \in Nat
  BY <1>2, TextFacts, SeqFacts DEF Plain, Reading
<1>4. \A j \in a..b : j \in pos..(e.next - 1) /\ j \in 1..Len(text)
  BY <1>3
<1>5. Within(w, pos, e.next - 1) /\ Within(w, 1, Len(text))
  BY <1>2, <1>4 DEF Within
<1>6. \A j \in pos..(e.next - 1) : j <= Len(text) => In(w, j) \/ PassedBy(j)
  BY <1>2
<1> QED
  BY <1>1, <1>2, <1>5, <1>6 DEF Fits

LEMMA EndOfFacts ==
    ASSUME Reading, NEW r
    PROVE  \/ EndOf(r, pos) = 0 /\ \A j \in pos..LastLine : ~IsEnd(text[j], r)
           \/ /\ EndOf(r, pos) # 0 /\ EndOf(r, pos) \in pos..LastLine /\ IsEnd(text[EndOf(r, pos)], r)
              /\ \A j \in pos..(EndOf(r, pos) - 1) : ~IsEnd(text[j], r)
<1>1. PICK E : E = {j \in pos..LastLine : IsEnd(text[j], r)}
  OBVIOUS
<1>2. EndOf(r, pos) = IF E = {} THEN 0 ELSE Least(E)
  BY <1>1 DEF EndOf
<1>3. LastLine \in Nat /\ pos \in Nat /\ pos > 0
  BY LastLineFacts DEF Reading
<1>4. CASE E = {}
  BY <1>1, <1>2, <1>4
<1>5. CASE E # {}
  <2>1. E \in SUBSET Nat
    BY <1>1, <1>3
  <2>2. PICK m : m = EndOf(r, pos)
    OBVIOUS
  <2>3. m \in E /\ \A j \in E : m <= j
    <3>1. m = Least(E)
      BY ONLY <1>2, <1>5, <2>2
    <3>2. Least(E) \in E /\ \A j \in E : Least(E) <= j
      BY ONLY <1>5, <2>1, LeastFacts
    <3> QED BY ONLY <3>1, <3>2
  <2>4. m \in pos..LastLine /\ IsEnd(text[m], r) /\ m # 0
    BY <1>1, <1>3, <2>3
  <2>5. ASSUME NEW j \in pos..(m - 1) PROVE ~IsEnd(text[j], r)
    <3>1. j \in pos..LastLine /\ ~(m <= j)
      BY <1>3, <2>4
    <3> QED BY <1>1, <2>3, <3>1
  <2> QED BY <2>2, <2>4, <2>5
<1> QED
  BY <1>4, <1>5

-----------------------------------------------------------------------------
LEMMA OneLine ==
    ASSUME NEW a \in Nat
    PROVE  <<a>> = Lines(a, a)
<1>1. ~(a < a) /\ a - a + 1 = 1
  OBVIOUS
<1>2. Lines(a, a) = [i \in 1..1 |-> a + i - 1]
  BY <1>1 DEF Lines
<1>3. \A i \in 1..1 : a + i - 1 = a
  OBVIOUS
<1> QED
  BY <1>2, <1>3

(* An element of no lines that passes over those before the next. *)
LEMMA PassFits ==
    ASSUME Reading, NEW e, Plain(e), e.lines = <<>>,
           \A j \in pos..(e.next - 1) : j <= Len(text) => PassedBy(j)
    PROVE  Fits(e)
<1>1. <<>> \in Seq(Nat) /\ Len(<<>>) = 0 /\ 1..0 = {}
  OBVIOUS
<1>2. Ascending(<<>>) /\ Within(<<>>, pos, e.next - 1) /\ Within(<<>>, 1, Len(text))
  BY <1>1 DEF Ascending, Within
<1> QED
  BY <1>1, <1>2 DEF Fits

LEMMA PreFits ==
    ASSUME Reading, pos <= LastLine, mode = "pre",
           NEW e, e = Element("pre", Lines(pos, LastLine), LastLine + 1)
    PROVE  Fits(e)
<1>1. LastLine \in Nat /\ LastLine <= Len(text) /\ pos \in Nat /\ pos > 0
  BY LastLineFacts DEF Reading
<1>2. /\ e.type = "pre" /\ e.lines = Lines(pos, LastLine) /\ e.next = LastLine + 1 /\ e.mode = mode
      /\ e.depth = 0 /\ e.hidden = 0 /\ e.enum = FALSE
  BY DEF Element, Marked
<1>3. Plain(e)
  BY <1>1, <1>2 DEF Plain, Types
<1>4. \A j \in pos..(e.next - 1) : j \in pos..LastLine
  BY <1>1, <1>2
<1>5. LastLine < e.next
  BY <1>1, <1>2
<1> QED
  BY <1>1, <1>2, <1>3, <1>4, <1>5, ReadFits

LEMMA RegionFits ==
    ASSUME Reading, pos <= LastLine, mode # "pre", NEW r \in Regions, IsBegin(text[pos], r),
           NEW e, e = Region(r)
    PROVE  Fits(e)
<1>1. LastLine \in Nat /\ LastLine <= Len(text) /\ pos \in Nat /\ pos > 0 /\ pos + 1 \in Nat /\ pos <= pos + 1
  BY LastLineFacts DEF Reading
<1>2. PICK m : m = EndOf(r, pos)
  OBVIOUS
<1>3. r \in Types
  BY DEF Regions, Types
<1>4. PassedBy(pos)
  BY DEF IsBegin, PassedBy
<1>5. CASE m = 0
  <2>1. e = Element(r, Lines(pos + 1, LastLine), LastLine + 1)
    BY <1>2, <1>5 DEF Region
  <2>2. /\ e.type = r /\ e.lines = Lines(pos + 1, LastLine) /\ e.next = LastLine + 1 /\ e.mode = mode
        /\ e.depth = 0 /\ e.hidden = 0 /\ e.enum = FALSE
    BY <2>1 DEF Element, Marked
  <2>3. Plain(e)
    BY <1>1, <1>3, <2>2 DEF Plain
  <2>4. \A j \in pos..(e.next - 1) : j = pos \/ j \in (pos + 1)..LastLine
    BY <1>1, <2>2
  <2>5. LastLine < e.next
    BY <1>1, <2>2
  <2> QED BY <1>1, <1>4, <2>2, <2>3, <2>4, <2>5, ReadFits
<1>6. CASE m # 0
  <2>1. m \in pos..LastLine /\ IsEnd(text[m], r)
    BY <1>2, <1>6, EndOfFacts
  <2>2. e = Marked(r, Lines(pos + 1, m - 1), m + 1)
    BY <1>2, <1>6 DEF Region
  <2>3. /\ e.type = r /\ e.lines = Lines(pos + 1, m - 1) /\ e.next = m + 1 /\ e.mode = mode
        /\ e.depth = 0 /\ e.hidden = 0 /\ e.enum = FALSE
    BY <2>2 DEF Element, Marked
  <2>4. Plain(e)
    BY <1>1, <1>3, <2>1, <2>3 DEF Plain
  <2>5. \A j \in pos..(e.next - 1) : j = pos \/ j = m \/ j \in (pos + 1)..(m - 1)
    BY <1>1, <2>1, <2>3
  <2>6. m - 1 < e.next /\ m - 1 <= Len(text) /\ m - 1 \in Nat
    BY <1>1, <2>1, <2>3
  <2>7. PassedBy(m)
    BY <2>1 DEF PassedBy, IsEnd
  <2> QED BY <1>1, <1>4, <2>3, <2>4, <2>5, <2>6, <2>7, ReadFits
<1> QED
  BY <1>5, <1>6

LEMMA SkipFits ==
    ASSUME Reading, pos <= LastLine, mode # "pre", IsBegin(text[pos], "skip"), NEW e \in Skip
    PROVE  Fits(e)
<1>1. LastLine \in Nat /\ LastLine <= Len(text) /\ pos \in Nat /\ pos > 0
  BY LastLineFacts DEF Reading
<1>2. PICK m : m = EndOf("skip", pos)
  OBVIOUS
<1>3. m # 0 /\ e = Marked("skip", <<>>, m + 1)
  BY <1>2 DEF Skip
<1>4. m \in pos..LastLine /\ IsEnd(text[m], "skip") /\ \A j \in pos..(m - 1) : ~IsEnd(text[j], "skip")
  BY <1>2, <1>3, EndOfFacts
<1>5. /\ e.type = "skip" /\ e.lines = <<>> /\ e.next = m + 1 /\ e.mode = mode
      /\ e.depth = 0 /\ e.hidden = 0 /\ e.enum = FALSE
  BY <1>3 DEF Element, Marked
<1>6. Plain(e)
  BY <1>1, <1>4, <1>5 DEF Plain, Types
<1>7. ASSUME NEW j \in pos..(e.next - 1) PROVE PassedBy(j)
  <2>1. CASE j = pos
    BY <2>1 DEF PassedBy, IsBegin
  <2>2. CASE j = m
    BY <1>4, <2>2 DEF PassedBy, IsEnd
  <2>3. CASE j # pos /\ j # m
    <3>1. pos \in 1..(j - 1) /\ \A k \in pos..j : k \in pos..(m - 1)
      BY <1>1, <1>4, <1>5, <2>3
    <3>2. Skipped(j)
      BY <1>4, <3>1 DEF Skipped
    <3> QED BY <3>2 DEF PassedBy
  <2> QED BY <2>1, <2>2, <2>3
<1> QED
  BY <1>5, <1>6, <1>7, PassFits

LEMMA MarkerFits ==
    ASSUME Reading, pos <= LastLine, mode # "pre", text[pos].kind \in {"begin", "end"},
           NEW e, e = EndOfLine \/ e = BeginOfLine
    PROVE  Fits(e)
<1>1. LastLine \in Nat /\ LastLine <= Len(text) /\ pos \in Nat /\ pos > 0
  BY LastLineFacts DEF Reading
<1>2. PICK f : f = Marked("skip", <<>>, pos + 1)
  OBVIOUS
<1>3. /\ f.type = "skip" /\ f.lines = <<>> /\ f.next = pos + 1
      /\ f.depth = 0 /\ f.hidden = 0 /\ f.enum = FALSE
  BY <1>2 DEF Element, Marked
<1>4. /\ e.type = f.type /\ e.lines = f.lines /\ e.next = f.next
      /\ e.depth = f.depth /\ e.hidden = f.hidden /\ e.enum = f.enum
  BY <1>2 DEF EndOfLine, BeginOfLine, Marked, Element
<1>5. Plain(e)
  BY <1>1, <1>3, <1>4 DEF Plain, Types
<1>6. ASSUME NEW j \in pos..(e.next - 1) PROVE PassedBy(j)
  <2>1. j = pos
    BY <1>1, <1>3, <1>4
  <2> QED BY <2>1 DEF PassedBy
<1> QED
  BY <1>3, <1>4, <1>5, <1>6, PassFits

LEMMA ParagraphFits ==
    ASSUME Reading, pos <= LastLine, mode # "pre", NEW e, e = Paragraph
    PROVE  Fits(e)
<1>1. LastLine \in Nat /\ LastLine <= Len(text) /\ pos \in Nat /\ pos > 0
  BY LastLineFacts DEF Reading
<1>2. CASE rest
  <2>1. e = Element("undefined", <<>>, pos)
    BY <1>2 DEF Paragraph
  <2>2. /\ e.type = "undefined" /\ e.lines = <<>> /\ e.next = pos /\ e.mode = mode
        /\ e.depth = 0 /\ e.hidden = 0 /\ e.enum = FALSE
    BY <2>1 DEF Element, Marked
  <2>3. Plain(e)
    BY <1>1, <2>2 DEF Plain, Types
  <2>4. pos..(e.next - 1) = {}
    BY <1>1, <2>2
  <2> QED BY <2>2, <2>3, <2>4, PassFits
<1>3. CASE ~rest
  <2>1. PICK E : E = {j \in pos..LastLine : text[j].kind = "empty"}
    OBVIOUS
  <2>2. PICK last : last = IF E = {} THEN LastLine ELSE Least(E) - 1
    OBVIOUS
  <2>x. PICK x : x = IF E = {} THEN last + 1 ELSE last + 2
    OBVIOUS
  <2>3. e = Element(IF last < pos THEN "undefined" ELSE "par", Lines(pos, last), x)
    BY <1>3, <2>1, <2>2, <2>x DEF Paragraph
  <2>4. /\ e.type \in {"undefined", "par"} /\ e.lines = Lines(pos, last) /\ e.next = x /\ e.mode = mode
        /\ e.depth = 0 /\ e.hidden = 0 /\ e.enum = FALSE
    BY <2>3 DEF Element, Marked
  <2>5. /\ last \in (pos - 1)..LastLine /\ (x = last + 1 \/ (x = last + 2 /\ text[last + 1].kind = "empty"))
        /\ \A j \in pos..last : text[j].kind # "empty"
    <3>1. CASE E = {}
      <4>1. last = LastLine /\ x = last + 1
        BY <2>2, <2>x, <3>1
      <4>2. \A j \in pos..last : text[j].kind # "empty"
        BY <2>1, <3>1, <4>1
      <4>3. last \in (pos - 1)..LastLine
        BY <1>1, <4>1
      <4> QED BY <4>1, <4>2, <4>3
    <3>2. CASE E # {}
      <4>1. E \in SUBSET Nat
        BY <1>1, <2>1
      <4>2. PICK m : m = Least(E)
        OBVIOUS
      <4>3. m \in E /\ \A j \in E : m <= j
        BY <3>2, <4>1, <4>2, LeastFacts
      <4>4. m \in pos..LastLine /\ text[m].kind = "empty"
        BY <2>1, <4>3
      <4>5. last = m - 1
        BY <2>2, <3>2, <4>2
      <4>x. x = last + 2
        BY <2>x, <3>2
      <4>6. last \in (pos - 1)..LastLine /\ last + 1 = m
        BY <1>1, <4>4, <4>5
      <4>7. ASSUME NEW j \in pos..last PROVE text[j].kind # "empty"
        <5>1. j \in pos..LastLine /\ ~(m <= j)
          BY <1>1, <4>4, <4>5
        <5> QED BY <2>1, <4>3, <5>1
      <4> QED BY <4>4, <4>6, <4>x, <4>7
    <3> QED BY <3>1, <3>2
  <2>6. last \in Nat /\ last < e.next /\ last <= Len(text)
    BY <1>1, <2>4, <2>5
  <2>7. Plain(e)
    BY <1>1, <2>4, <2>5 DEF Plain, Types
  <2>8. ASSUME NEW j \in pos..(e.next - 1) PROVE j \in pos..last \/ PassedBy(j)
    <3>1. j \in pos..last \/ (j = last + 1 /\ x = last + 2)
      BY <1>1, <2>4, <2>5, <2>8
    <3> QED BY <2>5, <3>1 DEF PassedBy
  <2> QED BY <1>1, <2>4, <2>6, <2>7, <2>8, ReadFits
<1> QED
  BY <1>2, <1>3

(* The line read, and the empty lines before and behind it. *)
LEMMA LineIs ==
    ASSUME Reading, NEW e \in Line
    PROVE  \E m \in pos..Len(text), n \in Nat :
              /\ e = Element("undefined", <<m>>, n) /\ text[m].kind # "empty"
              /\ \A j \in pos..(m - 1) : text[j].kind = "empty"
              /\ m < n /\ n <= Len(text) + 1 /\ (m <= LastLine => n <= LastLine + 1)
              /\ \A j \in (m + 1)..(n - 1) : text[j].kind = "empty"
              /\ n <= LastLine => text[n].kind # "empty"
<1>1. Len(text) \in Nat /\ LastLine \in Nat /\ LastLine <= Len(text) /\ pos \in Nat /\ pos > 0
  BY TextFacts, LastLineFacts DEF Reading
<1>2. PICK C : C = {j \in pos..Len(text) : text[j].kind # "empty"}
  OBVIOUS
<1>3. PICK m : m = Least(C)
  OBVIOUS
<1>4. PICK last : last = IF m > LastLine THEN Len(text) ELSE LastLine
  OBVIOUS
<1>5. PICK N : N = {j \in (m + 1)..last : text[j].kind # "empty"}
  OBVIOUS
<1>6. PICK n : n = IF N = {} THEN last + 1 ELSE Least(N)
  OBVIOUS
<1>7. C # {} /\ e = Element("undefined", <<m>>, n)
  BY <1>2, <1>3, <1>4, <1>5, <1>6 DEF Line
<1>8. m \in C /\ \A j \in C : m <= j
  <2>1. C \in SUBSET Nat
    BY <1>1, <1>2
  <2> QED BY <1>3, <1>7, <2>1, LeastFacts
<1>9. m \in pos..Len(text) /\ text[m].kind # "empty" /\ m \in Nat
  BY <1>1, <1>2, <1>8
<1>10. ASSUME NEW j \in pos..(m - 1) PROVE text[j].kind = "empty"
  <2>1. j \in pos..Len(text) /\ ~(m <= j)
    BY <1>1, <1>9
  <2> QED BY <1>2, <1>8, <2>1
<1>11. last \in Nat /\ m <= last /\ last <= Len(text) /\ LastLine <= last /\ (m <= LastLine => last = LastLine)
  BY <1>1, <1>4, <1>9
<1>12. /\ n \in Nat /\ m < n /\ n <= last + 1
       /\ \A j \in (m + 1)..(n - 1) : text[j].kind = "empty"
       /\ n <= last => text[n].kind # "empty"
  <2>1. CASE N = {}
    <3>1. n = last + 1
      BY <1>6, <2>1
    <3>2. n \in Nat /\ m < n /\ ~(n <= last) /\ n - 1 = last
      BY <1>9, <1>11, <3>1
    <3> QED BY <1>5, <2>1, <3>1, <3>2
  <2>2. CASE N # {}
    <3>1. N \in SUBSET Nat
      BY <1>5, <1>9, <1>11
    <3>2. n = Least(N)
      BY <1>6, <2>2
    <3>3. n \in N /\ \A j \in N : n <= j
      BY <2>2, <3>1, <3>2, LeastFacts
    <3>4. n \in (m + 1)..last /\ text[n].kind # "empty"
      BY <1>5, <3>3
    <3>5. ASSUME NEW j \in (m + 1)..(n - 1) PROVE text[j].kind = "empty"
      <4>1. j \in (m + 1)..last /\ ~(n <= j)
        BY <1>9, <1>11, <3>4
      <4> QED BY <1>5, <3>3, <4>1
    <3> QED BY <1>9, <1>11, <3>4, <3>5
  <2> QED BY <2>1, <2>2
<1>13. n <= Len(text) + 1 /\ (m <= LastLine => n <= LastLine + 1) /\ (n <= LastLine => n <= last)
  BY <1>1, <1>11, <1>12
<1> QED
  BY <1>7, <1>9, <1>10, <1>12, <1>13

LEMMA LineFits ==
    ASSUME Reading, NEW e \in Line
    PROVE  Fits(e)
<1>1. Len(text) \in Nat /\ pos \in Nat /\ pos > 0
  BY TextFacts DEF Reading
<1>2. PICK m \in pos..Len(text), n \in Nat :
         /\ e = Element("undefined", <<m>>, n) /\ \A j \in pos..(m - 1) : text[j].kind = "empty"
         /\ m < n /\ \A j \in (m + 1)..(n - 1) : text[j].kind = "empty"
  BY LineIs
<1>3. /\ e.type = "undefined" /\ e.lines = <<m>> /\ e.next = n
      /\ e.depth = 0 /\ e.hidden = 0 /\ e.enum = FALSE
  BY <1>2 DEF Element
<1>4. m \in Nat /\ pos <= m /\ m <= Len(text) /\ pos <= n
  BY <1>1, <1>2
<1>5. Plain(e)
  BY <1>3, <1>4 DEF Plain, Types
<1>6. e.lines = Lines(m, m)
  BY <1>3, <1>4, OneLine
<1>7. ASSUME NEW j \in pos..(e.next - 1) PROVE j \in m..m \/ PassedBy(j)
  <2>1. j = m \/ j \in pos..(m - 1) \/ j \in (m + 1)..(n - 1)
    BY <1>1, <1>3, <1>4
  <2>2. m \in m..m
    BY <1>4
  <2> QED BY <1>2, <2>1, <2>2 DEF PassedBy
<1> QED
  BY <1>2, <1>3, <1>4, <1>5, <1>6, <1>7, ReadFits

(* What is read of a text is in the element, or need not be. *)
LEMMA HasNextFits ==
    ASSUME Reading, NEW e \in HasNext
    PROVE  Fits(e) /\ pos <= LastLine
<1>1. pos <= LastLine
  BY LastLineFacts DEF HasNext, AtEnd, Reading
<1>2. CASE mode = "pre"
  <2>1. e = Element("pre", Lines(pos, LastLine), LastLine + 1)
    BY <1>2 DEF HasNext
  <2> QED BY <1>1, <1>2, <2>1, PreFits
<1>3. CASE mode # "pre"
  <2>1. \/ e = Paragraph \/ e \in Line
        \/ IsBegin(text[pos], "skip") /\ e \in Skip
        \/ \E r \in Regions : IsBegin(text[pos], r) /\ e = Region(text[pos].region)
        \/ IsEnd(text[pos], "line") /\ e = EndOfLine
        \/ IsBegin(text[pos], "line") /\ e = BeginOfLine
    BY <1>3 DEF HasNext
  <2>2. CASE e = Paragraph
    BY <1>1, <1>3, <2>2, ParagraphFits
  <2>3. CASE e \in Line
    BY <1>1, <2>3, LineFits
  <2>4. CASE IsBegin(text[pos], "skip") /\ e \in Skip
    BY <1>1, <1>3, <2>4, SkipFits
  <2>5. CASE \E r \in Regions : IsBegin(text[pos], r) /\ e = Region(text[pos].region)
    <3>1. PICK r \in Regions : IsBegin(text[pos], r) /\ e = Region(text[pos].region)
      BY <2>5
    <3>2. e = Region(r)
      BY <3>1 DEF IsBegin
    <3> QED BY <1>1, <1>3, <3>1, <3>2, RegionFits
  <2>6. CASE IsEnd(text[pos], "line") /\ e = EndOfLine
    <3>1. text[pos].kind \in {"begin", "end"}
      BY <2>6 DEF IsEnd
    <3> QED BY <1>1, <1>3, <2>6, <3>1, MarkerFits
  <2>7. CASE IsBegin(text[pos], "line") /\ e = BeginOfLine
    <3>1. text[pos].kind \in {"begin", "end"}
      BY <2>7 DEF IsBegin
    <3> QED BY <1>1, <1>3, <2>7, <3>1, MarkerFits
  <2> QED BY <2>1, <2>2, <2>3, <2>4, <2>5, <2>6, <2>7
<1> QED
  BY <1>1, <1>2, <1>3

(* Where the next line is taken it is the first, one behind a marker, or not  *)
(* empty, so that the end of the text is passed only where it ends so.        *)
Taking == mode \notin {"pre", "par"}
Aligned(m, p) ==
    m \notin {"pre", "par"} /\ p <= size =>
        p = 1 \/ text[p - 1].kind \in {"begin", "end"} \/ text[p].kind # "empty"

LEMMA RestEmpty ==
    ASSUME Reading, Aligned(mode, pos), Taking, pos <= size, \A j \in pos..size : text[j].kind = "empty"
    PROVE  EndsEmpty
<1>1. size \in Nat /\ pos \in Nat /\ pos > 0 /\ pos \in pos..size /\ pos - 1 \in 0..size /\ pos - 1 + 1 = pos
  BY LastLineFacts DEF Reading
<1>2. text[pos].kind = "empty"
  BY <1>1
<1>3. pos = 1 \/ text[pos - 1].kind \in {"begin", "end"}
  BY <1>2 DEF Aligned, Taking
<1>4. pos - 1 > 0 => text[pos - 1].kind \in {"begin", "end"}
  BY <1>1, <1>3
<1>5. PICK b \in 0..size : b = pos - 1
  BY <1>1
<1>6. b > 0 => text[b].kind \in {"begin", "end"}
  BY <1>4, <1>5
<1>7. \A i \in (b + 1)..size : text[i].kind = "empty"
  BY <1>1, <1>5
<1> QED
  BY <1>6, <1>7 DEF EndsEmpty

LEMMA HasNextAligned ==
    ASSUME Reading, Aligned(mode, pos), ~(pos <= size + 1) => EndsEmpty, NEW e \in HasNext
    PROVE  Aligned(e.mode, e.next) /\ (~(e.next <= size + 1) => EndsEmpty)
<1>1. /\ LastLine \in Nat /\ size \in Nat /\ size > 0 /\ size <= LastLine /\ LastLine <= Len(text) /\ pos \in Nat
      /\ pos > 0 /\ pos <= LastLine /\ Len(text) \in Nat
      /\ pos <= size + 1 => LastLine = size
  BY TextFacts, LastLineFacts, HasNextFits DEF Reading
<1>a. e.next <= LastLine + 1 => (~(e.next <= size + 1) => EndsEmpty)
  <2>1. CASE pos <= size + 1
    BY <1>1, <2>1
  <2>2. CASE ~(pos <= size + 1)
    BY <2>2
  <2> QED BY <2>1, <2>2
<1>2. CASE mode = "pre"
  <2>1. e = Element("pre", Lines(pos, LastLine), LastLine + 1)
    BY <1>2 DEF HasNext
  <2>2. e.next = LastLine + 1 /\ e.mode = mode
    BY <2>1 DEF Element
  <2>3. e.next <= LastLine + 1
    BY <1>1, <2>2
  <2> QED BY <1>2, <1>a, <2>2, <2>3 DEF Aligned
<1>3. CASE mode # "pre"
  <2>1. \/ mode = "par" /\ e = Paragraph
        \/ mode # "par" /\ e \in Line
        \/ e \in Skip
        \/ mode = "par" /\ \E r : e = Region(r)
        \/ IsEnd(text[pos], "line") /\ e = EndOfLine
        \/ IsBegin(text[pos], "line") /\ e = BeginOfLine
    BY <1>3 DEF HasNext
  <2>2. CASE mode = "par" /\ e = Paragraph
    <3>1. PICK E : E = {j \in pos..LastLine : text[j].kind = "empty"}
      OBVIOUS
    <3>2. PICK last : last = IF E = {} THEN LastLine ELSE Least(E) - 1
      OBVIOUS
    <3>3. \/ e = Element("undefined", <<>>, pos)
          \/ e = Element(IF last < pos THEN "undefined" ELSE "par", Lines(pos, last), IF E = {} THEN last + 1 ELSE last + 2)
      BY <2>2, <3>1, <3>2 DEF Paragraph
    <3>4. e.mode = mode /\ (e.next = pos \/ e.next = IF E = {} THEN last + 1 ELSE last + 2)
      BY <3>3 DEF Element
    <3>5. E # {} => Least(E) \in E
      <4>1. E \in SUBSET Nat
        BY <1>1, <3>1
      <4> QED BY <4>1, LeastFacts
    <3>6. e.next <= LastLine + 1
      <4>1. CASE E = {}
        BY <1>1, <3>2, <3>4, <4>1
      <4>2. CASE E # {}
        <5>1. PICK m \in pos..LastLine : m = Least(E)
          BY <3>1, <3>5, <4>2
        <5>2. last = m - 1 /\ (e.next = pos \/ e.next = last + 2)
          BY <3>2, <3>4, <4>2, <5>1
        <5> QED BY <1>1, <5>1, <5>2
      <4> QED BY <4>1, <4>2
    <3> QED BY <1>a, <2>2, <3>4, <3>6 DEF Aligned
  <2>3. CASE mode # "par" /\ e \in Line
    <3>1. PICK m \in pos..Len(text), n \in Nat :
             /\ e = Element("undefined", <<m>>, n)
             /\ \A j \in pos..(m - 1) : text[j].kind = "empty"
             /\ m <= LastLine => n <= LastLine + 1
             /\ n <= LastLine => text[n].kind # "empty"
      BY <2>3, LineIs
    <3>2. e.mode = mode /\ e.next = n
      BY <3>1 DEF Element
    <3>3. n <= size => n <= LastLine
      BY <1>1
    <3>4. Aligned(mode, n)
      BY <3>1, <3>3 DEF Aligned
    <3>5. CASE m <= LastLine
      BY <1>a, <3>1, <3>2, <3>4, <3>5
    <3>6. CASE ~(m <= LastLine) /\ pos <= size + 1
      <4>1. LastLine = size /\ pos <= size
        BY <1>1, <3>6
      <4>2. \A j \in pos..size : j \in pos..(m - 1)
        BY <1>1, <3>6, <4>1
      <4>3. EndsEmpty
        BY <1>3, <2>3, <3>1, <4>1, <4>2, RestEmpty DEF Taking
      <4> QED BY <3>2, <3>4, <4>3
    <3>7. CASE ~(pos <= size + 1)
      BY <3>2, <3>4, <3>7
    <3> QED BY <3>5, <3>6, <3>7
  <2>4. CASE e \in Skip
    <3>1. PICK m : m = EndOf("skip", pos)
      OBVIOUS
    <3>2. m # 0 /\ e = Marked("skip", <<>>, m + 1)
      BY <2>4, <3>1 DEF Skip
    <3>3. m \in pos..LastLine /\ IsEnd(text[m], "skip")
      BY <3>1, <3>2, EndOfFacts
    <3>4. e.next = m + 1 /\ e.mode = mode
      BY <3>2 DEF Element, Marked
    <3>5. m + 1 - 1 = m /\ e.next <= LastLine + 1
      BY <1>1, <3>3, <3>4
    <3> QED BY <1>a, <3>3, <3>4, <3>5 DEF Aligned, IsEnd
  <2>5. CASE mode = "par" /\ \E r : e = Region(r)
    <3>1. PICK r : e = Region(r)
      BY <2>5
    <3>2. PICK m : m = EndOf(r, pos)
      OBVIOUS
    <3>3. \/ m = 0 /\ e = Element(r, Lines(pos + 1, LastLine), LastLine + 1)
          \/ m # 0 /\ e = Marked(r, Lines(pos + 1, m - 1), m + 1)
      BY <3>1, <3>2 DEF Region
    <3>4. e.mode = mode /\ (e.next = LastLine + 1 \/ (m # 0 /\ e.next = m + 1))
      BY <3>3 DEF Element, Marked
    <3>5. m # 0 => m \in pos..LastLine
      BY <3>2, EndOfFacts
    <3>6. e.next <= LastLine + 1
      BY <1>1, <3>4, <3>5
    <3> QED BY <1>a, <2>5, <3>4, <3>6 DEF Aligned
  <2>6. CASE (IsEnd(text[pos], "line") /\ e = EndOfLine) \/ (IsBegin(text[pos], "line") /\ e = BeginOfLine)
    <3>1. text[pos].kind \in {"begin", "end"}
      BY <2>6 DEF IsEnd, IsBegin
    <3>2. e.next = pos + 1
      BY <2>6 DEF EndOfLine, BeginOfLine, Marked, Element
    <3>3. e.next - 1 = pos /\ e.next <= LastLine + 1
      BY <1>1, <3>2
    <3>4. text[e.next - 1].kind \in {"begin", "end"}
      BY ONLY <3>1, <3>3
    <3>5. Aligned(e.mode, e.next)
      BY ONLY <3>4 DEF Aligned
    <3> QED BY <1>a, <3>3, <3>5
  <2> QED BY <2>1, <2>2, <2>3, <2>4, <2>5, <2>6
<1> QED
  BY <1>2, <1>3

-----------------------------------------------------------------------------
(* What the elements become *)

LEMMA FirstFacts ==
    ASSUME Reading, NEW e, Fits(e)
    PROVE  \/ First(e) = 0 /\ \A i \in 1..Len(e.lines) : text[e.lines[i]].kind = "empty"
           \/ \E i \in 1..Len(e.lines) :
                 /\ First(e) # 0 /\ First(e) = e.lines[i] /\ text[First(e)].kind # "empty"
                 /\ First(e) \in 1..Len(text)
                 /\ \A k \in 1..(i - 1) : text[e.lines[k]].kind = "empty"
<1>1. PICK w : w = e.lines
  OBVIOUS
<1>2. w \in Seq(Nat) /\ Len(w) \in Nat /\ DOMAIN w = 1..Len(w) /\ Within(w, 1, Len(text))
  BY <1>1, SeqFacts DEF Fits
<1>3. PICK C : C = {i \in 1..Len(w) : text[w[i]].kind # "empty"}
  OBVIOUS
<1>4. First(e) = IF C = {} THEN 0 ELSE w[Least(C)]
  BY <1>1, <1>2, <1>3 DEF First
<1>5. CASE C = {}
  BY <1>1, <1>3, <1>4, <1>5
<1>6. CASE C # {}
  <2>1. C \in SUBSET Nat
    BY <1>2, <1>3
  <2>2. PICK i : i = Least(C)
    OBVIOUS
  <2>3. i \in C /\ \A j \in C : i <= j
    BY <1>6, <2>1, <2>2, LeastFacts
  <2>4. i \in 1..Len(w) /\ text[w[i]].kind # "empty"
    BY <1>3, <2>3
  <2>5. First(e) = w[i]
    BY <1>4, <1>6, <2>2
  <2>6. w[i] \in 1..Len(text)
    BY <1>2, <2>4 DEF Within
  <2>7. w[i] # 0
    BY <2>6, TextFacts
  <2>8. ASSUME NEW k \in 1..(i - 1) PROVE text[w[k]].kind = "empty"
    <3>1. k \in 1..Len(w) /\ ~(i <= k)
      BY <1>2, <2>4
    <3> QED BY <1>3, <2>3, <3>1
  <2> QED BY <1>1, <2>4, <2>5, <2>6, <2>7, <2>8
<1> QED
  BY <1>5, <1>6

DepthsSet == \A i \in 1..Len(text) : text[i].kind \in MarkKinds => text[i].depth > 0

Fields == {"type", "lines", "next", "rest", "mode", "before", "depth", "hidden", "enum"}
Shaped(e) == DOMAIN e = Fields /\ e.depth = 0 /\ e.hidden = 0 /\ e.enum = FALSE

LEMMA HasNextShaped ==
    ASSUME NEW e \in HasNext
    PROVE  Shaped(e)
<1>1. \A t, l, n : Shaped(Element(t, l, n))
  BY DEF Shaped, Element, Fields
<1>2. \A t, l, n : Shaped(Marked(t, l, n))
  BY DEF Shaped, Element, Marked, Fields
<1>3. Shaped(EndOfLine)
  BY DEF Shaped, Element, Marked, EndOfLine, Fields
<1>4. Shaped(BeginOfLine)
  BY DEF Shaped, Element, Marked, BeginOfLine, Fields
<1>5. Shaped(Paragraph)
  BY <1>1 DEF Paragraph
<1>6. ASSUME NEW f \in Line PROVE Shaped(f)
  <2>1. \E t, l, n : f = Element(t, l, n)
    BY <1>6 DEF Line
  <2> QED BY <1>1, <2>1
<1>7. ASSUME NEW f \in Skip PROVE Shaped(f)
  <2>1. \E t, l, n : f = Marked(t, l, n)
    BY <1>7 DEF Skip
  <2> QED BY <1>2, <2>1
<1>8. \A r : Shaped(Region(r))
  BY <1>1, <1>2 DEF Region
<1>9. \/ e = Paragraph \/ e \in Line \/ e \in Skip \/ e = EndOfLine \/ e = BeginOfLine
      \/ \E r : e = Region(r)
      \/ \E t, l, n : e = Element(t, l, n)
  BY DEF HasNext
<1> QED
  BY <1>1, <1>3, <1>4, <1>5, <1>6, <1>7, <1>8, <1>9

LEMMA ParsedFacts ==
    ASSUME Reading, DepthsSet, NEW e, Fits(e), Shaped(e), NEW q, q = Parsed(e), NEW f, f = First(e)
    PROVE  /\ q.lines = e.lines /\ q.hidden \in Nat /\ q.enum \in BOOLEAN /\ q.depth \in Nat
           /\ q.type \in Types \cup {"header", "item", "ruler"}
           /\ q.type = "header" => f # 0 /\ text[f].kind = "header" /\ q.depth = text[f].depth /\ q.depth > 0
           /\ q.type = "item" => f # 0 /\ q.depth = text[f].depth /\ q.depth > 0
           /\ f # 0 /\ text[f].kind \in {"item", "enum"} => q.type \in {"item", "pre", "csv"}
           /\ e.type = "pre" => q.type = "pre"
<1>1. e.type \in Types
  BY DEF Fits, Plain
<1>2. e.depth = 0 /\ e.hidden = 0 /\ e.enum = FALSE
  BY DEF Shaped
<1>3. CASE f = 0 \/ e.type \in {"pre", "csv"}
  <2>1. q = e
    BY <1>3 DEF Parsed
  <2>2. q.type \in Types /\ q.type \notin {"header", "item", "ruler"}
    BY <1>1, <2>1 DEF Types
  <2>3. q.enum \in BOOLEAN
    BY <1>2, <2>1
  <2>4. q.hidden = 0 /\ q.depth = 0 /\ q.lines = e.lines
    BY <1>2, <2>1
  <2>5. q.type = e.type
    BY <2>1
  <2> QED BY <1>3, <2>2, <2>3, <2>4, <2>5
<1>4. CASE f # 0 /\ e.type \notin {"pre", "csv"}
  <2>1. f \in 1..Len(text)
    BY <1>4, FirstFacts
  <2>2. PICK l : l = text[f]
    OBVIOUS
  <2>3. l.depth \in Nat /\ l.hidden \in Nat
    BY <2>1, <2>2, TextFacts DEF SourceLine
  <2>4. l.kind \in MarkKinds => l.depth > 0
    BY <2>1, <2>2 DEF DepthsSet
  <2>5. CASE l.kind \notin Contents
    <3>1. q = e
      BY <1>4, <2>2, <2>5 DEF Parsed
    <3>2. l.kind \notin {"item", "enum"}
      BY <2>5 DEF Contents
    <3>3. q.type \in Types /\ q.type \notin {"header", "item", "ruler"}
      BY <1>1, <3>1 DEF Types
    <3>4. q.enum \in BOOLEAN
      BY <1>2, <3>1
    <3>5. q.hidden = 0 /\ q.depth = 0 /\ q.lines = e.lines
      BY <1>2, <3>1
    <3>6. e.type # "pre"
      BY <1>4
    <3> QED BY <2>2, <3>2, <3>3, <3>4, <3>5, <3>6
  <2>6. CASE l.kind \in Contents
    <3>1. PICK h : h = IF l.kind = "header" /\ l.percent THEN 1 ELSE l.hidden
      OBVIOUS
    <3>2. PICK y : y = CASE l.kind = "header" -> "header"
                         [] l.kind = "ruler" /\ Len(e.lines) = 1 -> "ruler"
                         [] l.kind \in {"item", "enum"} \/ (l.kind = "ruler" /\ Len(e.lines) # 1) -> "item"
                         [] OTHER -> e.type
      OBVIOUS
    <3>3. q = [e EXCEPT !.hidden = h, !.depth = l.depth, !.enum = (l.kind = "enum"), !.type = y]
      BY <1>4, <2>2, <2>6, <3>1, <3>2 DEF Parsed
    <3>4. q.lines = e.lines /\ q.hidden = h /\ q.depth = l.depth /\ q.type = y
      BY <3>3 DEF Shaped, Fields
    <3>5. q.enum \in BOOLEAN
      BY <3>3 DEF Shaped, Fields
    <3>6. h \in Nat
      BY <2>3, <3>1
    <3>7. /\ y \in Types \cup {"header", "item", "ruler"}
          /\ y = "header" => l.kind = "header"
          /\ y = "item" => l.kind \in {"item", "enum", "ruler"}
          /\ l.kind \in {"item", "enum"} => y = "item"
      <4>1. e.type \notin {"header", "item", "ruler"}
        BY <1>1 DEF Types
      <4> QED BY <1>1, <3>2, <4>1
    <3>8. y \in {"header", "item"} => l.depth > 0
      BY <2>4, <3>7 DEF MarkKinds
    <3>9. e.type # "pre"
      BY <1>4
    <3> QED BY <1>4, <2>2, <2>3, <3>4, <3>5, <3>6, <3>7, <3>8, <3>9
  <2> QED BY <2>5, <2>6
<1> QED
  BY <1>3, <1>4

LEMMA FirstOfParsed ==
    ASSUME NEW e, NEW q, q.lines = e.lines
    PROVE  First(q) = First(e)
BY DEF First

(* A line without a content is empty or has only marks. *)
LEMMA Contentless ==
    ASSUME Reading, NEW e, Fits(e), NEW q, q.lines = e.lines, ~HasContent(q),
           NEW j, In(e.lines, j)
    PROVE  text[j].kind = "empty" \/ text[j].bare
<1>1. PICK w : w = e.lines
  OBVIOUS
<1>2. PICK i \in 1..Len(w) : w[i] = j
  BY <1>1 DEF In
<1>3. First(q) = 0 \/ (Len(w) = 1 /\ text[w[1]].bare)
  BY <1>1 DEF HasContent
<1>4. CASE First(q) = 0
  <2>1. First(e) = 0
    BY <1>4, FirstOfParsed
  <2>2. \A k \in 1..Len(w) : text[w[k]].kind = "empty"
    BY <1>1, <2>1, FirstFacts
  <2> QED BY <1>2, <2>2
<1>5. CASE Len(w) = 1 /\ text[w[1]].bare
  <2>1. i = 1
    BY <1>2, <1>5
  <2> QED BY <1>2, <1>5, <2>1
<1> QED
  BY <1>3, <1>4, <1>5

-----------------------------------------------------------------------------
(* The depths of the nodes *)

LEMMA AncestorsBelow ==
    ASSUME NEW t, Whole(t)
    PROVE  \A i \in 1..Len(t) : Ancestors(t, i) \subseteq 1..(i - 1)
<1> DEFINE B == {i \in 1..Len(t) : ~(Ancestors(t, i) \subseteq 1..(i - 1))}
<1>1. Shape(t) /\ Len(t) \in Nat /\ Len(t) > 0
  BY NodeFacts DEF Whole, Shape
<1>2. PICK a : Ancs(t, a)
  BY DEF Whole
<1>3. /\ Ancestors(t, 1) = {}
      /\ \A i, j \in 1..Len(t) : Parents(t, j) = {i} => Ancestors(t, j) = {i} \cup Ancestors(t, i)
  BY <1>1, <1>2, AncestorsAre
<1>4. \A j \in 2..Len(t) : \E i \in 1..(j - 1) : Parents(t, j) = {i}
  BY <1>1, ParentsAre
<1>5. B = {}
  <2> SUFFICES ASSUME B # {} PROVE FALSE
    OBVIOUS
  <2>1. B \in SUBSET Nat
    BY <1>1
  <2>2. PICK j \in B : \A k \in B : j <= k
    <3> HIDE DEF B
    <3> QED BY <2>1, LeastNat
  <2>3. j \in 2..Len(t)
    BY <1>1, <1>3, <2>2
  <2>4. PICK i \in 1..(j - 1) : Parents(t, j) = {i}
    BY <1>4, <2>3
  <2>5. i \in 1..Len(t) /\ j \in 1..Len(t) /\ ~(j <= i)
    BY <1>1, <2>3, <2>4
  <2>6. Ancestors(t, j) = {i} \cup Ancestors(t, i)
    BY <1>3, <2>4, <2>5
  <2>7. i \notin B
    <3> HIDE DEF B
    <3> QED BY <2>2, <2>5
  <2>8. Ancestors(t, i) \subseteq 1..(i - 1)
    BY <2>5, <2>7
  <2>9. 1..(i - 1) \subseteq 1..(j - 1)
    BY <2>3, <2>4
  <2>10. Ancestors(t, j) \subseteq 1..(j - 1)
    BY <2>4, <2>6, <2>8, <2>9
  <2> QED BY <2>2, <2>10
<1> QED
  BY <1>5

Sections(t, i) == {s \in 1..(i - 1) : t[s].name = "section"}
Counted(t, i, name) == Cardinality(Named(t, Ancestors(t, i), name))
Deep(t, i) ==
    /\ t[i].name = "h" => Counted(t, i, "section") = text[First(t[i])].depth
    /\ (t[i].name = "p" /\ First(t[i]) # 0 /\ text[First(t[i])].kind \in {"item", "enum"}) =>
          Counted(t, i, "list") = text[First(t[i])].depth
    /\ (t[i].name \notin {"section", "h"} /\ Sections(t, i) # {}) =>
          Most(Sections(t, i)) \in Named(t, Ancestors(t, i), "section")

LEMMA KeptDeep ==
    ASSUME NEW t, Whole(t), NEW u, Kept(t, u), NEW i \in 1..Len(t), Deep(t, i)
    PROVE  Deep(u, i)
<1>1. Len(t) \in Nat /\ Ancestors(t, i) \subseteq 1..(i - 1)
  BY NodeFacts, AncestorsBelow DEF Whole, Shape
<1>2. \A j \in 1..i : j \in 1..Len(t)
  BY <1>1
<1>3. \A j \in 1..(i - 1) : j \in 1..Len(t)
  BY <1>1
<1>4. \A j \in 1..(i - 1) : u[j].name = t[j].name
  BY <1>3 DEF Kept
<1>5. u[i].name = t[i].name /\ u[i].lines = t[i].lines /\ Ancestors(u, i) = Ancestors(t, i)
  BY DEF Kept
<1>6. First(u[i]) = First(t[i])
  BY <1>5, FirstOfParsed
<1>7. \A name : Named(u, Ancestors(u, i), name) = Named(t, Ancestors(t, i), name)
  BY <1>1, <1>4, <1>5 DEF Named
<1>8. Sections(u, i) = Sections(t, i)
  BY <1>4 DEF Sections
<1>9. \A name : Counted(u, i, name) = Counted(t, i, name)
  BY <1>7 DEF Counted
<1> QED
  BY <1>5, <1>6, <1>7, <1>8, <1>9 DEF Deep

LEMMA LastSection ==
    ASSUME NEW t, NEW p \in Nat, p > 0, NEW i \in Nat, p < i, p = 1 \/ t[p].name = "section", t[1].name = "block",
           \A s \in 1..(i - 1) : t[s].name = "section" => s <= p,
           Sections(t, i) # {}
    PROVE  Most(Sections(t, i)) = p /\ t[p].name = "section"
<1>1. PICK X : X = Sections(t, i)
  OBVIOUS
<1>2. X \in SUBSET (0..i)
  BY <1>1 DEF Sections
<1>3. PICK m : m = Most(X)
  OBVIOUS
<1>4. m \in X /\ \A j \in X : m >= j
  BY <1>1, <1>2, <1>3, MostFacts
<1>5. m \in 1..(i - 1) /\ t[m].name = "section" /\ m <= p
  BY <1>1, <1>4 DEF Sections
<1>6. t[p].name = "section"
  <2>1. p = 1 => m = 1
    BY <1>5
  <2> QED BY <1>5, <2>1
<1>7. p \in 1..(i - 1)
  OBVIOUS
<1>8. p \in X
  BY <1>1, <1>6, <1>7 DEF Sections
<1>9. m >= p
  BY <1>4, <1>8
<1>10. m = p
  BY <1>5, <1>9
<1> QED
  BY <1>1, <1>3, <1>6, <1>10

Grounded(t, p) ==
    /\ Whole(t) /\ \E S : Spine(t, S, p)
    /\ \A a \in Ancestors(t, p) \cup {p} : t[a].name \in {"block", "section"}
    /\ p = 1 \/ t[p].name = "section"
    /\ \A s \in 1..Len(t) : t[s].name = "section" => s <= p
    /\ \A i \in 1..Len(t) : Deep(t, i)

(* The spine to the parent is that of its ancestors. *)
LEMMA GroundedSpine ==
    ASSUME NEW t, NEW p, Grounded(t, p)
    PROVE  \E S : Spine(t, S, p) /\ p \in S /\ \A a \in S : t[a].name \in {"block", "section"}
<1>1. PICK S : Spine(t, S, p)
  BY DEF Grounded
<1>2. PICK a : Ancs(t, a)
  BY DEF Grounded, Whole
<1>3. Ancestors(t, p) = S \ {p}
  BY <1>1, <1>2, SpineAncestors DEF Grounded, Whole
<1>4. p \in S
  BY <1>1 DEF Spine
<1> QED
  BY <1>1, <1>3, <1>4 DEF Grounded

LEMMA LeafGrounded ==
    ASSUME NEW t, NEW p, Grounded(t, p), NEW R, NEW q, Spine(t, R, q), p \in R,
           NEW n, NEW name, NEW lines, Leaf(n, name, lines), name # "section",
           name = "h" => Cardinality(Named(t, R, "section")) = text[First(n)].depth,
           (name = "p" /\ First(n) # 0 /\ text[First(n)].kind \in {"item", "enum"}) =>
               Cardinality(Named(t, R, "list")) = text[First(n)].depth
    PROVE  Grounded(Added(t, q, n), p) /\ Joined(Written(Added(t, q, n)), Written(t), lines)
<1>1. Whole(t) /\ t[1].name = "block" /\ Len(t) \in Nat /\ Len(t) > 0
  BY NodeFacts DEF Grounded, Whole, Shape
<1>2. PICK u : u = Added(t, q, n)
  OBVIOUS
<1>3. PICK l : l = Fresh(t)
  OBVIOUS
<1>4. /\ Whole(u) /\ Kept(t, u) /\ Len(u) = l /\ IsAt(u, l, name, lines) /\ Joined(Written(u), Written(t), lines)
      /\ Ancestors(u, l) = R /\ Spine(u, R, q)
  <2>1. /\ Whole(Added(t, q, n)) /\ Kept(t, Added(t, q, n)) /\ Len(Added(t, q, n)) = Fresh(t)
        /\ IsAt(Added(t, q, n), Fresh(t), name, lines)
        /\ Joined(Written(Added(t, q, n)), Written(t), lines)
        /\ Ancestors(Added(t, q, n), Fresh(t)) = R
        /\ Spine(Added(t, q, n), R, q)
    BY ONLY <1>1, Spine(t, R, q), Leaf(n, name, lines), AddedTree
  <2> QED BY <1>2, <1>3, <2>1
<1>5. l = Len(t) + 1 /\ l \in Nat
  BY <1>1, <1>3 DEF Fresh
<1>6. R \subseteq 1..Len(t) /\ p \in 1..Len(t)
  BY DEF Spine
<1>7. \E S : Spine(u, S, p)
  <2>1. Shape(u)
    BY <1>4 DEF Whole
  <2> QED BY <1>4, <2>1, SpineCut
<1>8. \A j \in 1..Len(t) : u[j].name = t[j].name /\ Ancestors(u, j) = Ancestors(t, j)
  BY <1>4 DEF Kept
<1>9. Ancestors(t, p) \subseteq 1..Len(t)
  <2>1. Ancestors(t, p) \subseteq 1..(p - 1)
    BY <1>1, <1>6, AncestorsBelow
  <2>2. \A j \in 1..(p - 1) : j \in 1..Len(t)
    BY <1>1, <1>6
  <2> QED BY <2>1, <2>2
<1>10. \A a \in Ancestors(u, p) \cup {p} : u[a].name \in {"block", "section"}
  BY <1>6, <1>8, <1>9 DEF Grounded
<1>11. p = 1 \/ u[p].name = "section"
  BY <1>6, <1>8 DEF Grounded
<1>12. u[l].name = name /\ u[l].lines = lines /\ u[1].name = "block"
  <2>1. 1 \in 1..Len(t)
    BY <1>1
  <2> QED BY <1>1, <1>4, <1>8, <2>1 DEF IsAt
<1>13. \A j \in 1..l : j \in 1..Len(t) \/ j = l
  BY <1>1, <1>5
<1>14. \A s \in 1..l : u[s].name = "section" => s <= p
  BY <1>8, <1>12, <1>13 DEF Grounded
<1>15. \A j \in 1..Len(t) : Deep(u, j)
  BY <1>1, <1>4, KeptDeep DEF Grounded
<1>16. Deep(u, l)
  <2>1. \A x : Named(u, R, x) = Named(t, R, x)
    BY <1>6, <1>8 DEF Named
  <2>2. First(u[l]) = First(n)
    <3>1. n.lines = lines
      BY DEF Leaf
    <3> QED BY <1>12, <3>1, FirstOfParsed
  <2>3. ASSUME Sections(u, l) # {} PROVE Most(Sections(u, l)) \in Named(u, R, "section")
    <3>1. \A s \in 1..(l - 1) : s \in 1..l
      BY <1>5
    <3>2. p \in Nat /\ p > 0 /\ p < l
      BY <1>1, <1>5, <1>6
    <3>3. \A s \in 1..(l - 1) : u[s].name = "section" => s <= p
      BY <1>14, <3>1
    <3>4. Most(Sections(u, l)) = p /\ u[p].name = "section"
      BY <1>5, <1>11, <1>12, <2>3, <3>2, <3>3, LastSection
    <3> QED BY <3>4 DEF Named
  <2>4. \A x : Counted(u, l, x) = Cardinality(Named(t, R, x))
    BY <1>4, <2>1 DEF Counted
  <2> QED BY <1>4, <1>12, <2>2, <2>3, <2>4 DEF Deep
<1>17. Grounded(u, p)
  BY <1>4, <1>7, <1>10, <1>11, <1>13, <1>14, <1>15, <1>16 DEF Grounded
<1> QED
  BY <1>2, <1>4, <1>17

LEMMA ListsGrounded ==
    ASSUME NEW t, NEW p, Grounded(t, p), NEW S, Spine(t, S, p), NEW u, NEW q, NEW d, NEW R,
           Placed(t, u, q, S, "list", d, R)
    PROVE  Grounded(u, p)
<1>1. Whole(t) /\ t[1].name = "block" /\ Len(t) \in Nat /\ Len(t) > 0
  BY NodeFacts DEF Grounded, Whole, Shape
<1>2. /\ Whole(u) /\ Kept(t, u) /\ Spine(u, R, q) /\ S \subseteq R
      /\ \A i \in (Len(t) + 1)..Len(u) : u[i].name = "list" /\ S \subseteq Ancestors(u, i)
  BY DEF Placed
<1>3. Len(u) \in Nat /\ Len(u) >= Len(t)
  BY <1>2, NodeFacts DEF Whole, Shape, Kept
<1>4. S \subseteq 1..Len(t) /\ p \in 1..Len(t) /\ p \in S
  BY DEF Spine
<1>5. \E T : Spine(u, T, p)
  <2>1. Shape(u) /\ p \in R
    BY <1>2, <1>4 DEF Whole
  <2> QED BY <1>2, <2>1, SpineCut
<1>6. \A j \in 1..Len(t) : u[j].name = t[j].name /\ Ancestors(u, j) = Ancestors(t, j)
  BY <1>2 DEF Kept
<1>7. Ancestors(t, p) \subseteq 1..Len(t)
  <2>1. Ancestors(t, p) \subseteq 1..(p - 1)
    BY <1>1, <1>4, AncestorsBelow
  <2>2. \A j \in 1..(p - 1) : j \in 1..Len(t)
    BY <1>1, <1>4
  <2> QED BY <2>1, <2>2
<1>8. \A a \in Ancestors(u, p) \cup {p} : u[a].name \in {"block", "section"}
  BY <1>4, <1>6, <1>7 DEF Grounded
<1>9. p = 1 \/ u[p].name = "section"
  BY <1>4, <1>6 DEF Grounded
<1>10. u[1].name = "block"
  <2>1. 1 \in 1..Len(t)
    BY <1>1
  <2> QED BY <1>1, <1>6, <2>1
<1>11. \A j \in 1..Len(u) : j \in 1..Len(t) \/ j \in (Len(t) + 1)..Len(u)
  BY <1>1, <1>3
<1>12. \A s \in 1..Len(u) : u[s].name = "section" => s <= p
  BY <1>2, <1>6, <1>11 DEF Grounded
<1>13. \A j \in 1..Len(t) : Deep(u, j)
  BY <1>1, <1>2, KeptDeep DEF Grounded
<1>14. ASSUME NEW i \in (Len(t) + 1)..Len(u) PROVE Deep(u, i)
  <2>1. u[i].name = "list" /\ p \in Ancestors(u, i)
    BY <1>2, <1>4
  <2>2. ASSUME Sections(u, i) # {} PROVE Most(Sections(u, i)) \in Named(u, Ancestors(u, i), "section")
    <3>1. \A s \in 1..(i - 1) : s \in 1..Len(u)
      BY <1>1, <1>3
    <3>2. p \in Nat /\ p > 0 /\ i \in Nat /\ p < i
      BY <1>1, <1>3, <1>4
    <3>3. \A s \in 1..(i - 1) : u[s].name = "section" => s <= p
      BY <1>12, <3>1
    <3>4. Most(Sections(u, i)) = p /\ u[p].name = "section"
      BY <1>9, <1>10, <2>2, <3>2, <3>3, LastSection
    <3> QED BY <2>1, <3>4 DEF Named
  <2> QED BY <2>1, <2>2 DEF Deep
<1> QED
  BY <1>2, <1>5, <1>8, <1>9, <1>11, <1>12, <1>13, <1>14 DEF Grounded

LEMMA SectionGrounded ==
    ASSUME NEW t, Whole(t), \A i \in 1..Len(t) : Deep(t, i),
           NEW u, NEW q, NEW d \in Nat, d > 0, NEW R, HeaderPlaced(t, u, q, d, R),
           NEW n, Leaf(n, "section", <<>>)
    PROVE  /\ Grounded(Added(u, q, n), Len(Added(u, q, n)))
           /\ Written(Added(u, q, n)) = Written(t)
           /\ \E S : /\ Spine(Added(u, q, n), S, Len(Added(u, q, n)))
                     /\ Cardinality(Named(Added(u, q, n), S, "section")) = d
<1>1. Len(t) \in Nat
  BY NodeFacts DEF Whole, Shape
<1>2. /\ Whole(u) /\ Kept(t, u) /\ Spine(u, R, q) /\ Written(u) = Written(t)
      /\ Cardinality(Named(u, R, "section")) = d - 1
       /\ \A i \in (Len(t) + 1)..Len(u) : u[i].name = "section"
      /\ \A i \in R : u[i].name \in {"block", "section"}
  BY DEF HeaderPlaced, Placed
<1>3. Len(u) \in Nat /\ R \subseteq 1..Len(u) /\ Shape(u)
  BY <1>2, NodeFacts DEF Whole, Shape, Spine
<1>4. PICK v : v = Added(u, q, n)
  OBVIOUS
<1>5. PICK l : l = Fresh(u)
  OBVIOUS
<1>6. /\ Whole(v) /\ Kept(u, v) /\ Len(v) = l /\ IsAt(v, l, "section", <<>>) /\ Joined(Written(v), Written(u), <<>>)
      /\ Ancestors(v, l) = R /\ Spine(v, R \cup {l}, l)
  <2>1. /\ Whole(Added(u, q, n)) /\ Kept(u, Added(u, q, n)) /\ Len(Added(u, q, n)) = Fresh(u)
        /\ IsAt(Added(u, q, n), Fresh(u), "section", <<>>)
        /\ Joined(Written(Added(u, q, n)), Written(u), <<>>)
        /\ Ancestors(Added(u, q, n), Fresh(u)) = R
        /\ Spine(Added(u, q, n), R \cup {Fresh(u)}, Fresh(u))
    BY ONLY <1>2, Leaf(n, "section", <<>>), AddedTree
  <2> QED BY <1>4, <1>5, <2>1
<1>7. l = Len(u) + 1 /\ l \in Nat
  BY <1>3, <1>5 DEF Fresh
<1>8. v[l].name = "section"
  BY <1>6 DEF IsAt
<1>9. \A j \in 1..Len(u) : v[j].name = u[j].name
  BY <1>6 DEF Kept
<1>10. \A a \in Ancestors(v, l) \cup {l} : v[a].name \in {"block", "section"}
  BY <1>2, <1>3, <1>6, <1>8, <1>9
<1>11. \A s \in 1..Len(v) : s <= l
  BY <1>6, <1>7
<1>12. Kept(t, v)
  BY <1>1, <1>2, <1>3, <1>6, <1>7, KeptTransitive
<1>13. \A j \in 1..Len(t) : Deep(v, j)
  BY <1>12, KeptDeep
<1>14. \A j \in 1..Len(v) : j \in 1..Len(t) \/ j \in (Len(t) + 1)..Len(u) \/ j = l
  BY <1>1, <1>3, <1>6, <1>7
<1>15. \A j \in (Len(t) + 1)..Len(u) : j \in 1..Len(u)
  BY <1>1, <1>3
<1>16. \A j \in 1..Len(v) : v[j].name = "section" => Deep(v, j)
  BY DEF Deep
<1>17. \A j \in 1..Len(v) : Deep(v, j)
  BY <1>2, <1>8, <1>9, <1>13, <1>14, <1>15, <1>16
<1>18. Grounded(v, l)
  BY <1>6, <1>8, <1>10, <1>11, <1>17 DEF Grounded
<1>19. Written(v) = Written(t)
  <2>1. Written(u) \in Seq(Nat)
    BY <1>2, WrittenType
  <2>2. Written(v) = Written(u) \o <<>>
    BY <1>6 DEF Joined
  <2> QED BY <1>2, <2>1, <2>2, ConcatEmptySeq
<1>20. Cardinality(Named(v, R \cup {l}, "section")) = d
  <2>1. IsFiniteSet(R) /\ l \notin R
    BY <1>2, <1>3, <1>7, SpineFinite
  <2>2. Named(v, R, "section") = Named(u, R, "section")
    BY <1>3, <1>9 DEF Named
  <2>3. Cardinality(Named(v, R \cup {l}, "section")) = Cardinality(Named(v, R, "section")) + 1
    BY <1>8, <2>1, NamedAdd
  <2> QED BY <1>2, <2>2, <2>3
<1> QED
  BY <1>4, <1>6, <1>18, <1>19, <1>20

-----------------------------------------------------------------------------
(* The invariant *)

LEMMA ToDOMFacts ==
    ASSUME NEW q, q.lines \in Seq(Nat), q.hidden \in Nat, NEW D, D = ToDOM(q)
    PROVE  /\ mode # "pre" /\ q.type = "header" =>
                 /\ Leaf(D[1], "section", <<>>) /\ Len(D) \in {1, 2}
                 /\ Len(D) = 1 => ~HasContent(q)
                 /\ Len(D) = 2 => Leaf(D[2], "h", q.lines)
           /\ mode = "pre" \/ q.type # "header" =>
                 \/ D = <<>> /\ ~HasContent(q)
                 \/ /\ D # <<>>
                    /\ \E name \in {"pre", "hr", "import", "p"} :
                          /\ Leaf(D[1], name, q.lines)
                          /\ name = "p" => mode # "pre" /\ q.type \notin {"pre", "csv"}
<1> DEFINE N(name, lines) == [Node(name, lines) EXCEPT !.hidden = q.hidden]
<1>1. ASSUME NEW name \in Names, NEW lines \in Seq(Nat) PROVE Leaf(N(name, lines), name, lines)
  <2>1. Node(name, lines) \in NodeType
    BY DEF Node, NodeType
  <2>2. N(name, lines) \in NodeType
    BY <2>1 DEF NodeType
  <2>3. N(name, lines).kids = <<>> /\ N(name, lines).name = name /\ N(name, lines).lines = lines
    BY DEF Node
  <2> HIDE DEF N
  <2> QED BY <2>2, <2>3 DEF Leaf
<1>2. Leaf(Node("h", q.lines), "h", q.lines)
  BY DEF Node, NodeType, Leaf, Names
<1>3. <<>> \in Seq(Nat) /\ "section" \in Names /\ "pre" \in Names /\ "hr" \in Names /\ "import" \in Names /\ "p" \in Names
  BY DEF Names
<1>4. D = IF mode = "pre" \/ q.type = "pre" THEN <<N("pre", q.lines)>>
          ELSE IF q.type = "header" THEN
              IF HasContent(q) THEN <<N("section", <<>>), Node("h", q.lines)>> ELSE <<N("section", <<>>)>>
          ELSE IF q.type = "ruler" /\ q.hidden = 0 THEN <<N("hr", q.lines)>>
          ELSE IF ~HasContent(q) THEN <<>>
          ELSE <<N(IF q.type \in {"csv", "script"} THEN "import" ELSE "p", q.lines)>>
  BY DEF ToDOM
<1>5. /\ Leaf(N("section", <<>>), "section", <<>>) /\ Leaf(N("pre", q.lines), "pre", q.lines)
      /\ Leaf(N("hr", q.lines), "hr", q.lines) /\ Leaf(N("import", q.lines), "import", q.lines)
      /\ Leaf(N("p", q.lines), "p", q.lines)
  <2> HIDE DEF N
  <2> QED BY <1>1, <1>3
<1> HIDE DEF N
<1>6. CASE mode # "pre" /\ q.type = "header"
  <2>1. CASE HasContent(q)
    <3>1. D = <<N("section", <<>>), Node("h", q.lines)>>
      BY <1>4, <1>6, <2>1
    <3> QED BY <1>2, <1>5, <1>6, <2>1, <3>1
  <2>2. CASE ~HasContent(q)
    <3>2. D = <<N("section", <<>>)>>
      BY <1>4, <1>6, <2>2
    <3> QED BY <1>5, <1>6, <2>2, <3>2
  <2> QED BY <2>1, <2>2
<1>7. CASE mode = "pre" \/ q.type # "header"
  <2>1. CASE mode = "pre" \/ q.type = "pre"
    BY <1>4, <1>5, <1>7, <2>1
  <2>2. CASE ~(mode = "pre" \/ q.type = "pre")
    <3>1. CASE q.type = "ruler" /\ q.hidden = 0
      BY <1>4, <1>5, <1>7, <2>2, <3>1
    <3>2. CASE ~(q.type = "ruler" /\ q.hidden = 0)
      <4>1. CASE ~HasContent(q)
        BY <1>4, <1>7, <2>2, <3>2, <4>1
      <4>2. CASE HasContent(q) /\ q.type \in {"csv", "script"}
        BY <1>4, <1>5, <1>7, <2>2, <3>2, <4>2
      <4>3. CASE HasContent(q) /\ q.type \notin {"csv", "script"}
        BY <1>4, <1>5, <1>7, <2>2, <3>2, <4>3
      <4> QED BY <4>1, <4>2, <4>3
    <3> QED BY <3>1, <3>2
  <2> QED BY <2>1, <2>2
<1> QED
  BY <1>6, <1>7

LEMMA WrittenStep ==
    ASSUME NEW w \in Seq(Nat), NEW ls \in Seq(Nat), NEW a \in Nat, NEW b \in Nat, a <= b,
           Ascending(w), \A i \in 1..Len(w) : w[i] < a, Ascending(ls), Within(ls, a, b - 1),
           NEW v, v = w \o ls
    PROVE  /\ Ascending(v) /\ \A i \in 1..Len(v) : v[i] < b
           /\ \A j : In(w, j) \/ In(ls, j) => In(v, j)
<1>1. /\ v \in Seq(Nat) /\ Len(v) = Len(w) + Len(ls) /\ Len(w) \in Nat /\ Len(ls) \in Nat
      /\ \A i \in 1..Len(w) : v[i] = w[i]
      /\ \A i \in 1..Len(ls) : v[Len(w) + i] = ls[i]
  BY ConcatFacts
<1>2. PICK m : m = Len(w)
  OBVIOUS
<1>3. PICK n : n = Len(ls)
  OBVIOUS
<1>4. m \in Nat /\ n \in Nat /\ Len(v) = m + n
  BY <1>1, <1>2, <1>3
<1>5. \A i \in 1..m : v[i] = w[i] /\ w[i] < a /\ w[i] \in Nat
  BY <1>1, <1>2, SeqFacts
<1>6. \A i \in 1..n : v[m + i] = ls[i] /\ ls[i] \in a..(b - 1)
  BY <1>1, <1>2, <1>3 DEF Within
<1>7. ASSUME NEW i \in 1..(m + n) PROVE i \in 1..m \/ (i - m \in 1..n /\ m + (i - m) = i)
  BY <1>4
<1>8. \A i \in 1..(m + n) : i \in 1..m \/ v[i] \in a..(b - 1)
  <2>1. ASSUME NEW i \in 1..(m + n), i \notin 1..m PROVE v[i] \in a..(b - 1)
    <3>1. PICK k : k = i - m
      OBVIOUS
    <3>2. k \in 1..n /\ m + k = i
      BY <1>7, <2>1, <3>1
    <3>3. v[m + k] \in a..(b - 1)
      BY <1>6, <3>2
    <3> QED BY <3>2, <3>3
  <2> QED BY <2>1
<1>9. ASSUME NEW i \in 1..Len(v) PROVE v[i] < b
  <2>1. i \in 1..m \/ v[i] \in a..(b - 1)
    BY <1>4, <1>8
  <2> QED BY <1>5, <2>1
<1>10. ASSUME NEW i \in 1..(m + n), NEW j \in 1..(m + n), i < j PROVE v[i] < v[j]
  <2>1. CASE i \in 1..m /\ j \in 1..m
    <3>1. w[i] < w[j]
      BY <1>2, <1>10, <2>1 DEF Ascending
    <3> QED BY <1>5, <2>1, <3>1
  <2>2. CASE i \in 1..m /\ j \notin 1..m
    <3>1. PICK x : x = v[i]
      OBVIOUS
    <3>2. PICK y : y = v[j]
      OBVIOUS
    <3>3. x < a /\ x \in Nat
      BY <1>5, <2>2, <3>1
    <3>4. y \in a..(b - 1)
      BY <1>8, <2>2, <3>2
    <3>5. x < y
      BY <3>3, <3>4
    <3> QED BY <3>1, <3>2, <3>5
  <2>3. CASE i \notin 1..m
    <3>1. j \notin 1..m
      BY <1>4, <1>10, <2>3
    <3>2. PICK x : x = i - m
      OBVIOUS
    <3>3. PICK y : y = j - m
      OBVIOUS
    <3>4. x \in 1..n /\ m + x = i
      BY <1>7, <2>3, <3>2
    <3>5. y \in 1..n /\ m + y = j
      BY <1>7, <3>1, <3>3
    <3>6. x < y
      BY <1>4, <1>10, <3>4, <3>5
    <3>7. ls[x] < ls[y]
      BY <1>3, <3>4, <3>5, <3>6 DEF Ascending
    <3>8. v[m + x] = ls[x] /\ v[m + y] = ls[y]
      BY <1>6, <3>4, <3>5
    <3> QED BY <3>4, <3>5, <3>7, <3>8
  <2> QED BY <2>1, <2>2, <2>3
<1>11. Ascending(v)
  BY <1>4, <1>10 DEF Ascending
<1>12. ASSUME NEW j, In(w, j) PROVE In(v, j)
  <2>1. PICK i \in 1..m : w[i] = j
    BY <1>2, <1>12 DEF In
  <2>2. i \in 1..Len(v)
    BY <1>4
  <2> QED BY <1>5, <2>1, <2>2 DEF In
<1>13. ASSUME NEW j, In(ls, j) PROVE In(v, j)
  <2>1. PICK i \in 1..n : ls[i] = j
    BY <1>3, <1>13 DEF In
  <2>2. m + i \in 1..Len(v)
    BY <1>4
  <2>3. v[m + i] = j
    BY <1>6, <2>1
  <2> QED BY <2>2, <2>3 DEF In
<1> QED
  BY <1>9, <1>11, <1>12, <1>13

(* Where nothing is left to read nothing need be read. *)
LEMMA NoNext ==
    ASSUME Reading, HasNext = {}
    PROVE  \A j \in pos..size : PassedBy(j)
<1>1. /\ LastLine \in Nat /\ Len(text) \in Nat /\ size \in Nat /\ size <= LastLine /\ LastLine <= Len(text)
      /\ pos \in Nat /\ pos > 0
  BY TextFacts, LastLineFacts DEF Reading
<1>2. CASE AtEnd
  <2> SUFFICES ASSUME NEW j \in pos..size PROVE PassedBy(j)
    OBVIOUS
  <2>1. pos <= LastLine /\ (pos = LastLine => j = pos)
    BY <1>1
  <2>2. ~(pos > LastLine)
    BY <1>1, <2>1
  <2>3. pos = LastLine /\ text[pos].kind = "empty"
    BY <1>2, <2>2 DEF AtEnd
  <2>4. text[j].kind = "empty"
    BY <2>1, <2>3
  <2> QED BY <2>4 DEF PassedBy
<1>3. CASE ~AtEnd
  <2>1. Line = {} \/ (IsBegin(text[pos], "skip") /\ Skip = {})
    <3>1. CASE mode = "pre"
      <4>1. Element("pre", Lines(pos, LastLine), LastLine + 1) \in HasNext
        BY <1>3, <3>1 DEF HasNext
      <4> QED BY <4>1
    <3>2. CASE mode # "pre" /\ rest
      <4>1. mode = "par" => Paragraph \in HasNext
        BY <1>3, <3>2 DEF HasNext
      <4>2. mode # "par" => HasNext = Line
        BY <1>3, <3>2 DEF HasNext
      <4>3. mode # "par"
        BY <4>1
      <4>4. HasNext = Line
        BY <4>2, <4>3
      <4>5. Line = {}
        BY <4>4
      <4> QED BY <4>5
    <3>3. CASE mode # "pre" /\ ~rest
      <4>1. CASE IsBegin(text[pos], "skip")
        BY <1>3, <3>3, <4>1 DEF HasNext
      <4>2. CASE ~IsBegin(text[pos], "skip")
        <5>1. \/ Region(text[pos].region) \in HasNext \/ EndOfLine \in HasNext \/ BeginOfLine \in HasNext
              \/ Paragraph \in HasNext \/ HasNext = Line
          BY <1>3, <3>3, <4>2 DEF HasNext
        <5>2. /\ Region(text[pos].region) \notin HasNext /\ EndOfLine \notin HasNext
              /\ BeginOfLine \notin HasNext /\ Paragraph \notin HasNext
          OBVIOUS
        <5>3. HasNext = Line
          BY <5>1, <5>2
        <5>4. Line = {}
          BY <5>3
        <5> QED BY <5>4
      <4> QED BY <4>1, <4>2
    <3> QED BY <3>1, <3>2, <3>3
  <2>2. CASE Line = {}
    <3>1. \A j \in pos..size : j \in pos..Len(text)
      BY <1>1
    <3> QED BY <2>2, <3>1 DEF Line, PassedBy
  <2>3. CASE IsBegin(text[pos], "skip") /\ Skip = {}
    <3>1. EndOf("skip", pos) = 0
      BY <2>3 DEF Skip
    <3>2. \A j \in pos..LastLine : ~IsEnd(text[j], "skip")
      BY <3>1, EndOfFacts
    <3>3. ASSUME NEW j \in pos..size PROVE PassedBy(j)
      <4>1. CASE j = pos
        BY <2>3, <4>1 DEF PassedBy, IsBegin
      <4>2. CASE j # pos
        <5>1. pos \in 1..(j - 1) /\ \A k \in pos..j : k \in pos..LastLine
          BY <1>1, <4>2
        <5>2. Skipped(j)
          BY <2>3, <3>2, <5>1 DEF Skipped
        <5> QED BY <5>2 DEF PassedBy
      <4> QED BY <4>1, <4>2
    <3> QED BY <3>3
  <2> QED BY <2>1, <2>2, <2>3
<1> QED
  BY <1>2, <1>3

(* A line is taken whenever there is one, in the text or behind it. *)
LEMMA NoLine ==
    ASSUME Reading, HasNext = {}, TakesLine
    PROVE  Taking /\ pos <= LastLine /\ \A j \in pos..Len(text) : text[j].kind = "empty"
<1>1. ~AtEnd /\ mode \notin {"pre", "par"}
  BY DEF TakesLine
<1>2. HasNext = Line
  BY <1>1 DEF HasNext, TakesLine
<1>3. pos <= LastLine
  BY <1>1, LastLineFacts DEF AtEnd, Reading
<1>4. \A j \in pos..Len(text) : text[j].kind = "empty"
  <2>1. Line = {}
    BY <1>2
  <2> QED BY <2>1 DEF Line
<1> QED
  BY <1>1, <1>3, <1>4 DEF Taking

-----------------------------------------------------------------------------
Settled(j) == In(Written(tree), j) \/ PassedBy(j) \/ text[j].bare \/ InOrigin(j)
Placing == Ascending(Written(tree)) /\ \A i \in 1..Len(Written(tree)) : Written(tree)[i] < pos
Ledger == \A j \in 1..(pos - 1) : j <= Len(text) => Settled(j)
Finished == over /\ ~failed /\ taken < iMax => \A j \in pos..size : PassedBy(j)
Counting == taken \in Nat /\ taken <= iMax
Beyond == ~(pos <= size + 1) \/ failed => EndsEmpty

IInv ==
    /\ \E t \in Texts : text = t.lines /\ size = t.size
    /\ pos \in Nat /\ pos > 0
    /\ Grounded(tree, parent)
    /\ Placing
    /\ Ledger
    /\ Finished
    /\ Counting
    /\ Aligned(mode, pos)
    /\ Beyond

LEMMA InvReading ==
    ASSUME IInv
    PROVE  Reading /\ DepthsSet /\ Len(text) \in Nat /\ DOMAIN text = 1..Len(text) /\ Written(tree) \in Seq(Nat)
<1>t. PICK t \in Texts : text = t.lines /\ size = t.size
  BY DEF IInv
<1>1. Reading
  BY <1>t, TextAssumption DEF IInv, Reading
<1>2. Len(text) \in Nat /\ DOMAIN text = 1..Len(text)
  BY <1>1, TextFacts
<1>3. DepthsSet
  BY <1>t, <1>2, TextAssumption DEF DepthsSet
<1>4. Written(tree) \in Seq(Nat)
  BY WrittenType DEF IInv, Grounded
<1> QED
  BY <1>1, <1>2, <1>3, <1>4

LEMMA InitInv ==
    ASSUME Init
    PROVE  IInv
<1>1. /\ pos = 1 /\ tree = <<Node("block", <<>>)>> /\ parent = 1 /\ taken = 0 /\ over = FALSE /\ failed = FALSE
      /\ \E t \in Texts : text = t.lines /\ size = t.size
  BY DEF Init
<1>2. PICK t : t = tree
  OBVIOUS
<1>3. Whole(t) /\ Written(t) = <<>> /\ Len(t) = 1 /\ t[1].name = "block"
  BY <1>1, <1>2, RootTree
<1>4. Shape(t)
  BY <1>3 DEF Whole
<1>5. Spine(t, {1}, 1)
  BY <1>4, SpineRoot
<1>6. PICK a : Ancs(t, a)
  BY <1>3 DEF Whole
<1>7. Ancestors(t, 1) = {}
  BY <1>4, <1>6, AncestorsAre
<1>8. Deep(t, 1)
  <2>1. Sections(t, 1) = {}
    BY DEF Sections
  <2> QED BY <1>3, <2>1 DEF Deep
<1>9. \A i \in 1..Len(t) : i = 1
  BY <1>3
<1>10. Grounded(t, 1)
  BY <1>3, <1>5, <1>7, <1>8, <1>9 DEF Grounded
<1>11. Placing
  <2>1. 1..0 = {} /\ Len(<<>>) = 0
    OBVIOUS
  <2> QED BY <1>2, <1>3, <2>1 DEF Placing, Ascending
<1>12. Ledger
  BY <1>1 DEF Ledger
<1>13. Counting
  BY <1>1, LimitAssumption DEF Counting
<1>14. Beyond
  <2>1. PICK x \in Texts : text = x.lines /\ size = x.size
    BY <1>1
  <2>2. size \in 1..Len(text) /\ Len(text) \in Nat
    BY <2>1, TextAssumption, SeqFacts
  <2>3. pos <= size + 1
    BY <1>1, <2>2
  <2> QED BY <1>1, <2>3 DEF Beyond
<1> QED
  BY <1>1, <1>2, <1>10, <1>11, <1>12, <1>13, <1>14 DEF IInv, Finished, Aligned

(* A step that reads an element and puts its lines into the tree, or none of *)
(* them where they need not be there.                                        *)
LEMMA StepInv ==
    ASSUME IInv, NEW e \in HasNext, Advance(e), Grounded(tree', parent'),
           \A j : InOrigin(j) => InOrigin(j)',
           \/ Joined(Written(tree'), Written(tree), e.lines)
           \/ /\ Written(tree') = Written(tree)
              /\ \A j : In(e.lines, j) => text[j].kind = "empty" \/ text[j].bare \/ InOrigin(j)'
    PROVE  IInv'
<1>1. Reading /\ Len(text) \in Nat /\ Written(tree) \in Seq(Nat)
  BY InvReading
<1>2. Fits(e)
  BY <1>1, HasNextFits
<1>3. /\ text' = text /\ size' = size /\ pos' = e.next /\ mode' = e.mode /\ ~over /\ over' = over
      /\ failed' = failed /\ taken < iMax /\ taken' = taken + 1
  BY DEF Advance
<1>4. /\ e.next \in Nat /\ pos <= e.next /\ pos \in Nat /\ pos > 0
      /\ e.lines \in Seq(Nat) /\ Ascending(e.lines) /\ Within(e.lines, pos, e.next - 1)
      /\ \A j \in pos..(e.next - 1) : j <= Len(text) => In(e.lines, j) \/ PassedBy(j)
  BY <1>2 DEF Fits, Plain, IInv
<1>5. PICK w : w = Written(tree)
  OBVIOUS
<1>6. PICK v : v = Written(tree')
  OBVIOUS
<1>7. Ascending(w) /\ \A i \in 1..Len(w) : w[i] < pos
  BY <1>5 DEF IInv, Placing
<1>8. w \in Seq(Nat) /\ Len(w) \in Nat /\ \A i \in 1..Len(w) : w[i] \in Nat
  BY <1>1, <1>5, SeqFacts
<1>9. Ascending(v) /\ (\A i \in 1..Len(v) : v[i] < e.next) /\ (\A j : In(w, j) => In(v, j))
  <2>1. CASE Joined(Written(tree'), Written(tree), e.lines)
    <3>1. v = w \o e.lines
      BY <1>5, <1>6, <2>1 DEF Joined
    <3> QED BY <1>4, <1>7, <1>8, <3>1, WrittenStep
  <2>2. CASE Written(tree') = Written(tree)
    <3>1. v = w
      BY <1>5, <1>6, <2>2
    <3>2. \A i \in 1..Len(w) : w[i] < e.next
      BY <1>4, <1>7, <1>8
    <3> QED BY <1>7, <3>1, <3>2
  <2> QED BY <2>1, <2>2
<1>10. \A j : In(e.lines, j) => In(v, j) \/ text[j].kind = "empty" \/ text[j].bare \/ InOrigin(j)'
  <2>1. CASE Joined(Written(tree'), Written(tree), e.lines)
    <3>1. v = w \o e.lines
      BY <1>5, <1>6, <2>1 DEF Joined
    <3>2. PICK ls : ls = e.lines
      OBVIOUS
    <3>3. /\ ls \in Seq(Nat) /\ Ascending(ls) /\ Within(ls, pos, e.next - 1) /\ v = w \o ls
          /\ e.next \in Nat /\ pos \in Nat /\ pos <= e.next
      BY <1>4, <3>1, <3>2
    <3>4. PICK b : b = e.next
      OBVIOUS
    <3>5. b \in Nat /\ pos <= b /\ Within(ls, pos, b - 1)
      BY <3>3, <3>4
    <3>6. ASSUME NEW j, In(ls, j) PROVE In(v, j)
      BY <1>7, <1>8, <3>3, <3>5, <3>6, WrittenStep
    <3> QED BY <3>2, <3>6
  <2>2. CASE ~Joined(Written(tree'), Written(tree), e.lines)
    BY <2>2
  <2> QED BY <2>1, <2>2
<1>11. \A j : PassedBy(j)' <=> PassedBy(j)
  BY <1>3 DEF PassedBy, Skipped, IsBegin, IsEnd
<1>13. Placing'
  BY <1>3, <1>6, <1>9 DEF Placing
<1>14. Ledger'
  <2>1. ASSUME NEW j \in 1..(e.next - 1), j <= Len(text)
        PROVE  In(v, j) \/ PassedBy(j) \/ text[j].bare \/ InOrigin(j)'
    <3>1. CASE j \in 1..(pos - 1)
      <4>1. In(w, j) \/ PassedBy(j) \/ text[j].bare \/ InOrigin(j)
        BY <1>5, <2>1, <3>1 DEF IInv, Ledger, Settled
      <4> QED BY <1>9, <4>1
    <3>2. CASE j \notin 1..(pos - 1)
      <4>1. j \in pos..(e.next - 1)
        BY <1>4, <3>2
      <4>2. In(e.lines, j) \/ PassedBy(j)
        BY <1>4, <2>1, <4>1
      <4>3. text[j].kind = "empty" => PassedBy(j)
        BY DEF PassedBy
      <4> QED BY <1>10, <4>2, <4>3
    <3> QED BY <3>1, <3>2
  <2>2. \A j \in 1..(e.next - 1) : j <= Len(text) => In(v, j) \/ PassedBy(j)' \/ text[j].bare \/ InOrigin(j)'
    BY <1>11, <2>1
  <2> QED BY <1>3, <1>6, <2>2 DEF Ledger, Settled
<1>15. Finished' /\ Counting'
  <2>1. taken + 1 <= iMax /\ taken + 1 \in Nat
    BY <1>3, LimitAssumption DEF IInv, Counting
  <2> QED BY <1>3, <2>1 DEF Finished, Counting
<1>16. Grounded(tree, parent)'
  BY <1>3 DEF Grounded, Deep, First
<1>17. Aligned(mode, pos)' /\ Beyond'
  <2>1. Aligned(e.mode, e.next) /\ (~(e.next <= size + 1) => EndsEmpty)
    BY <1>1, HasNextAligned DEF IInv, Beyond
  <2>2. EndsEmpty => EndsEmpty'
    BY <1>3 DEF EndsEmpty
  <2>3. failed => EndsEmpty
    BY DEF IInv, Beyond
  <2>4. Aligned(e.mode, e.next) => Aligned(mode, pos)'
    BY <1>3 DEF Aligned
  <2>5. ~(pos' <= size' + 1) => ~(e.next <= size + 1)
    BY <1>3
  <2>6. failed' => failed
    BY <1>3
  <2>7. Beyond'
    BY <2>1, <2>2, <2>3, <2>5, <2>6 DEF Beyond
  <2> QED BY <2>1, <2>4, <2>7
<1>18. \E t \in Texts : text' = t.lines /\ size' = t.size
  BY <1>3 DEF IInv
<1> QED
  BY <1>3, <1>4, <1>13, <1>14, <1>15, <1>16, <1>17, <1>18 DEF IInv

-----------------------------------------------------------------------------
(* What an element read in a state of the invariant is. *)
LEMMA ReadFacts ==
    ASSUME IInv, NEW e \in HasNext, NEW q, q = Parsed(e), NEW f, f = First(e)
    PROVE  /\ Reading /\ Fits(e) /\ e.lines \in Seq(Nat)
           /\ q.lines = e.lines /\ q.hidden \in Nat /\ q.enum \in BOOLEAN /\ q.depth \in Nat
           /\ q.type = "header" => f # 0 /\ q.depth = text[f].depth /\ q.depth > 0
           /\ q.type = "item" => f # 0 /\ q.depth = text[f].depth /\ q.depth > 0
           /\ f # 0 /\ text[f].kind \in {"item", "enum"} => q.type \in {"item", "pre", "csv"}
           /\ ~HasContent(q) => \A j : In(e.lines, j) => text[j].kind = "empty" \/ text[j].bare
<1>1. Reading /\ DepthsSet
  BY InvReading
<1>2. Fits(e) /\ Shaped(e)
  BY <1>1, HasNextFits, HasNextShaped
<1>3. e.lines \in Seq(Nat)
  BY <1>2 DEF Fits
<1>4. /\ q.lines = e.lines /\ q.hidden \in Nat /\ q.enum \in BOOLEAN /\ q.depth \in Nat
      /\ q.type = "header" => f # 0 /\ q.depth = text[f].depth /\ q.depth > 0
      /\ q.type = "item" => f # 0 /\ q.depth = text[f].depth /\ q.depth > 0
      /\ f # 0 /\ text[f].kind \in {"item", "enum"} => q.type \in {"item", "pre", "csv"}
  BY <1>1, <1>2, ParsedFacts
<1>5. ASSUME ~HasContent(q), NEW j, In(e.lines, j) PROVE text[j].kind = "empty" \/ text[j].bare
  BY <1>1, <1>2, <1>4, <1>5, Contentless
<1> QED
  BY <1>1, <1>2, <1>3, <1>4, <1>5

LEMMA SameOrigin ==
    ASSUME UNCHANGED <<context, replaced>>
    PROVE  \A j : InOrigin(j) => InOrigin(j)'
BY DEF InOrigin

LEMMA HeaderInv ==
    ASSUME IInv, Header
    PROVE  IInv'
<1>1. PICK e \in HasNext :
         LET q == Parsed(e)
             at == HeaderParent(tree, q.depth)
             d == ToDOM(q)
             withSection == Added(at[1], at[2], d[1])
         IN  /\ ~IsOrigin(e) /\ mode # "pre" /\ q.type = "header"
             /\ parent' = Len(withSection)
             /\ tree' = IF Len(d) = 1 THEN withSection ELSE Added(withSection, Len(withSection), d[2])
             /\ Advance(e) /\ UNCHANGED <<context, replaced>>
  BY DEF Header
<1>2. PICK q : q = Parsed(e)
  OBVIOUS
<1>3. PICK f : f = First(e)
  OBVIOUS
<1>4. PICK D : D = ToDOM(q)
  OBVIOUS
<1>5. PICK n : n = q.depth
  OBVIOUS
<1>6. mode # "pre" /\ q.type = "header" /\ Advance(e) /\ UNCHANGED <<context, replaced>>
  BY <1>1, <1>2
<1>7. /\ e.lines \in Seq(Nat) /\ q.lines = e.lines /\ q.hidden \in Nat /\ n \in Nat
      /\ f # 0 /\ n = text[f].depth /\ n > 0
      /\ ~HasContent(q) => \A j : In(e.lines, j) => text[j].kind = "empty" \/ text[j].bare
  BY <1>2, <1>3, <1>5, <1>6, ReadFacts
<1>8. /\ Leaf(D[1], "section", <<>>) /\ Len(D) \in {1, 2}
      /\ Len(D) = 1 => ~HasContent(q)
      /\ Len(D) = 2 => Leaf(D[2], "h", q.lines)
  <2>1. q.lines \in Seq(Nat)
    BY <1>7
  <2> QED BY <1>4, <1>6, <1>7, <2>1, ToDOMFacts
<1>9. Whole(tree) /\ \A i \in 1..Len(tree) : Deep(tree, i)
  BY DEF IInv, Grounded
<1>10. PICK t : t = tree
  OBVIOUS
<1>11. \E u, k, R : HeaderParent(t, n) = <<u, k>> /\ HeaderPlaced(t, u, k, n, R)
  <2>1. Whole(t)
    BY <1>9, <1>10
  <2> QED BY <1>7, <2>1, HeaderPlace
<1>12. PICK u, k, R : HeaderParent(t, n) = <<u, k>> /\ HeaderPlaced(t, u, k, n, R)
  BY <1>11
<1>13. PICK v : v = Added(u, k, D[1])
  OBVIOUS
<1>14. PICK l : l = Len(v)
  OBVIOUS
<1>15. parent' = l /\ tree' = IF Len(D) = 1 THEN v ELSE Added(v, l, D[2])
  <2>1. HeaderParent(tree, q.depth)[1] = u /\ HeaderParent(tree, q.depth)[2] = k
    BY <1>5, <1>10, <1>12
  <2> QED BY <1>1, <1>2, <1>4, <1>13, <1>14, <2>1
<1>16. /\ Grounded(v, l) /\ Written(v) = Written(t)
       /\ \E S : Spine(v, S, l) /\ Cardinality(Named(v, S, "section")) = n
  <2>1. /\ Grounded(Added(u, k, D[1]), Len(Added(u, k, D[1])))
        /\ Written(Added(u, k, D[1])) = Written(t)
        /\ \E S : /\ Spine(Added(u, k, D[1]), S, Len(Added(u, k, D[1])))
                  /\ Cardinality(Named(Added(u, k, D[1]), S, "section")) = n
    <3>1. Whole(t) /\ \A i \in 1..Len(t) : Deep(t, i)
      BY <1>9, <1>10
    <3> QED BY <1>7, <1>8, <1>12, <3>1, SectionGrounded
  <2> QED BY <1>13, <1>14, <2>1
<1>17. CASE Len(D) = 1
  <2>1. tree' = v
    BY <1>15, <1>17
  <2>2. Grounded(tree', parent')
    BY <1>15, <1>16, <2>1
  <2>3. Written(tree') = Written(tree)
    BY <1>10, <1>16, <2>1
  <2>4. \A j : In(e.lines, j) => text[j].kind = "empty" \/ text[j].bare \/ InOrigin(j)'
    BY <1>7, <1>8, <1>17
  <2> QED BY <1>6, <2>2, <2>3, <2>4, SameOrigin, StepInv
<1>18. CASE Len(D) = 2
  <2>1. tree' = Added(v, l, D[2])
    BY <1>15, <1>18
  <2>2. PICK S : Spine(v, S, l) /\ Cardinality(Named(v, S, "section")) = n
    BY <1>16
  <2>3. l \in S
    BY <2>2 DEF Spine
  <2>4. Leaf(D[2], "h", q.lines) /\ First(D[2]) = f
    <3>1. Leaf(D[2], "h", q.lines)
      BY <1>8, <1>18
    <3>2. D[2].lines = e.lines
      BY <1>7, <3>1 DEF Leaf
    <3> QED BY <1>3, <3>1, <3>2, FirstOfParsed
  <2>5. Cardinality(Named(v, S, "section")) = text[First(D[2])].depth
    BY <1>7, <2>2, <2>4
  <2>6. PICK x : x = D[2]
    OBVIOUS
  <2>7. PICK ls : ls = q.lines
    OBVIOUS
  <2>8. Leaf(x, "h", ls) /\ Cardinality(Named(v, S, "section")) = text[First(x)].depth
    BY <2>4, <2>5, <2>6, <2>7
  <2>9. Grounded(Added(v, l, x), l) /\ Joined(Written(Added(v, l, x)), Written(v), ls)
    BY <1>16, <2>2, <2>3, <2>8, LeafGrounded
  <2>10. Grounded(tree', parent')
    BY <1>15, <2>1, <2>6, <2>9
  <2>11. Joined(Written(tree'), Written(tree), e.lines)
    BY <1>7, <1>10, <1>16, <2>1, <2>6, <2>7, <2>9
  <2> QED BY <1>6, <2>10, <2>11, SameOrigin, StepInv
<1> QED
  BY <1>8, <1>17, <1>18

LEMMA ItemInv ==
    ASSUME IInv, Item
    PROVE  IInv'
<1>1. PICK e \in HasNext :
         LET q == Parsed(e)
             at == ItemParent(tree, parent, q.depth, q.enum)
         IN  /\ ~IsOrigin(e) /\ mode # "pre" /\ q.type = "item" /\ ToDOM(q) # <<>>
             /\ tree' = Added(at[1], at[2], ToDOM(q)[1])
             /\ Advance(e) /\ UNCHANGED <<parent, context, replaced>>
  BY DEF Item
<1>2. PICK q : q = Parsed(e)
  OBVIOUS
<1>3. PICK f : f = First(e)
  OBVIOUS
<1>4. PICK D : D = ToDOM(q)
  OBVIOUS
<1>5. PICK n : n = q.depth
  OBVIOUS
<1>6. /\ mode # "pre" /\ q.type = "item" /\ Advance(e) /\ D # <<>> /\ parent' = parent
      /\ UNCHANGED <<context, replaced>>
  BY <1>1, <1>2, <1>4
<1>7. /\ e.lines \in Seq(Nat) /\ q.lines = e.lines /\ q.hidden \in Nat /\ n \in Nat /\ q.enum \in BOOLEAN
      /\ f # 0 /\ n = text[f].depth /\ n > 0
  BY <1>2, <1>3, <1>5, <1>6, ReadFacts
<1>8. PICK name \in {"pre", "hr", "import", "p"} : Leaf(D[1], name, q.lines)
  <2>1. q.lines \in Seq(Nat)
    BY <1>7
  <2> QED BY <1>4, <1>6, <1>7, <2>1, ToDOMFacts
<1>9. PICK t : t = tree
  OBVIOUS
<1>10. PICK p : p = parent
  OBVIOUS
<1>11. Grounded(t, p) /\ Whole(t)
  BY <1>9, <1>10 DEF IInv, Grounded
<1>12. PICK S : Spine(t, S, p) /\ p \in S /\ \A a \in S : t[a].name \in {"block", "section"}
  BY <1>11, GroundedSpine
<1>13. PICK g : g = q.enum
  OBVIOUS
<1>14. \A i \in S : t[i].name # "list"
  BY <1>12
<1>15. \E u, k, R : ItemParent(t, p, n, g) = <<u, k>> /\ Placed(t, u, k, S, "list", n, R)
  <2>1. g \in BOOLEAN
    BY <1>7, <1>13
  <2> QED BY <1>7, <1>11, <1>12, <1>14, <2>1, ItemPlace
<1>16. PICK u, k, R : ItemParent(t, p, n, g) = <<u, k>> /\ Placed(t, u, k, S, "list", n, R)
  BY <1>15
<1>17. PICK x : x = D[1]
  OBVIOUS
<1>18. tree' = Added(u, k, x)
  <2>1. ItemParent(tree, parent, q.depth, q.enum)[1] = u /\ ItemParent(tree, parent, q.depth, q.enum)[2] = k
    BY <1>5, <1>9, <1>10, <1>13, <1>16
  <2> QED BY <1>1, <1>2, <1>4, <1>17, <2>1
<1>19. Grounded(u, p)
  BY <1>11, <1>12, <1>16, ListsGrounded
<1>20. Spine(u, R, k) /\ p \in R /\ Written(u) = Written(t) /\ Cardinality(Named(u, R, "list")) = n
  BY <1>12, <1>16 DEF Placed
<1>21. PICK ls : ls = e.lines
  OBVIOUS
<1>22. Leaf(x, name, ls) /\ First(x) = f
  <2>1. Leaf(x, name, ls)
    BY <1>7, <1>8, <1>17, <1>21
  <2>2. x.lines = e.lines
    BY <1>21, <2>1 DEF Leaf
  <2> QED BY <1>3, <2>1, <2>2, FirstOfParsed
<1>23. Cardinality(Named(u, R, "list")) = text[First(x)].depth
  BY <1>7, <1>20, <1>22
<1>24. name # "section" /\ name # "h"
  OBVIOUS
<1>25. Grounded(Added(u, k, x), p) /\ Joined(Written(Added(u, k, x)), Written(u), ls)
  BY <1>19, <1>20, <1>22, <1>23, <1>24, LeafGrounded
<1>26. Grounded(tree', parent')
  BY <1>6, <1>10, <1>18, <1>25
<1>27. Joined(Written(tree'), Written(tree), e.lines)
  BY <1>9, <1>18, <1>20, <1>21, <1>25
<1> QED
  BY <1>6, <1>26, <1>27, SameOrigin, StepInv

LEMMA OtherInv ==
    ASSUME IInv, Other
    PROVE  IInv'
<1>1. PICK e \in HasNext :
         LET q == Parsed(e)
         IN  /\ ~IsOrigin(e) /\ (mode = "pre" \/ q.type \notin {"header", "item"}) /\ ToDOM(q) # <<>>
             /\ tree' = Added(tree, parent, ToDOM(q)[1])
             /\ Advance(e) /\ UNCHANGED <<parent, context, replaced>>
  BY DEF Other
<1>2. PICK q : q = Parsed(e)
  OBVIOUS
<1>3. PICK f : f = First(e)
  OBVIOUS
<1>4. PICK D : D = ToDOM(q)
  OBVIOUS
<1>5. /\ (mode = "pre" \/ q.type \notin {"header", "item"}) /\ Advance(e) /\ D # <<>> /\ parent' = parent
      /\ UNCHANGED <<context, replaced>>
  BY <1>1, <1>2, <1>4
<1>6. /\ e.lines \in Seq(Nat) /\ q.lines = e.lines /\ q.hidden \in Nat
      /\ f # 0 /\ text[f].kind \in {"item", "enum"} => q.type \in {"item", "pre", "csv"}
  BY <1>2, <1>3, ReadFacts
<1>7. PICK name \in {"pre", "hr", "import", "p"} :
         Leaf(D[1], name, q.lines) /\ (name = "p" => mode # "pre" /\ q.type \notin {"pre", "csv"})
  <2>1. q.lines \in Seq(Nat) /\ (mode = "pre" \/ q.type # "header")
    BY <1>5, <1>6
  <2> QED BY <1>4, <1>5, <1>6, <2>1, ToDOMFacts
<1>8. PICK t : t = tree
  OBVIOUS
<1>9. PICK p : p = parent
  OBVIOUS
<1>10. Grounded(t, p)
  BY <1>8, <1>9 DEF IInv
<1>11. PICK S : Spine(t, S, p) /\ p \in S
  BY <1>10, GroundedSpine
<1>12. PICK x : x = D[1]
  OBVIOUS
<1>13. tree' = Added(t, p, x)
  BY <1>1, <1>2, <1>4, <1>8, <1>9, <1>12
<1>14. PICK ls : ls = e.lines
  OBVIOUS
<1>15. Leaf(x, name, ls) /\ First(x) = f
  <2>1. Leaf(x, name, ls)
    BY <1>6, <1>7, <1>12, <1>14
  <2>2. x.lines = e.lines
    BY <1>14, <2>1 DEF Leaf
  <2> QED BY <1>3, <2>1, <2>2, FirstOfParsed
<1>16. name # "section" /\ name # "h"
  OBVIOUS
<1>17. ~(name = "p" /\ First(x) # 0 /\ text[First(x)].kind \in {"item", "enum"})
  BY <1>5, <1>6, <1>7, <1>15
<1>18. Grounded(Added(t, p, x), p) /\ Joined(Written(Added(t, p, x)), Written(t), ls)
  BY <1>10, <1>11, <1>15, <1>16, <1>17, LeafGrounded
<1>19. Grounded(tree', parent')
  BY <1>5, <1>9, <1>13, <1>18
<1>20. Joined(Written(tree'), Written(tree), e.lines)
  BY <1>8, <1>13, <1>14, <1>18
<1> QED
  BY <1>5, <1>19, <1>20, SameOrigin, StepInv

LEMMA QuietInv ==
    ASSUME IInv, Origin \/ Nothing
    PROVE  IInv'
<1>1. CASE Origin
  <2>1. PICK e \in HasNext : /\ context' = e.lines /\ replaced' = replaced \cup {context[i] : i \in DOMAIN context}
                             /\ Advance(e) /\ UNCHANGED <<tree, parent>>
    BY <1>1 DEF Origin
  <2>2. Grounded(tree', parent') /\ Written(tree') = Written(tree)
    BY <2>1 DEF IInv
  <2>3. \A j : InOrigin(j) => InOrigin(j)'
    BY <2>1 DEF InOrigin
  <2>4. DOMAIN e.lines = 1..Len(e.lines)
    <3>1. e.lines \in Seq(Nat)
      BY InvReading, HasNextFits DEF Fits
    <3> QED BY <3>1, SeqFacts
  <2>5. ASSUME NEW j, In(e.lines, j) PROVE InOrigin(j)'
    BY <2>1, <2>4, <2>5 DEF In, InOrigin
  <2> QED BY <2>1, <2>2, <2>3, <2>5, StepInv
<1>2. CASE Nothing
  <2>1. PICK e \in HasNext :
           ToDOM(Parsed(e)) = <<>> /\ Advance(e) /\ UNCHANGED <<tree, parent, context, replaced>>
    BY <1>2 DEF Nothing
  <2>2. Grounded(tree', parent') /\ Written(tree') = Written(tree)
    BY <2>1 DEF IInv
  <2>3. PICK q : q = Parsed(e)
    OBVIOUS
  <2>4. /\ q.lines \in Seq(Nat) /\ q.hidden \in Nat
        /\ ~HasContent(q) => \A j : In(e.lines, j) => text[j].kind = "empty" \/ text[j].bare
    BY <2>3, ReadFacts
  <2>5. ~HasContent(q)
    <3>1. PICK D : D = ToDOM(q)
      OBVIOUS
    <3>2. D = <<>> /\ Len(D) = 0
      BY <2>1, <2>3, <3>1
    <3>3. CASE mode # "pre" /\ q.type = "header"
      <4>1. Len(D) \in {1, 2}
        BY <2>4, <3>1, <3>3, ToDOMFacts
      <4> QED BY <3>2, <4>1
    <3>4. CASE mode = "pre" \/ q.type # "header"
      BY <2>4, <3>1, <3>2, <3>4, ToDOMFacts
    <3> QED BY <3>3, <3>4
  <2> QED BY <2>1, <2>2, <2>4, <2>5, SameOrigin, StepInv
<1> QED
  BY <1>1, <1>2

LEMMA EndInv ==
    ASSUME IInv, End
    PROVE  IInv'
<1>1. /\ text' = text /\ size' = size /\ pos' = pos /\ mode' = mode /\ tree' = tree /\ parent' = parent
      /\ taken' = taken /\ context' = context /\ replaced' = replaced
      /\ failed' = (taken < iMax /\ TakesLine) /\ (taken >= iMax \/ HasNext = {})
  BY DEF End
<1>2. taken < iMax => HasNext = {}
  <2>1. taken \in Nat /\ iMax \in Nat
    BY LimitAssumption DEF IInv, Counting
  <2> QED BY <1>1, <2>1
<1>3. \A j : (PassedBy(j)' <=> PassedBy(j)) /\ (InOrigin(j)' <=> InOrigin(j))
  BY <1>1 DEF PassedBy, Skipped, IsBegin, IsEnd, InOrigin
<1>4. Placing'
  BY <1>1 DEF IInv, Placing
<1>5. Ledger'
  BY <1>1, <1>3 DEF IInv, Ledger, Settled
<1>6. Finished' /\ Counting'
  <2>1. taken < iMax => \A j \in pos..size : PassedBy(j)
    BY <1>2, InvReading, NoNext
  <2>2. Finished'
    BY <1>1, <1>3, <2>1 DEF Finished
  <2> QED BY <1>1, <2>2 DEF IInv, Counting
<1>7. Grounded(tree, parent)'
  <2>1. Grounded(tree', parent')
    BY <1>1 DEF IInv
  <2>2. text' = text
    BY <1>1
  <2> QED BY ONLY <2>1, <2>2 DEF Grounded, Deep, First
<1>8. Aligned(mode, pos)'
  BY <1>1 DEF IInv, Aligned
<1>9. Beyond'
  <2>1. ASSUME failed', pos <= size + 1 PROVE EndsEmpty
    <3>1. Taking /\ pos <= LastLine /\ \A j \in pos..Len(text) : text[j].kind = "empty"
      BY <1>1, <1>2, <2>1, InvReading, NoLine
    <3>2. pos <= size /\ \A j \in pos..size : j \in pos..Len(text)
      <4>1. LastLine = size /\ size <= Len(text) /\ size \in Nat /\ Len(text) \in Nat
        BY <2>1, InvReading, LastLineFacts
      <4> QED BY <3>1, <4>1
    <3> QED BY <3>1, <3>2, InvReading, RestEmpty DEF IInv
  <2>2. ~(pos <= size + 1) => EndsEmpty
    BY DEF IInv, Beyond
  <2>3. EndsEmpty => EndsEmpty'
    BY <1>1 DEF EndsEmpty
  <2>4. ~(pos <= size + 1)' <=> ~(pos <= size + 1)
    BY <1>1
  <2> QED BY <2>1, <2>2, <2>3, <2>4 DEF Beyond
<1>10. \E t \in Texts : text' = t.lines /\ size' = t.size
  BY <1>1 DEF IInv
<1>11. pos' \in Nat /\ pos' > 0
  BY <1>1 DEF IInv
<1> QED
  BY <1>4, <1>5, <1>6, <1>7, <1>8, <1>9, <1>10, <1>11 DEF IInv

LEMMA StutterInv ==
    ASSUME IInv, UNCHANGED vars
    PROVE  IInv'
<1>1. /\ text' = text /\ size' = size /\ pos' = pos /\ mode' = mode /\ tree' = tree /\ parent' = parent
      /\ over' = over /\ failed' = failed /\ taken' = taken /\ context' = context /\ replaced' = replaced
  BY DEF vars
<1>2. \A j : (PassedBy(j)' <=> PassedBy(j)) /\ (InOrigin(j)' <=> InOrigin(j))
  BY <1>1 DEF PassedBy, Skipped, IsBegin, IsEnd, InOrigin
<1>3. Placing'
  BY <1>1 DEF IInv, Placing
<1>4. Ledger'
  BY <1>1, <1>2 DEF IInv, Ledger, Settled
<1>5. Finished' /\ Counting'
  BY <1>1, <1>2 DEF IInv, Finished, Counting
<1>6. Grounded(tree, parent)'
  <2>1. Grounded(tree', parent')
    BY <1>1 DEF IInv
  <2>2. text' = text
    BY <1>1
  <2> QED BY ONLY <2>1, <2>2 DEF Grounded, Deep, First
<1>7. Aligned(mode, pos)' /\ Beyond'
  BY <1>1 DEF IInv, Aligned, Beyond, EndsEmpty
<1>8. \E t \in Texts : text' = t.lines /\ size' = t.size
  BY <1>1 DEF IInv
<1>9. pos' \in Nat /\ pos' > 0
  BY <1>1 DEF IInv
<1> QED
  BY <1>3, <1>4, <1>5, <1>6, <1>7, <1>8, <1>9 DEF IInv

LEMMA Invariant == Spec => []IInv
<1>1. Init => IInv
  BY InitInv
<1>2. IInv /\ [Next]_vars => IInv'
  <2> SUFFICES ASSUME IInv, [Next]_vars PROVE IInv'
    OBVIOUS
  <2>1. CASE Origin
    BY <2>1, QuietInv
  <2>2. CASE Nothing
    BY <2>2, QuietInv
  <2>3. CASE Header
    BY <2>3, HeaderInv
  <2>4. CASE Item
    BY <2>4, ItemInv
  <2>5. CASE Other
    BY <2>5, OtherInv
  <2>6. CASE End
    BY <2>6, EndInv
  <2>7. CASE UNCHANGED vars
    BY <2>7, StutterInv
  <2> QED BY <2>1, <2>2, <2>3, <2>4, <2>5, <2>6, <2>7 DEF Next
<1> QED
  BY <1>1, <1>2, PTL DEF Spec

-----------------------------------------------------------------------------
(* The lines of the tree are in the order of the text and none is there twice, *)
(* however deep an element is put: the search of GetParentElement() for the    *)
(* parent of an element follows last children only.                            *)
THEOREM Ordering == Spec => []OrderKept
<1>1. IInv => OrderKept
  <2> SUFFICES ASSUME IInv PROVE OrderKept
    OBVIOUS
  <2>1. PICK w : w = Written(tree)
    OBVIOUS
  <2>2. w \in Seq(Nat) /\ DOMAIN w = 1..Len(w)
    BY <2>1, InvReading, SeqFacts
  <2>3. Ascending(w)
    BY <2>1 DEF IInv, Placing
  <2>4. \A i, j \in DOMAIN w : i < j => w[i] < w[j]
    BY <2>2, <2>3 DEF Ascending
  <2> QED BY <2>1, <2>4 DEF OrderKept
<1> QED
  BY <1>1, Invariant, PTL

(* At the end every line of the text is in the tree, but for those that need   *)
(* not be there and those of an element that sets the origin; only the limit   *)
(* of elements leaves lines unread.  What is behind the text is read only when *)
(* the text, or what follows its last marker, is nothing but empty lines.      *)
THEOREM Lossless == Spec => []NothingLost
<1>1. IInv => NothingLost
  <2> SUFFICES ASSUME IInv PROVE NothingLost
    OBVIOUS
  <2>1. PICK w : w = Written(tree)
    OBVIOUS
  <2>2. /\ w \in Seq(Nat) /\ DOMAIN w = 1..Len(w) /\ Len(text) \in Nat /\ size \in Nat /\ size <= Len(text)
        /\ pos \in Nat /\ pos > 0 /\ \A i \in 1..Len(w) : w[i] \in Nat
    BY <2>1, InvReading, SeqFacts, LastLineFacts DEF IInv, Reading
  <2>3. PICK W : W = {w[i] : i \in DOMAIN w}
    OBVIOUS
  <2>4. ASSUME over, ~failed, NEW j \in 1..size
        PROVE  \/ j \in W \/ text[j].kind \in {"empty", "begin", "end"} \/ text[j].bare
               \/ Skipped(j) \/ InOrigin(j)
               \/ taken = iMax /\ j >= pos
    <3>1. j \in Nat /\ j <= Len(text) /\ j > 0
      BY <2>2
    <3>2. CASE j \in 1..(pos - 1)
      <4>1. In(w, j) \/ PassedBy(j) \/ text[j].bare \/ InOrigin(j)
        BY <2>1, <3>1, <3>2 DEF IInv, Ledger, Settled
      <4>2. In(w, j) => j \in W
        BY <2>2, <2>3 DEF In
      <4> QED BY <4>1, <4>2 DEF PassedBy
    <3>3. CASE j \notin 1..(pos - 1)
      <4>1. j \in pos..size /\ j >= pos
        BY <2>2, <3>1, <3>3
      <4>2. CASE taken < iMax
        <5>1. PassedBy(j)
          BY <2>4, <4>1, <4>2 DEF IInv, Finished
        <5> QED BY <5>1 DEF PassedBy
      <4>3. CASE ~(taken < iMax)
        <5>1. taken = iMax
          BY <4>3, LimitAssumption DEF IInv, Counting
        <5> QED BY <4>1, <5>1
      <4> QED BY <4>2, <4>3
    <3> QED BY <3>2, <3>3
  <2>5. ASSUME NEW j \in W, j > size PROVE EndsEmpty
    <3>1. j \in Nat /\ j < pos
      <4>1. PICK i \in 1..Len(w) : j = w[i]
        BY <2>2, <2>3
      <4>2. w[i] < pos
        BY <2>1 DEF IInv, Placing
      <4> QED BY <2>2, <4>1, <4>2
    <3>2. ~(pos <= size + 1)
      BY <2>2, <2>5, <3>1
    <3> QED BY <3>2 DEF IInv, Beyond
  <2>6. failed => EndsEmpty
    BY DEF IInv, Beyond
  <2> QED BY <2>1, <2>3, <2>4, <2>5, <2>6 DEF NothingLost
<1> QED
  BY <1>1, Invariant, PTL

(* The result is a tree, a heading of n marks is in n sections and an item of  *)
(* n marks in n lists, and whatever is not a heading is in the section of the  *)
(* last heading before it.                                                     *)
THEOREM Nesting == Spec => []Nested
<1>1. IInv => Nested
  <2> SUFFICES ASSUME IInv, NEW i \in 2..Len(tree)
               PROVE  LET sections == {s \in 1..(i - 1) : tree[s].name = "section"}
                          above == {a \in Ancestors(tree, i) : tree[a].name = "section"}
                          l == text[First(tree[i])]
                      IN  /\ Cardinality(Parents(tree, i)) = 1 /\ Parents(tree, i) \subseteq 1..(i - 1)
                          /\ tree[i].name = "h" => Count(i, "section") = l.depth
                          /\ (tree[i].name = "p" /\ First(tree[i]) # 0 /\ l.kind \in {"item", "enum"}) =>
                                Count(i, "list") = l.depth
                          /\ (tree[i].name \notin {"section", "h"} /\ sections # {}) => Most(sections) \in above
    BY DEF Nested
  <2>1. Whole(tree) /\ Shape(tree) /\ Len(tree) \in Nat /\ \A j \in 1..Len(tree) : Deep(tree, j)
    BY NodeFacts DEF IInv, Grounded, Whole, Shape
  <2>2. i \in 1..Len(tree)
    BY <2>1
  <2>3. Deep(tree, i)
    BY <2>1, <2>2
  <2>4. PICK k \in 1..(i - 1) : Parents(tree, i) = {k}
    BY <2>1, ParentsAre
  <2>5. Cardinality(Parents(tree, i)) = 1 /\ Parents(tree, i) \subseteq 1..(i - 1)
    BY <2>4, FS_Singleton
  <2>6. \A name : Count(i, name) = Counted(tree, i, name)
    BY DEF Count, Counted, Named
  <2>7. tree[i].name = "h" => Count(i, "section") = text[First(tree[i])].depth
    BY <2>3, <2>6 DEF Deep
  <2>8. (tree[i].name = "p" /\ First(tree[i]) # 0 /\ text[First(tree[i])].kind \in {"item", "enum"}) =>
            Count(i, "list") = text[First(tree[i])].depth
    BY <2>3, <2>6 DEF Deep
  <2>9. PICK X : X = Sections(tree, i)
    OBVIOUS
  <2>10. PICK Y : Y = Named(tree, Ancestors(tree, i), "section")
    OBVIOUS
  <2>11. (tree[i].name \notin {"section", "h"} /\ X # {}) => Most(X) \in Y
    BY <2>3, <2>9, <2>10 DEF Deep
  <2>12. X = {s \in 1..(i - 1) : tree[s].name = "section"}
    BY <2>9 DEF Sections
  <2>13. Y = {a \in Ancestors(tree, i) : tree[a].name = "section"}
    BY <2>10 DEF Named
  <2>14. (tree[i].name \notin {"section", "h"} /\ {s \in 1..(i - 1) : tree[s].name = "section"} # {}) =>
             Most({s \in 1..(i - 1) : tree[s].name = "section"}) \in {a \in Ancestors(tree, i) : tree[a].name = "section"}
    BY ONLY <2>11, <2>12, <2>13, Zenon
  <2> QED BY <2>5, <2>7, <2>8, <2>14
<1> QED
  BY <1>1, Invariant, PTL

================================================================================
