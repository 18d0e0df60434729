---------------------------- MODULE Petrinet_proofs ----------------------------
(* What the search of petrinet.c finds, in any net.  It reports simple paths  *)
(* only, each of them once: every path reported is before the one that is     *)
(* being built, by the index of the knot where they part.  And it reports all *)
(* of them: whatever is before the path being built has been reported.        *)
EXTENDS Petrinet, TLAPS, SequenceTheorems, FiniteSetTheorems, WellFoundedInduction

\* Edges lead from states to transitions and back
Arcs == (States \X Transitions) \cup (Transitions \X States)

Typed ==
    /\ Len(doc.s) \in Nat /\ Len(doc.t) \in Nat /\ Len(doc.e) \in Nat
    /\ edge \subseteq Arcs
    /\ max \in Nat \cup {None}
    /\ path \in Seq(Knots) /\ paths \in Seq(Seq(Knots))
    /\ pc \in {"new", "forward", "backward", "next", "done"}
    /\ pc = "new" => paths = <<>>
    /\ pc # "new" => start \in States

\* What is reported of a path
Reported(p) == SimplePath(p) /\ Last(p) = target /\ (max # None => Len(p) - 1 <= max)
Listed == \A i \in 1..Len(paths) : Reported(paths[i])
Once == \A i, j \in 1..Len(paths) : paths[i] = paths[j] => i = j

\* Path q parts from p at a knot of lower index, or goes on where p ends
Lower(q, p) ==
    \E n \in 1..Len(p) : n <= Len(q) /\ q[n][2] < p[n][2] /\ \A m \in 1..(n - 1) : q[m] = p[m]
Extends(q, p) == Len(p) <= Len(q) /\ \A m \in 1..Len(p) : q[m] = p[m]

\* The search has passed all paths that it has reported
Passed ==
    /\ pc = "forward" => \A i \in 1..Len(paths) : Lower(paths[i], path)
    /\ pc = "backward" => \A i \in 1..Len(paths) : Lower(paths[i], path) \/ Extends(paths[i], path)

Walking == pc \in {"forward", "backward"} => SimplePath(path)

IInv == Typed /\ Listed /\ Once /\ Passed /\ Walking

-----------------------------------------------------------------------------
(* Knots *)

LEMMA KnotFacts ==
    ASSUME Len(doc.s) \in Nat, Len(doc.t) \in Nat, NEW k \in Knots
    PROVE  /\ k[2] \in Nat
           /\ k \in States <=> k[1] = "state"
           /\ k \in Transitions <=> k[1] = "transition"
BY DEF Knots, States, Transitions

\* Numbers that are not none have a least one
LEMMA LeastNumber ==
    ASSUME NEW S \in SUBSET Nat, S # {}
    PROVE  \E i \in S : \A j \in S : i <= j
<1>1. PICK i \in S : \A j \in S : ~(<<j, i>> \in OpToRel(<, Nat))
  BY NatLessThanWellFounded, WFMin
<1>2. ASSUME NEW j \in S
      PROVE  i <= j
  <2>1. i \in Nat /\ j \in Nat
    OBVIOUS
  <2>2. ~(j < i)
    BY <1>1, <2>1 DEF OpToRel
  <2> QED BY <2>1, <2>2
<1> QED
  BY <1>2

LEMMA LeastIn ==
    ASSUME NEW K, K # {}, \A k \in K : k[2] \in Nat
    PROVE  Least(K) \in K /\ \A m \in K : Least(K)[2] <= m[2]
<1> DEFINE N == {k[2] : k \in K}
<1>1. N \in SUBSET Nat /\ N # {}
  OBVIOUS
<1>2. PICK i \in N : \A j \in N : i <= j
  BY <1>1, LeastNumber
<1>3. PICK k \in K : k[2] = i
  BY <1>2
<1>4. \A m \in K : k[2] <= m[2]
  BY <1>2, <1>3
<1> QED
  BY <1>4 DEF Least

LEMMA FirstIndexIn ==
    ASSUME NEW ids, Len(ids) \in Nat, NEW id, FirstIndex(ids, id) # None
    PROVE  FirstIndex(ids, id) \in 1..Len(ids) /\ ids[FirstIndex(ids, id)] = id
<1> DEFINE hits == {i \in 1..Len(ids) : ids[i] = id}
<1>1. hits # {} /\ FirstIndex(ids, id) = CHOOSE i \in hits : \A j \in hits : i <= j
  BY DEF FirstIndex, Min
<1>2. hits \in SUBSET Nat
  OBVIOUS
<1>3. \E i \in hits : \A j \in hits : i <= j
  <2> HIDE DEF hits
  <2> QED BY <1>1, <1>2, LeastNumber
<1> QED
  BY <1>1, <1>3

\* The edges of a document stay what they are
LEMMA FramedEdges ==
    ASSUME doc' = doc
    PROVE  EdgesOf(doc.e)' = EdgesOf(doc.e) /\ \A q : EdgesIn(q)' = EdgesIn(q)
<1>1. \A e : EdgeOf(e)' = EdgeOf(e)
  BY DEF EdgeOf, StateFor, TransitionFor
<1>2. EdgeElements(doc.e)' = EdgeElements(doc.e)
  <2>1. \A i : EdgeOf(doc.e[i])' = EdgeOf(doc.e[i])
    BY <1>1
  <2> QED BY <2>1 DEF EdgeElements
<1>3. EdgesOf(doc.e)' = EdgesOf(doc.e)
  <2>1. \A i : EdgeOf(doc.e[i])' = EdgeOf(doc.e[i])
    BY <1>1
  <2> QED BY <1>2, <2>1 DEF EdgesOf
<1>4. \A e : EdgePtr(e)' = EdgePtr(e)
  <2> SUFFICES ASSUME NEW e PROVE EdgePtr(e)' = EdgePtr(e)
    OBVIOUS
  <2> DEFINE S == {i \in EdgeElements(doc.e) : EdgeOf(doc.e[i]) = e}
  <2>1. S' = S
    BY <1>1, <1>2
  <2>2. EdgePtr(e) = Min(S) /\ EdgePtr(e)' = Min(S')
    BY DEF EdgePtr, Min
  <2> HIDE DEF S
  <2> QED BY <2>1, <2>2
<1>5. \A q : EdgesIn(q)' = EdgesIn(q)
  <2> SUFFICES ASSUME NEW q PROVE EdgesIn(q)' = EdgesIn(q)
    OBVIOUS
  <2>1. EdgesIn(q)' = {EdgePtr(<<q[i], q[i + 1]>>)' : i \in 1..Len(q) - 1}
    BY DEF EdgesIn
  <2> QED BY <1>4, <2>1 DEF EdgesIn
<1> QED
  BY <1>3, <1>5

LEMMA EdgesTyped ==
    ASSUME Len(doc.s) \in Nat, Len(doc.t) \in Nat, NEW d
    PROVE  EdgesOf(d) \subseteq Arcs
<1> SUFFICES ASSUME NEW e, EdgeOf(e)[1] # None, EdgeOf(e)[2] # None
             PROVE  EdgeOf(e) \in Arcs
  BY DEF EdgesOf, EdgeElements
<1>1. ASSUME NEW id, StateFor(id) # None PROVE StateFor(id) \in States
  BY <1>1, FirstIndexIn DEF StateFor, States
<1>2. ASSUME NEW id, TransitionFor(id) # None PROVE TransitionFor(id) \in Transitions
  BY <1>2, FirstIndexIn DEF TransitionFor, Transitions
<1>3. CASE StateFor(e[1]) # None
  <2>1. EdgeOf(e) = <<StateFor(e[1]), TransitionFor(e[2])>>
    BY <1>3 DEF EdgeOf
  <2> QED
    BY <1>1, <1>2, <2>1 DEF Arcs
<1>4. CASE StateFor(e[1]) = None
  <2>1. EdgeOf(e) = <<TransitionFor(e[1]), StateFor(e[2])>>
    BY <1>4 DEF EdgeOf
  <2> QED
    BY <1>1, <1>2, <2>1 DEF Arcs
<1> QED
  BY <1>3, <1>4

-----------------------------------------------------------------------------
(* Paths *)

LEMMA SeqFacts ==
    ASSUME NEW S, NEW p \in Seq(S)
    PROVE  /\ Len(p) \in Nat /\ DOMAIN p = 1..Len(p) /\ (p # <<>> <=> Len(p) > 0)
           /\ \A i \in 1..Len(p) : p[i] \in S
BY EmptySeq, LenProperties, ElementOfSeq

LEMMA PushFacts ==
    ASSUME NEW S, NEW p \in Seq(S), NEW k \in S
    PROVE  LET q == Append(p, k)
           IN /\ q \in Seq(S) /\ q # <<>> /\ Len(q) = Len(p) + 1
              /\ \A i \in 1..Len(p) : q[i] = p[i]
              /\ q[Len(p) + 1] = k /\ Last(q) = k
BY AppendProperties DEF Last

LEMMA FrontFacts ==
    ASSUME NEW S, NEW p \in Seq(S), Len(p) > 1
    PROVE  LET q == Front(p)
           IN /\ q \in Seq(S) /\ q # <<>> /\ Len(q) = Len(p) - 1
              /\ \A i \in 1..(Len(p) - 1) : q[i] = p[i]
              /\ Last(q) = p[Len(p) - 1]
<1>1. Len(p) \in Nat /\ \A i \in 1..Len(p) : p[i] \in S
  BY SeqFacts
<1>2. /\ Front(p) \in Seq(S) /\ Len(Front(p)) = Len(p) - 1
      /\ \A i \in 1..(Len(p) - 1) : Front(p)[i] = p[i]
  <2> DEFINE q == SubSeq(p, 1, Len(p) - 1)
  <2>1. 1 \in Int /\ Len(p) - 1 \in Int /\ \A i \in 1..(Len(p) - 1) : p[i] \in S
    BY <1>1
  <2>2. /\ q \in Seq(S)
        /\ Len(q) = IF 1 <= Len(p) - 1 THEN (Len(p) - 1) - 1 + 1 ELSE 0
        /\ \A i \in 1..((Len(p) - 1) - 1 + 1) : q[i] = p[1 + i - 1]
    BY <2>1, SubSeqProperties
  <2>3. q = Front(p)
    BY DEF Front
  <2> HIDE DEF q
  <2>4. Len(q) = Len(p) - 1
    BY <1>1, <2>2
  <2>5. ASSUME NEW i \in 1..(Len(p) - 1) PROVE q[i] = p[i]
    <3>1. i \in 1..((Len(p) - 1) - 1 + 1) /\ 1 + i - 1 = i
      BY <1>1
    <3> QED BY <2>2, <3>1
  <2> QED
    BY <2>2, <2>3, <2>4, <2>5
<1>3. Last(Front(p)) = p[Len(p) - 1] /\ Front(p) # <<>>
  BY <1>1, <1>2, SeqFacts DEF Last
<1> QED
  BY <1>2, <1>3

Distinct(p) == \A i, j \in 1..Len(p) : i < j => p[i] # p[j]

\* A path that has not come to the target has no knot twice
LEMMA NoCircle ==
    ASSUME NEW p \in Seq(Knots), SimplePath(p), ~(Last(p) = target /\ Len(p) > 1)
    PROVE  Distinct(p)
<1> SUFFICES ASSUME NEW i \in 1..Len(p), NEW j \in 1..Len(p), i < j, p[i] = p[j]
             PROVE  FALSE
  BY DEF Distinct
<1>1. i = 1 /\ j = Len(p) /\ p[j] = target
  BY DEF SimplePath
<1> QED
  BY <1>1, SeqFacts DEF Last

\* A path goes on to a knot that is not on it, or closes the circle
LEMMA SimplePush ==
    ASSUME Typed, NEW p \in Seq(Knots), p # <<>>, p[1] = start,
           \A i \in 1..Len(p) - 1 : <<p[i], p[i + 1]>> \in edge,
           Distinct(p), NEW k \in Knots, <<Last(p), k>> \in edge,
           k \in Before(p) => k = start /\ k = target
    PROVE  SimplePath(Append(p, k))
<1> DEFINE q == Append(p, k)
<1>1. /\ q \in Seq(Knots) /\ q # <<>> /\ Len(q) = Len(p) + 1
      /\ \A i \in 1..Len(p) : q[i] = p[i]
      /\ q[Len(p) + 1] = k
  BY PushFacts
<1>2. Len(p) \in Nat /\ Len(p) > 0
  BY SeqFacts
<1> HIDE DEF q
<1>3. q[1] = start
  BY <1>1, <1>2
<1>4. ASSUME NEW i \in 1..Len(q) - 1 PROVE <<q[i], q[i + 1]>> \in edge
  <2>1. CASE i = Len(p)
    BY <1>1, <1>2, <2>1 DEF Last
  <2>2. CASE i # Len(p)
    <3>1. i \in 1..Len(p) - 1 /\ i \in 1..Len(p) /\ i + 1 \in 1..Len(p)
      BY <1>1, <1>2, <2>2
    <3> QED
      BY <1>1, <3>1
  <2> QED BY <2>1, <2>2
<1>5. Last(p) # k
  <2>1. <<Last(p), k>> \in Arcs
    BY DEF Typed
  <2> QED
    BY <2>1 DEF Arcs, States, Transitions
<1>6. ASSUME NEW i \in 1..Len(q), NEW j \in 1..Len(q), i < j, q[i] = q[j]
      PROVE  i = 1 /\ j = Len(q) /\ q[j] = target
  <2>1. i \in 1..Len(p) /\ q[i] = p[i]
    BY <1>1, <1>2, <1>6
  <2>2. j = Len(p) + 1
    <3> SUFFICES ASSUME j # Len(p) + 1 PROVE FALSE
      OBVIOUS
    <3>1. j \in 1..Len(p)
      BY <1>1, <1>2
    <3> QED
      BY <1>1, <1>6, <2>1, <3>1 DEF Distinct
  <2>3. p[i] = k
    BY <1>1, <1>6, <2>1, <2>2
  <2>4. i # Len(p)
    BY <1>5, <2>3 DEF Last
  <2>5. k \in Before(p)
    <3>1. i \in 1..Len(p) - 1
      BY <1>2, <2>1, <2>4
    <3> QED
      BY <2>3, <3>1 DEF Before
  <2>6. i = 1
    <3> SUFFICES ASSUME i # 1 PROVE FALSE
      OBVIOUS
    <3>1. 1 \in 1..Len(p) /\ 1 < i
      BY <1>2, <2>1
    <3> QED
      BY <2>1, <2>3, <2>5, <3>1 DEF Distinct
  <2> QED
    BY <1>1, <2>2, <2>5, <2>6
<1> QED
  BY <1>1, <1>3, <1>4, <1>6 DEF SimplePath, q

\* Going back leaves a simple path without a circle
LEMMA SimpleFront ==
    ASSUME NEW p \in Seq(Knots), SimplePath(p), Len(p) > 1
    PROVE  SimplePath(Front(p)) /\ Distinct(Front(p))
<1> DEFINE q == Front(p)
<1>1. q \in Seq(Knots) /\ q # <<>> /\ Len(q) = Len(p) - 1 /\ \A i \in 1..(Len(p) - 1) : q[i] = p[i]
  BY FrontFacts
<1>2. Len(p) \in Nat
  BY SeqFacts
<1> HIDE DEF q
<1>3. q[1] = start
  BY <1>1, <1>2 DEF SimplePath
<1>4. ASSUME NEW i \in 1..Len(q) - 1 PROVE <<q[i], q[i + 1]>> \in edge
  <2>1. i \in 1..Len(p) - 1 /\ i + 1 \in 1..Len(p) - 1
    BY <1>1, <1>2
  <2> QED
    BY <1>1, <2>1 DEF SimplePath
<1>5. ASSUME NEW i \in 1..Len(q), NEW j \in 1..Len(q), i < j PROVE q[i] # q[j]
  <2>1. i \in 1..Len(p) /\ j \in 1..Len(p) /\ j # Len(p) /\ q[i] = p[i] /\ q[j] = p[j]
    BY <1>1, <1>2
  <2> QED
    BY <1>5, <2>1 DEF SimplePath
<1> QED
  BY <1>1, <1>3, <1>4, <1>5 DEF SimplePath, Distinct, q

LEMMA Interval ==
    ASSUME NEW n \in Int
    PROVE  IsFiniteSet(1..n) /\ n <= Cardinality(1..n) /\ (n >= 0 => Cardinality(1..n) = n)
<1>1. IsFiniteSet(1..n) /\ Cardinality(1..n) = IF 1 > n THEN 0 ELSE n - 1 + 1
  BY FS_Interval
<1> QED
  BY <1>1

LEMMA AddBounds ==
    ASSUME NEW a \in Nat, NEW b \in Nat, NEW m \in Nat, NEW n \in Nat, a <= m, b <= n
    PROVE  a + b - 0 <= m + n
OBVIOUS

LEMMA LessOrNot ==
    ASSUME NEW a \in Int, NEW b \in Nat, NEW c \in Nat, NEW n \in Nat, a <= b, ~(c < b), c <= n
    PROVE  a <= n
OBVIOUS

\* A simple path is not longer than the number of knots
LEMMA LengthBound ==
    ASSUME Len(doc.s) \in Nat, Len(doc.t) \in Nat, NEW p \in Seq(Knots), SimplePath(p)
    PROVE  Len(p) - 1 <= Len(doc.s) + Len(doc.t)
<1> DEFINE s == Len(doc.s)
           t == Len(doc.t)
<1>1. IsFiniteSet(States) /\ Cardinality(States) <= s
  <2> DEFINE f == [i \in 1..s |-> <<"state", i>>]
  <2>1. f \in Surjection(1..s, States)
    BY DEF States, Surjection
  <2>2. IsFiniteSet(1..s) /\ Cardinality(1..s) = s
    BY Interval
  <2> QED
    BY <2>1, <2>2, FS_Surjection
<1>2. IsFiniteSet(Transitions) /\ Cardinality(Transitions) <= t
  <2> DEFINE f == [i \in 1..t |-> <<"transition", i>>]
  <2>1. f \in Surjection(1..t, Transitions)
    BY DEF Transitions, Surjection
  <2>2. IsFiniteSet(1..t) /\ Cardinality(1..t) = t
    BY Interval
  <2> QED
    BY <2>1, <2>2, FS_Surjection
<1>3. IsFiniteSet(Knots) /\ Cardinality(Knots) <= s + t
  <2>1. States \cap Transitions = {}
    BY DEF States, Transitions
  <2>2. IsFiniteSet(Knots) /\ Cardinality(Knots) = Cardinality(States) + Cardinality(Transitions) - Cardinality({})
    BY <1>1, <1>2, <2>1, FS_Union DEF Knots
  <2>3. Cardinality({}) = 0 /\ Cardinality(States) \in Nat /\ Cardinality(Transitions) \in Nat
    BY <1>1, <1>2, FS_EmptySet, FS_CardinalityType
  <2>4. s \in Nat /\ t \in Nat
    OBVIOUS
  <2> HIDE DEF s, t
  <2>5. Cardinality(States) + Cardinality(Transitions) - 0 <= s + t
    BY <1>1, <1>2, <2>3, <2>4, AddBounds
  <2> QED
    BY <2>2, <2>3, <2>5
<1>4. Len(p) \in Nat /\ \A i \in 1..Len(p) : p[i] \in Knots
  BY SeqFacts
<1> DEFINE D == 1..(Len(p) - 1)
           f == [i \in D |-> p[i]]
<1>5. IsFiniteSet(D) /\ Len(p) - 1 <= Cardinality(D)
  <2>1. Len(p) - 1 \in Int
    BY <1>4
  <2> QED BY <2>1, Interval
<1>6. f \in [D -> Knots]
  BY <1>4
<1>7. \A x, y \in D : x # y => f[x] # f[y]
  <2>1. ASSUME NEW x \in D, NEW y \in D, x < y PROVE f[x] # f[y]
    <3>1. x \in 1..Len(p) /\ y \in 1..Len(p) /\ y # Len(p)
      BY <1>4
    <3> QED
      BY <2>1, <3>1 DEF SimplePath
  <2>2. \A x, y \in D : x # y => x < y \/ y < x
    BY <1>4
  <2> QED
    BY <2>1, <2>2
<1>8. ~(Cardinality(Knots) < Cardinality(D))
  <2> HIDE DEF f, D
  <2> QED
    BY <1>3, <1>5, <1>6, <1>7, FS_PigeonHole
<1>9. Cardinality(Knots) \in Nat /\ Cardinality(D) \in Nat
  BY <1>3, <1>5, FS_CardinalityType
<1>10. Len(p) - 1 \in Int /\ s \in Nat /\ t \in Nat
  BY <1>4
<1> HIDE DEF s, t, D
<1>12. s + t \in Nat
  BY <1>10
<1>11. Len(p) - 1 <= s + t
  BY <1>3, <1>5, <1>8, <1>9, <1>10, <1>12, LessOrNot
<1> QED
  BY <1>11 DEF s, t

-----------------------------------------------------------------------------
(* The order of the search *)

LEMMA LowerDiffers ==
    ASSUME Len(doc.s) \in Nat, Len(doc.t) \in Nat, NEW p \in Seq(Knots), NEW q, Lower(q, p)
    PROVE  q # p
<1>1. PICK n \in 1..Len(p) : q[n][2] < p[n][2]
  BY DEF Lower
<1>2. p[n][2] \in Nat
  BY SeqFacts, KnotFacts
<1> QED
  BY <1>1, <1>2

\* A path that parts from p parts from what p goes on to
LEMMA LowerPush ==
    ASSUME NEW p \in Seq(Knots), NEW k \in Knots, NEW q, Lower(q, p)
    PROVE  Lower(q, Append(p, k))
<1> DEFINE r == Append(p, k)
<1>1. Len(r) = Len(p) + 1 /\ \A i \in 1..Len(p) : r[i] = p[i]
  BY PushFacts
<1>2. Len(p) \in Nat
  BY SeqFacts
<1> HIDE DEF r
<1>3. PICK n \in 1..Len(p) : n <= Len(q) /\ q[n][2] < p[n][2] /\ \A m \in 1..(n - 1) : q[m] = p[m]
  BY DEF Lower
<1>4. n \in 1..Len(r) /\ r[n] = p[n] /\ \A m \in 1..(n - 1) : q[m] = r[m]
  BY <1>1, <1>2, <1>3
<1> QED
  BY <1>3, <1>4 DEF Lower, r

\* Going back passes the path and what went on from it
LEMMA LowerFront ==
    ASSUME NEW p \in Seq(Knots), Len(p) > 1, NEW q, Len(q) \in Nat, Lower(q, p) \/ Extends(q, p)
    PROVE  Lower(q, Front(p)) \/ Extends(q, Front(p))
<1> DEFINE r == Front(p)
<1>1. Len(r) = Len(p) - 1 /\ \A i \in 1..(Len(p) - 1) : r[i] = p[i]
  BY FrontFacts
<1>2. Len(p) \in Nat
  BY SeqFacts
<1> HIDE DEF r
<1>3. CASE Extends(q, p)
  <2>1. Len(r) <= Len(q) /\ \A m \in 1..Len(r) : m \in 1..Len(p) /\ r[m] = p[m]
    BY <1>1, <1>2, <1>3 DEF Extends
  <2> QED
    BY <1>3, <2>1 DEF Extends, r
<1>4. CASE Lower(q, p)
  <2>1. PICK n \in 1..Len(p) : n <= Len(q) /\ q[n][2] < p[n][2] /\ \A m \in 1..(n - 1) : q[m] = p[m]
    BY <1>4 DEF Lower
  <2>2. CASE n = Len(p)
    <3>1. Len(r) <= Len(q) /\ \A m \in 1..Len(r) : m \in 1..(n - 1) /\ r[m] = p[m]
      BY <1>1, <1>2, <2>1, <2>2
    <3> QED
      BY <2>1, <3>1 DEF Extends, r
  <2>3. CASE n # Len(p)
    <3>1. n \in 1..Len(r) /\ r[n] = p[n] /\ \A m \in 1..(n - 1) : r[m] = p[m]
      BY <1>1, <1>2, <2>1, <2>3
    <3> QED
      BY <2>1, <3>1 DEF Lower, r
  <2> QED BY <2>2, <2>3
<1> QED
  BY <1>3, <1>4

\* A branch of higher index passes them, too
LEMMA LowerBranch ==
    ASSUME Len(doc.s) \in Nat, Len(doc.t) \in Nat,
           NEW p \in Seq(Knots), Len(p) > 1, NEW q \in Seq(Knots), Lower(q, p) \/ Extends(q, p),
           NEW k \in Knots, k[2] > Last(p)[2]
    PROVE  Lower(q, Append(Front(p), k))
<1> DEFINE f == Front(p)
           r == Append(f, k)
<1>1. f \in Seq(Knots) /\ Len(f) = Len(p) - 1 /\ \A i \in 1..(Len(p) - 1) : f[i] = p[i]
  BY FrontFacts
<1>2. Len(p) \in Nat /\ Len(q) \in Nat /\ p[Len(p)] \in Knots
  BY SeqFacts
<1> HIDE DEF f
<1>3. Len(r) = Len(f) + 1 /\ (\A i \in 1..Len(f) : r[i] = f[i]) /\ r[Len(f) + 1] = k
  BY <1>1, PushFacts
<1> HIDE DEF r
<1>4. Len(r) = Len(p) /\ (\A i \in 1..(Len(p) - 1) : r[i] = p[i]) /\ r[Len(p)] = k
  BY <1>1, <1>2, <1>3
<1>5. p[Len(p)][2] < k[2] /\ p[Len(p)][2] \in Nat /\ k[2] \in Nat
  BY <1>2, KnotFacts DEF Last
<1>6. CASE Extends(q, p)
  <2>1. Len(p) \in 1..Len(r) /\ Len(p) <= Len(q) /\ q[Len(p)] = p[Len(p)]
    BY <1>2, <1>4, <1>6 DEF Extends
  <2>2. \A m \in 1..(Len(p) - 1) : q[m] = r[m]
    BY <1>2, <1>4, <1>6 DEF Extends
  <2> QED
    BY <1>4, <1>5, <2>1, <2>2 DEF Lower, r, f
<1>7. CASE Lower(q, p)
  <2>1. PICK n \in 1..Len(p) : n <= Len(q) /\ q[n][2] < p[n][2] /\ \A m \in 1..(n - 1) : q[m] = p[m]
    BY <1>7 DEF Lower
  <2>2. n \in 1..Len(r) /\ \A m \in 1..(n - 1) : q[m] = r[m]
    BY <1>2, <1>4, <2>1
  <2>3. q[n][2] < r[n][2]
    <3>1. CASE n # Len(p)
      <4>1. r[n] = p[n]
        BY <1>2, <1>4, <3>1
      <4> QED
        BY <2>1, <4>1
    <3>2. CASE n = Len(p)
      <4>1. q[n][2] \in Nat
        <5>1. n \in 1..Len(q)
          BY <1>2, <2>1
        <5> QED
          BY <5>1, SeqFacts, KnotFacts
      <4>2. q[n][2] < p[n][2] /\ p[n][2] < r[n][2]
        BY <1>4, <1>5, <2>1, <3>2
      <4> QED
        BY <1>4, <1>5, <3>2, <4>1, <4>2
    <3> QED BY <3>1, <3>2
  <2> QED
    BY <2>1, <2>2, <2>3 DEF Lower, r, f
<1> QED
  BY <1>6, <1>7

-----------------------------------------------------------------------------
(* The steps *)

Framed == UNCHANGED <<doc, edge, max, start, target>>

LEMMA FramedKnots ==
    ASSUME Framed
    PROVE  Knots' = Knots /\ Arcs' = Arcs /\ States' = States /\ \A p : SimplePath(p)' = SimplePath(p) /\ Reported(p)' = Reported(p)
BY DEF Framed, Knots, Arcs, States, Transitions, SimplePath, Reported

\* The search ends a loop without a path
LEMMA DeadEndStep ==
    ASSUME IInv, pc = "forward", DeadEnd, Framed
    PROVE  IInv'
<1>1. pc' \in {"backward", "next"} /\ UNCHANGED <<path, paths>>
  BY DEF DeadEnd, Looped
<1>2. Typed'
  BY <1>1, FramedKnots DEF Framed, Typed, IInv
<1>3. Listed'
  <2> SUFFICES ASSUME NEW i \in 1..Len(paths) PROVE Reported(paths[i])'
    BY <1>1 DEF Listed
  <2>1. Reported(paths[i])
    BY DEF IInv, Listed
  <2> QED
    BY <1>1, <2>1 DEF Framed, Reported, SimplePath
<1>4. Once'
  BY <1>1 DEF IInv, Once
<1>5. Passed'
  BY <1>1 DEF IInv, Passed, Lower, Extends
<1>6. Walking'
  BY <1>1 DEF IInv, Walking, Framed, SimplePath
<1> QED
  BY <1>2, <1>3, <1>4, <1>5, <1>6 DEF IInv

\* A path that is found is the last of those reported, and the one to go back on
LEMMA FoundStep ==
    ASSUME IInv, pc = "forward", NEW p \in Seq(Knots), Reported(p), \A i \in 1..Len(paths) : Lower(paths[i], p),
           Found(p), Looped, Framed
    PROVE  IInv'
<1>1. pc' \in {"backward", "next"} /\ path' = p /\ paths' = Append(paths, p)
  BY DEF Found, Looped
<1>2. /\ paths' \in Seq(Seq(Knots)) /\ Len(paths') = Len(paths) + 1 /\ Len(paths) \in Nat
      /\ \A i \in 1..Len(paths) : paths'[i] = paths[i]
      /\ paths'[Len(paths) + 1] = p
  BY <1>1, PushFacts, SeqFacts DEF IInv, Typed
<1>3. Typed'
  BY <1>1, <1>2, FramedKnots DEF Framed, Typed, IInv
<1>4. \A i \in 1..Len(paths') : i \in 1..Len(paths) \/ i = Len(paths) + 1
  BY <1>2
<1>5. Listed'
  <2> SUFFICES ASSUME NEW i \in 1..Len(paths') PROVE Reported(paths[i])'
    BY DEF Listed
  <2>1. CASE i \in 1..Len(paths)
    <3>1. Reported(paths[i]) /\ paths'[i] = paths[i]
      BY <1>2, <2>1 DEF IInv, Listed
    <3> QED
      BY <3>1 DEF Framed, Reported, SimplePath
  <2>2. CASE i = Len(paths) + 1
    <3>1. paths'[i] = p
      BY <1>2, <2>2
    <3> QED
      BY <3>1 DEF Framed, Reported, SimplePath
  <2> QED
    BY <1>4, <2>1, <2>2
<1>6. \A i \in 1..Len(paths) : paths[i] # p
  BY LowerDiffers DEF IInv, Typed
<1>7. Once'
  <2> SUFFICES ASSUME NEW i \in 1..Len(paths'), NEW j \in 1..Len(paths'), paths'[i] = paths'[j] PROVE i = j
    BY DEF Once
  <2>1. CASE i \in 1..Len(paths) /\ j \in 1..Len(paths)
    BY <1>2, <2>1 DEF IInv, Once
  <2>2. CASE i = Len(paths) + 1 \/ j = Len(paths) + 1
    BY <1>2, <1>4, <1>6, <2>2
  <2> QED BY <1>4, <2>1, <2>2
<1>8. Passed'
  <2>1. Extends(p, p)
    BY SeqFacts DEF Extends
  <2>2. \A i \in 1..Len(paths') : Lower(paths'[i], p) \/ Extends(paths'[i], p)
    BY <1>2, <1>4, <2>1
  <2> QED
    BY <1>1, <2>2 DEF Passed, Lower, Extends
<1>9. Walking'
  BY <1>1 DEF Walking, Framed, Reported, SimplePath
<1> QED
  BY <1>3, <1>5, <1>7, <1>8, <1>9 DEF IInv

\* The path changes to one that is behind all that were reported
LEMMA WalkStep ==
    ASSUME IInv, NEW p \in Seq(Knots), SimplePath(p), path' = p, pc' \in {"forward", "backward"},
           \A i \in 1..Len(paths) : Lower(paths[i], p) \/ (pc' = "backward" /\ Extends(paths[i], p)),
           pc # "new", paths' = paths, Framed
    PROVE  IInv'
<1>1. Typed'
  BY FramedKnots DEF Framed, Typed, IInv
<1>2. Listed'
  <2> SUFFICES ASSUME NEW i \in 1..Len(paths) PROVE Reported(paths[i])'
    BY DEF Listed
  <2>1. Reported(paths[i])
    BY DEF IInv, Listed
  <2> QED
    BY <2>1 DEF Framed, Reported, SimplePath
<1>3. Once'
  BY DEF IInv, Once
<1>4. Passed'
  BY DEF Passed, Lower, Extends
<1>5. Walking'
  BY DEF Walking, Framed, SimplePath
<1> QED
  BY <1>1, <1>2, <1>3, <1>4, <1>5 DEF IInv

\* The path goes on
LEMMA GoOnStep ==
    ASSUME IInv, pc = "forward", NEW k \in Knots, SimplePath(Append(path, k)), GoOn(k), Framed
    PROVE  IInv'
<1>1. path \in Seq(Knots) /\ path' = Append(path, k) /\ pc' = "forward" /\ paths' = paths
  BY DEF GoOn, IInv, Typed
<1>2. Append(path, k) \in Seq(Knots)
  BY <1>1, PushFacts
<1>3. \A i \in 1..Len(paths) : Lower(paths[i], Append(path, k))
  BY <1>1, LowerPush DEF IInv, Passed
<1> QED
  BY <1>1, <1>2, <1>3, WalkStep

LEMMA ForwardStep ==
    ASSUME IInv, SearchPathForward
    PROVE  IInv'
<1>1. /\ pc = "forward" /\ Framed /\ SimplePath(path) /\ path \in Seq(Knots)
      /\ \A i \in 1..Len(paths) : Lower(paths[i], path)
      /\ Len(doc.s) \in Nat /\ Len(doc.t) \in Nat
  BY DEF SearchPathForward, Framed, IInv, Walking, Passed, Typed
<1>2. /\ Len(path) \in Nat /\ Len(path) > 0 /\ path # <<>> /\ Last(path) \in Knots
      /\ path[1] = start /\ \A i \in 1..Len(path) - 1 : <<path[i], path[i + 1]>> \in edge
  BY <1>1, SeqFacts DEF Last, SimplePath
<1>3. CASE TooLong
  <2>1. DeadEnd
    BY <1>3 DEF SearchPathForward
  <2> QED
    BY <1>1, <2>1, DeadEndStep
<1>4. CASE ~TooLong /\ AtTarget
  <2>1. DeadEnd \/ (Found(path) /\ Looped)
    BY <1>4 DEF SearchPathForward
  <2>2. Reported(path)
    <3>1. max # None => max \in Nat /\ ~(Len(path) - 1 >= max)
      BY <1>4 DEF TooLong, Length, IInv, Typed
    <3>2. max # None => Len(path) - 1 <= max
      BY <1>2, <3>1
    <3> QED
      BY <1>1, <1>4, <3>2 DEF Reported, AtTarget
  <2> QED
    BY <1>1, <2>1, <2>2, DeadEndStep, FoundStep
<1>5. CASE ~TooLong /\ ~AtTarget
  <2>1. IF Last(path) \in States THEN ForwardFromState ELSE ForwardFromTransition
    BY <1>5 DEF SearchPathForward
  <2>2. Distinct(path)
    <3>1. ~(Last(path) = target /\ Len(path) > 1)
      BY <1>2, <1>5 DEF AtTarget, Length
    <3> QED
      BY <1>1, <3>1, NoCircle
  <2>3. ASSUME NEW k \in Knots, <<Last(path), k>> \in edge, k \in Before(path) => k = start /\ k = target
        PROVE  SimplePath(Append(path, k))
    BY <1>1, <1>2, <2>2, <2>3, SimplePush DEF IInv
  <2>4. CASE DeadEnd
    BY <1>1, <2>4, DeadEndStep
  <2>5. CASE Last(path) \in States /\ ~DeadEnd
    <3>1. FreeTransitions # {} /\ GoOn(Least(FreeTransitions))
      BY <2>1, <2>5 DEF ForwardFromState
    <3>2. \A k \in FreeTransitions : k \in Knots /\ k[2] \in Nat
      BY <1>1, KnotFacts DEF FreeTransitions, Knots
    <3>3. Least(FreeTransitions) \in FreeTransitions
      BY <3>1, <3>2, LeastIn
    <3>4. SimplePath(Append(path, Least(FreeTransitions)))
      BY <2>3, <3>2, <3>3 DEF FreeTransitions
    <3> QED
      BY <1>1, <3>1, <3>2, <3>3, <3>4, GoOnStep
  <2>6. CASE Last(path) \notin States /\ ~DeadEnd
    <3> DEFINE s == Least(FreeStates)
    <3>1. FreeStates # {} /\ ((s = target /\ Found(Append(path, s)) /\ Looped) \/ (s # target /\ GoOn(s)))
      BY <2>1, <2>6 DEF ForwardFromTransition
    <3>2. \A k \in FreeStates : k \in Knots /\ k[2] \in Nat
      BY <1>1, KnotFacts DEF FreeStates, Knots
    <3>3. s \in FreeStates
      BY <3>1, <3>2, LeastIn
    <3> HIDE DEF s
    <3>4. s \in Knots /\ SimplePath(Append(path, s))
      BY <2>3, <3>2, <3>3 DEF FreeStates
    <3>5. CASE s # target
      BY <1>1, <3>1, <3>4, <3>5, GoOnStep
    <3>6. CASE s = target
      <4> DEFINE p == Append(path, s)
      <4>1. p \in Seq(Knots) /\ Len(p) = Len(path) + 1 /\ Last(p) = s
        BY <1>1, <3>4, PushFacts
      <4>2. \A i \in 1..Len(paths) : Lower(paths[i], p)
        BY <1>1, <3>4, LowerPush
      <4> HIDE DEF p
      <4>3. max # None => Len(p) - 1 <= max
        <5>1. max # None => max \in Nat /\ ~(Len(path) - 1 >= max)
          BY <1>5 DEF TooLong, Length, IInv, Typed
        <5> QED
          BY <1>2, <4>1, <5>1
      <4>4. Reported(p)
        BY <3>4, <3>6, <4>1, <4>3 DEF Reported, p
      <4>5. Found(p) /\ Looped
        BY <3>1, <3>6 DEF p
      <4> QED
        BY <1>1, <4>1, <4>2, <4>4, <4>5, FoundStep
    <3> QED BY <3>5, <3>6
  <2> QED BY <2>4, <2>5, <2>6
<1> QED
  BY <1>3, <1>4, <1>5

LEMMA BackwardStep ==
    ASSUME IInv, SearchBranchBackward
    PROVE  IInv'
<1>1. /\ pc = "backward" /\ Framed /\ SimplePath(path) /\ path \in Seq(Knots) /\ paths' = paths
      /\ \A i \in 1..Len(paths) : Lower(paths[i], path) \/ Extends(paths[i], path)
      /\ Len(doc.s) \in Nat /\ Len(doc.t) \in Nat /\ paths \in Seq(Seq(Knots))
  BY DEF SearchBranchBackward, Framed, IInv, Walking, Passed, Typed
<1>2. Len(path) \in Nat /\ \A i \in 1..Len(paths) : paths[i] \in Seq(Knots) /\ Len(paths[i]) \in Nat
  BY <1>1, SeqFacts
<1>3. CASE Length < 1
  <2>1. pc' = "next" /\ path' = path
    BY <1>3 DEF SearchBranchBackward
  <2>2. Typed'
    BY <1>1, <2>1, FramedKnots DEF Framed, Typed, IInv
  <2>3. Listed'
    <3> SUFFICES ASSUME NEW i \in 1..Len(paths) PROVE Reported(paths[i])'
      BY <1>1 DEF Listed
    <3>1. Reported(paths[i])
      BY DEF IInv, Listed
    <3> QED
      BY <1>1, <3>1 DEF Framed, Reported, SimplePath
  <2>4. Once' /\ Passed' /\ Walking'
    BY <1>1, <2>1 DEF IInv, Once, Passed, Walking
  <2> QED
    BY <2>2, <2>3, <2>4 DEF IInv
<1>4. CASE ~(Length < 1)
  <2>1. Len(path) > 1
    BY <1>2, <1>4 DEF Length
  <2> DEFINE f == Front(path)
  <2>2. f \in Seq(Knots) /\ f # <<>> /\ SimplePath(f) /\ Distinct(f)
    BY <1>1, <2>1, FrontFacts, SimpleFront
  <2>3. CASE Branches = {}
    <3>1. path' = f /\ pc' = "backward"
      BY <1>1, <1>4, <2>3 DEF SearchBranchBackward
    <3>2. \A i \in 1..Len(paths) : Lower(paths[i], f) \/ Extends(paths[i], f)
      BY <1>1, <1>2, <2>1, LowerFront
    <3> QED
      BY <1>1, <2>2, <3>1, <3>2, WalkStep
  <2>4. CASE Branches # {}
    <3> DEFINE k == Least(Branches)
               p == Append(f, k)
    <3>1. path' = p /\ pc' = "forward"
      BY <1>4, <2>4 DEF SearchBranchBackward
    <3>2. k \in Branches
      <4>1. \A x \in Branches : x[2] \in Nat
        BY <1>1, KnotFacts DEF Branches
      <4> QED
        BY <2>4, <4>1, LeastIn
    <3> HIDE DEF k
    <3>3. k \in Knots /\ k[2] > Last(path)[2] /\ <<Last(f), k>> \in edge /\ k \notin Before(f)
      BY <3>2 DEF Branches
    <3>4. p \in Seq(Knots)
      BY <2>2, <3>3, PushFacts
    <3>5. SimplePath(p)
      <4>1. f[1] = start /\ \A i \in 1..Len(f) - 1 : <<f[i], f[i + 1]>> \in edge
        BY <2>2 DEF SimplePath
      <4> HIDE DEF f
      <4> QED
        BY <2>2, <3>3, <4>1, SimplePush DEF IInv
    <3>6. \A i \in 1..Len(paths) : Lower(paths[i], p)
      BY <1>1, <1>2, <2>1, <3>3, LowerBranch
    <3> HIDE DEF p
    <3> QED
      BY <1>1, <3>1, <3>4, <3>5, <3>6, WalkStep
  <2> QED BY <2>3, <2>4
<1> QED
  BY <1>3, <1>4

\* An element begins, and the search for its next target
LEMMA BeginStep ==
    ASSUME IInv, NEW s \in States, NEW t, Begin(s, t)
    PROVE  IInv'
<1>1. paths = <<>> /\ paths' = <<>> /\ path' = path /\ doc' = doc /\ start' = s /\ pc' = "next"
  BY DEF Begin, IInv, Typed
<1>2. Knots' = Knots /\ Arcs' = Arcs /\ States' = States
  BY <1>1 DEF Knots, Arcs, States, Transitions
<1>3. edge' \subseteq Arcs
  BY EdgesTyped DEF Begin, IInv, Typed
<1>4. max' \in Nat \cup {None}
  BY LimitAssumption DEF Begin
<1>5. Typed'
  BY <1>1, <1>2, <1>3, <1>4 DEF IInv, Typed
<1>6. Listed' /\ Once' /\ Passed' /\ Walking'
  BY <1>1 DEF Listed, Once, Passed, Walking
<1> QED
  BY <1>5, <1>6 DEF IInv

LEMMA NextTargetStep ==
    ASSUME IInv, NextTarget
    PROVE  IInv'
<1>0. pc = "next" /\ UNCHANGED <<doc, edge, max, start>>
  BY DEF NextTarget
<1>a. Knots' = Knots /\ Arcs' = Arcs /\ States' = States
  BY <1>0 DEF Knots, Arcs, States, Transitions
<1>1. CASE targets = <<>>
  <2>1. pc' = "done" /\ UNCHANGED <<target, path, paths>>
    BY <1>1 DEF NextTarget
  <2>2. Typed'
    BY <1>0, <1>a, <2>1 DEF IInv, Typed
  <2>3. Listed'
    <3> SUFFICES ASSUME NEW i \in 1..Len(paths) PROVE Reported(paths[i])'
      BY <2>1 DEF Listed
    <3>1. Reported(paths[i])
      BY DEF IInv, Listed
    <3> QED
      BY <1>0, <2>1, <3>1 DEF Reported, SimplePath
  <2>4. Once' /\ Passed' /\ Walking'
    BY <2>1 DEF IInv, Once, Passed, Walking
  <2> QED
    BY <2>2, <2>3, <2>4 DEF IInv
<1>2. CASE targets # <<>> /\ all /\ Head(targets) = start
  <2>1. UNCHANGED <<target, path, paths, pc>>
    BY <1>2 DEF NextTarget
  <2>2. Typed'
    BY <1>0, <1>a, <2>1 DEF IInv, Typed
  <2>3. Listed'
    <3> SUFFICES ASSUME NEW i \in 1..Len(paths) PROVE Reported(paths[i])'
      BY <2>1 DEF Listed
    <3>1. Reported(paths[i])
      BY DEF IInv, Listed
    <3> QED
      BY <1>0, <2>1, <3>1 DEF Reported, SimplePath
  <2>4. Once' /\ Passed' /\ Walking'
    BY <1>0, <2>1 DEF IInv, Once, Passed, Walking
  <2> QED
    BY <2>2, <2>3, <2>4 DEF IInv
<1>3. CASE targets # <<>> /\ ~(all /\ Head(targets) = start)
  <2>1. pc' = "forward" /\ path' = <<start>> /\ paths' = <<>>
    BY <1>3 DEF NextTarget, SetTarget
  <2>2. start \in Knots
    BY <1>0 DEF IInv, Typed, Knots
  <2>3. <<start>> \in Seq(Knots) /\ Len(<<start>>) = 1 /\ <<start>> # <<>> /\ <<start>>[1] = start
    BY <2>2
  <2>4. Typed'
    BY <1>0, <1>a, <2>1, <2>3 DEF IInv, Typed
  <2>5. Walking'
    BY <1>0, <2>1, <2>3 DEF Walking, SimplePath
  <2>6. Listed' /\ Once' /\ Passed'
    BY <2>1 DEF Listed, Once, Passed
  <2> QED
    BY <2>4, <2>5, <2>6 DEF IInv
<1> QED
  BY <1>1, <1>2, <1>3

LEMMA InitIInv == Init => IInv
<1> SUFFICES ASSUME Init PROVE IInv
  OBVIOUS
<1>1. Len(doc.s) \in Nat /\ Len(doc.t) \in Nat
  BY DocAssumption DEF Init
<1>2. Typed
  BY <1>1 DEF Init, Typed
<1> QED
  BY <1>2 DEF Init, IInv, Listed, Once, Passed, Walking

LEMMA StepIInv == IInv /\ [Next]_vars => IInv'
<1> SUFFICES ASSUME IInv, [Next]_vars PROVE IInv'
  OBVIOUS
<1>1. CASE UNCHANGED vars
  BY <1>1 DEF vars, IInv, Typed, Arcs, Knots, States, Transitions, Listed, Reported, SimplePath, Once, Passed,
              Lower, Extends, Walking
<1> QED
  BY <1>1, BeginStep, NextTargetStep, ForwardStep, BackwardStep DEF Next, Nameable

-----------------------------------------------------------------------------
(* The results *)

\* The invariant: the path that is built is simple, and behind all that were
\* reported in the order in which the search tries the knots
THEOREM Invariance == Spec => []IInv
<1>1. Init => IInv
  BY InitIInv
<1>2. IInv /\ [Next]_vars => IInv'
  BY StepIInv
<1> QED
  BY <1>1, <1>2, PTL DEF Spec

\* The path buffer holds a simple path, not longer than the number of knots it
\* is allocated for, and every path reported is simple, leads to the target,
\* keeps the limit and is reported once
THEOREM Simple == Spec => []PathsSimple
<1>1. IInv => PathsSimple
  <2> SUFFICES ASSUME IInv PROVE PathsSimple
    OBVIOUS
  <2>1. ASSUME pc \in {"forward", "backward"}
        PROVE  SimplePath(path) /\ Length <= Len(doc.s) + Len(doc.t)
    <3>1. SimplePath(path) /\ path \in Seq(Knots) /\ Len(doc.s) \in Nat /\ Len(doc.t) \in Nat
      BY <2>1 DEF IInv, Walking, Typed
    <3> QED
      BY <3>1, LengthBound DEF Length
  <2>2. ASSUME NEW i \in 1..Len(paths) PROVE Reported(paths[i])
    BY DEF IInv, Listed
  <2>3. Once
    BY DEF IInv
  <2> QED
    BY <2>1, <2>2, <2>3 DEF PathsSimple, Reported, Once
<1> QED
  BY <1>1, Invariance, PTL

-----------------------------------------------------------------------------
(* The search is exhaustive. A path to the target that parts from the path    *)
(* being built at a lower index has been reported, and going back, one that   *)
(* goes on from it, too.                                                      *)

Elements(p) == {p[i] : i \in 1..Len(p)}

\* What there is to be found
Goal(q) == SimplePath(q) /\ Last(q) = target /\ Len(q) > 1

CoversLower(p, P) == \A q \in Seq(Knots) : Goal(q) /\ Lower(q, p) => q \in P
CoversTail(p, P) == \A q \in Seq(Knots) : Goal(q) /\ (Lower(q, p) \/ Extends(q, p)) => q \in P
CoversAll(P) == \A q \in Seq(Knots) : Goal(q) => q \in P

LEMMA SetOf ==
    ASSUME NEW S, NEW p \in Seq(S)
    PROVE  ToSet(p) = Elements(p)
BY SeqFacts DEF ToSet, Elements

LEMMA PushSet ==
    ASSUME NEW S, NEW p \in Seq(S), NEW k \in S
    PROVE  Elements(Append(p, k)) = Elements(p) \cup {k} /\ Before(Append(p, k)) = Elements(p)
<1> DEFINE q == Append(p, k)
<1>1. Len(q) = Len(p) + 1 /\ (\A i \in 1..Len(p) : q[i] = p[i]) /\ q[Len(p) + 1] = k
  BY PushFacts
<1>2. Len(p) \in Nat
  BY SeqFacts
<1> HIDE DEF q
<1>3. 1..Len(q) = (1..Len(p)) \cup {Len(p) + 1} /\ Len(q) - 1 = Len(p)
  BY <1>1, <1>2
<1>4. Elements(q) = Elements(p) \cup {k}
  BY <1>1, <1>3 DEF Elements
<1>5. Before(q) = Elements(p)
  BY <1>1, <1>3 DEF Before, Elements
<1> QED
  BY <1>4, <1>5 DEF q

LEMMA FrontSet ==
    ASSUME NEW S, NEW p \in Seq(S), Len(p) > 1
    PROVE  Elements(Front(p)) = Before(p)
BY FrontFacts DEF Elements, Before

LEMMA LastSet ==
    ASSUME NEW S, NEW p \in Seq(S), p # <<>>
    PROVE  Elements(p) = Before(p) \cup {Last(p)}
<1>1. Len(p) \in Nat /\ Len(p) > 0
  BY SeqFacts
<1>2. 1..Len(p) = (1..Len(p) - 1) \cup {Len(p)}
  BY <1>1
<1> QED
  BY <1>2 DEF Elements, Before, Last

\* The knots behind a knot are of one type, and differ by their index
LEMMA OneType ==
    ASSUME Typed, NEW k, NEW x, NEW y, <<k, x>> \in edge, <<k, y>> \in edge
    PROVE  /\ x \in Knots /\ y \in Knots /\ x[2] \in Nat /\ y[2] \in Nat /\ x[1] = y[1]
           /\ x[2] = y[2] => x = y
<1>1. <<k, x>> \in Arcs /\ <<k, y>> \in Arcs
  BY DEF Typed
<1>2. (x \in States /\ y \in States) \/ (x \in Transitions /\ y \in Transitions)
  BY <1>1 DEF Arcs, States, Transitions
<1>3. x \in Knots /\ y \in Knots /\ x[2] \in Nat /\ y[2] \in Nat /\ x[1] = y[1]
  BY <1>2, KnotFacts DEF Knots, Typed
<1>4. x = <<x[1], x[2]>> /\ y = <<y[1], y[2]>>
  BY <1>2 DEF States, Transitions
<1> QED
  BY <1>3, <1>4

LEMMA GoalFacts ==
    ASSUME NEW q \in Seq(Knots), Goal(q), target # start
    PROVE  /\ Len(q) \in Nat /\ Distinct(q) /\ q[1] = start /\ Last(q) = q[Len(q)] /\ q # <<>>
           /\ \A i \in 1..Len(q) - 1 : <<q[i], q[i + 1]>> \in edge
<1>1. Len(q) \in Nat /\ SimplePath(q) /\ Last(q) = q[Len(q)]
  BY SeqFacts DEF Goal, Last
<1>2. Distinct(q)
  <2> SUFFICES ASSUME NEW i \in 1..Len(q), NEW j \in 1..Len(q), i < j, q[i] = q[j]
               PROVE  FALSE
    BY DEF Distinct
  <2>1. i = 1 /\ q[j] = target /\ q[1] = start
    BY <1>1 DEF SimplePath
  <2> QED
    BY <2>1
<1> QED
  BY <1>1, <1>2 DEF SimplePath

\* A path that comes to the target ends there
LEMMA GoalEnds ==
    ASSUME NEW p \in Seq(Knots), p # <<>>, Last(p) = target, target # start,
           NEW q \in Seq(Knots), Goal(q), Extends(q, p)
    PROVE  q = p
<1>1. Len(p) \in Nat /\ Len(p) > 0 /\ p[Len(p)] = target
  BY SeqFacts DEF Last
<1>2. Len(q) \in Nat /\ Distinct(q) /\ q[Len(q)] = target
  BY GoalFacts DEF Goal
<1>3. Len(p) <= Len(q) /\ \A m \in 1..Len(p) : q[m] = p[m]
  BY DEF Extends
<1>4. Len(p) = Len(q)
  <2> SUFFICES ASSUME Len(p) < Len(q) PROVE FALSE
    BY <1>1, <1>2, <1>3
  <2>1. Len(p) \in 1..Len(q) /\ Len(q) \in 1..Len(q) /\ q[Len(p)] = q[Len(q)]
    BY <1>1, <1>2, <1>3
  <2> QED
    BY <1>2, <2>1 DEF Distinct
<1> QED
  BY <1>3, <1>4, SeqEqual

\* A path that goes on from one that has not come to the target goes on to a
\* knot that is not on it
LEMMA GoesOn ==
    ASSUME NEW p \in Seq(Knots), p # <<>>, target \notin Elements(p), target # start,
           NEW q \in Seq(Knots), Goal(q), Extends(q, p)
    PROVE  /\ Len(q) > Len(p) /\ q[Len(p) + 1] \in Knots
           /\ <<Last(p), q[Len(p) + 1]>> \in edge /\ q[Len(p) + 1] \notin Elements(p)
<1>1. Len(p) \in Nat /\ Len(p) > 0 /\ Last(p) = p[Len(p)]
  BY SeqFacts DEF Last
<1>2. /\ Len(q) \in Nat /\ Distinct(q) /\ q[Len(q)] = target
      /\ \A i \in 1..Len(q) - 1 : <<q[i], q[i + 1]>> \in edge
  BY GoalFacts DEF Goal
<1>3. Len(p) <= Len(q) /\ \A m \in 1..Len(p) : q[m] = p[m]
  BY DEF Extends
<1>4. Len(q) > Len(p)
  <2> SUFFICES ASSUME Len(p) = Len(q) PROVE FALSE
    BY <1>1, <1>2, <1>3
  <2>1. Len(p) \in 1..Len(p) /\ p[Len(p)] = target
    BY <1>1, <1>2, <1>3
  <2> QED
    BY <2>1 DEF Elements
<1>5. Len(p) + 1 \in 1..Len(q) /\ Len(p) \in 1..Len(q) - 1
  BY <1>1, <1>2, <1>4
<1>6. <<Last(p), q[Len(p) + 1]>> \in edge /\ q[Len(p) + 1] \in Knots
  BY <1>1, <1>2, <1>3, <1>5, SeqFacts
<1>7. ASSUME NEW m \in 1..Len(p) PROVE p[m] # q[Len(p) + 1]
  <2>1. m \in 1..Len(q) /\ m < Len(p) + 1 /\ q[m] = p[m]
    BY <1>1, <1>3, <1>5
  <2> QED
    BY <1>2, <1>5, <2>1 DEF Distinct
<1> QED
  BY <1>4, <1>6, <1>7 DEF Elements

-----------------------------------------------------------------------------
(* What is covered by a step of the search *)

LEMMA LowerPushed ==
    ASSUME NEW p \in Seq(Knots), NEW k \in Knots, NEW q, Len(q) \in Nat, Lower(q, Append(p, k))
    PROVE  Lower(q, p) \/ (Extends(q, p) /\ Len(q) > Len(p) /\ q[Len(p) + 1][2] < k[2])
<1> DEFINE r == Append(p, k)
<1>1. Len(r) = Len(p) + 1 /\ (\A i \in 1..Len(p) : r[i] = p[i]) /\ r[Len(p) + 1] = k
  BY PushFacts
<1>2. Len(p) \in Nat
  BY SeqFacts
<1>0. Lower(q, r)
  OBVIOUS
<1> HIDE DEF r
<1>3. PICK n \in 1..Len(r) : n <= Len(q) /\ q[n][2] < r[n][2] /\ \A m \in 1..(n - 1) : q[m] = r[m]
  BY <1>0 DEF Lower
<1>4. CASE n = Len(p) + 1
  <2>1. \A m \in 1..Len(p) : q[m] = p[m]
    BY <1>1, <1>2, <1>3, <1>4
  <2>2. Len(p) <= Len(q) /\ Len(q) > Len(p)
    BY <1>2, <1>3, <1>4
  <2> QED
    BY <1>1, <1>3, <1>4, <2>1, <2>2 DEF Extends
<1>5. CASE n # Len(p) + 1
  <2>1. n \in 1..Len(p) /\ \A m \in 1..(n - 1) : m \in 1..Len(p)
    BY <1>1, <1>2, <1>3, <1>5
  <2>2. q[n][2] < p[n][2] /\ \A m \in 1..(n - 1) : q[m] = p[m]
    BY <1>1, <1>3, <2>1
  <2> QED
    BY <1>3, <2>1, <2>2 DEF Lower
<1> QED
  BY <1>4, <1>5

LEMMA LowerOfFront ==
    ASSUME NEW p \in Seq(Knots), Len(p) > 1, NEW q, Lower(q, Front(p))
    PROVE  Lower(q, p)
<1> DEFINE r == Front(p)
<1>1. Len(r) = Len(p) - 1 /\ \A i \in 1..(Len(p) - 1) : r[i] = p[i]
  BY FrontFacts
<1>2. Len(p) \in Nat
  BY SeqFacts
<1>0. Lower(q, r)
  OBVIOUS
<1> HIDE DEF r
<1>3. PICK n \in 1..Len(r) : n <= Len(q) /\ q[n][2] < r[n][2] /\ \A m \in 1..(n - 1) : q[m] = r[m]
  BY <1>0 DEF Lower
<1>4. n \in 1..Len(p) /\ r[n] = p[n] /\ \A m \in 1..(n - 1) : r[m] = p[m]
  BY <1>1, <1>2, <1>3
<1> QED
  BY <1>3, <1>4 DEF Lower

\* A path that goes on where the last knot was taken back goes on to a lower
\* one, to the same, or to one of the branches
LEMMA BackFrom ==
    ASSUME Typed, NEW p \in Seq(Knots), Len(p) > 1, target \notin Before(p), target # start,
           <<p[Len(p) - 1], p[Len(p)]>> \in edge,
           NEW q \in Seq(Knots), Goal(q), Extends(q, Front(p))
    PROVE  LET x == q[Len(p)]
           IN  /\ x \in Knots /\ <<Last(Front(p)), x>> \in edge /\ x \notin Before(p)
               /\ Lower(q, p) \/ Extends(q, p) \/ x[2] > Last(p)[2]
<1> DEFINE f == Front(p)
           x == q[Len(p)]
<1>1. /\ f \in Seq(Knots) /\ f # <<>> /\ Len(f) = Len(p) - 1 /\ (\A i \in 1..(Len(p) - 1) : f[i] = p[i])
      /\ Last(f) = p[Len(p) - 1] /\ Elements(f) = Before(p)
  BY FrontFacts, FrontSet
<1>2. Len(p) \in Nat /\ Last(p) = p[Len(p)] /\ Len(q) \in Nat
  BY SeqFacts DEF Last
<1>0. Extends(q, f)
  OBVIOUS
<1> HIDE DEF f
<1>3. Len(f) + 1 = Len(p)
  BY <1>1, <1>2
<1>4. Len(q) > Len(f) /\ x \in Knots /\ <<Last(f), x>> \in edge /\ x \notin Before(p)
  BY <1>0, <1>1, <1>3, GoesOn
<1>5. x[2] \in Nat /\ Last(p)[2] \in Nat /\ (x[2] = Last(p)[2] => x = Last(p))
  BY <1>1, <1>2, <1>4, OneType
<1>6. Len(p) <= Len(q) /\ \A m \in 1..(Len(p) - 1) : q[m] = p[m]
  BY <1>0, <1>1, <1>2, <1>4 DEF Extends
<1>7. ASSUME x[2] < Last(p)[2] PROVE Lower(q, p)
  <2>1. Len(p) \in 1..Len(p)
    BY <1>2
  <2> QED
    BY <1>2, <1>6, <1>7, <2>1 DEF Lower
<1>8. ASSUME x[2] = Last(p)[2] PROVE Extends(q, p)
  <2>1. \A m \in 1..Len(p) : q[m] = p[m]
    BY <1>2, <1>5, <1>6, <1>8
  <2> QED
    BY <1>6, <2>1 DEF Extends
<1>9. x[2] < Last(p)[2] \/ x[2] = Last(p)[2] \/ x[2] > Last(p)[2]
  BY <1>5
<1>10. Lower(q, p) \/ Extends(q, p) \/ x[2] > Last(p)[2]
  BY <1>7, <1>8, <1>9
<1> QED
  BY <1>4, <1>10 DEF f

LEMMA CoveredFound ==
    ASSUME NEW p \in Seq(Knots), p # <<>>, Last(p) = target, target # start,
           NEW P, CoversLower(p, P)
    PROVE  CoversTail(p, P \cup {p})
BY GoalEnds DEF CoversLower, CoversTail

LEMMA CoveredDeadEnd ==
    ASSUME NEW p \in Seq(Knots), p # <<>>, target \notin Elements(p), target # start,
           \A x \in Knots : <<Last(p), x>> \in edge => x \in Elements(p),
           NEW P, CoversLower(p, P)
    PROVE  CoversTail(p, P)
BY GoesOn DEF CoversLower, CoversTail

LEMMA CoveredGoOn ==
    ASSUME Typed, NEW p \in Seq(Knots), p # <<>>, target \notin Elements(p), target # start,
           NEW k \in Knots, \A x \in Knots : <<Last(p), x>> \in edge /\ x \notin Elements(p) => k[2] <= x[2],
           NEW P, CoversLower(p, P)
    PROVE  CoversLower(Append(p, k), P)
<1> SUFFICES ASSUME NEW q \in Seq(Knots), Goal(q), Lower(q, Append(p, k)) PROVE q \in P
  BY DEF CoversLower
<1>1. Len(q) \in Nat
  BY SeqFacts
<1>2. CASE Lower(q, p)
  BY <1>2 DEF CoversLower
<1>3. CASE Extends(q, p) /\ q[Len(p) + 1][2] < k[2]
  <2>1. q[Len(p) + 1] \in Knots /\ k[2] <= q[Len(p) + 1][2]
    BY <1>3, GoesOn
  <2>2. q[Len(p) + 1][2] \in Nat /\ k[2] \in Nat
    BY <2>1, KnotFacts DEF Typed
  <2> QED
    BY <1>3, <2>1, <2>2
<1> QED
  BY <1>1, <1>2, <1>3, LowerPushed

LEMMA CoveredBack ==
    ASSUME Typed, NEW p \in Seq(Knots), Len(p) > 1, target \notin Before(p), target # start,
           <<p[Len(p) - 1], p[Len(p)]>> \in edge,
           \A x \in Knots : <<Last(Front(p)), x>> \in edge /\ x \notin Before(p) => ~(x[2] > Last(p)[2]),
           NEW P, CoversTail(p, P)
    PROVE  CoversTail(Front(p), P)
<1> SUFFICES ASSUME NEW q \in Seq(Knots), Goal(q), Lower(q, Front(p)) \/ Extends(q, Front(p)) PROVE q \in P
  BY DEF CoversTail
<1>1. CASE Lower(q, Front(p))
  BY <1>1, LowerOfFront DEF CoversTail
<1>2. CASE Extends(q, Front(p))
  BY <1>2, BackFrom DEF CoversTail
<1> QED
  BY <1>1, <1>2

LEMMA CoveredBranch ==
    ASSUME Typed, NEW p \in Seq(Knots), Len(p) > 1, target \notin Before(p), target # start,
           <<p[Len(p) - 1], p[Len(p)]>> \in edge,
           NEW k \in Knots,
           \A x \in Knots : <<Last(Front(p)), x>> \in edge /\ x \notin Before(p) /\ x[2] > Last(p)[2] => k[2] <= x[2],
           NEW P, CoversTail(p, P)
    PROVE  CoversLower(Append(Front(p), k), P)
<1> DEFINE f == Front(p)
<1> SUFFICES ASSUME NEW q \in Seq(Knots), Goal(q), Lower(q, Append(f, k)) PROVE q \in P
  BY DEF CoversLower
<1>1. Len(q) \in Nat /\ f \in Seq(Knots) /\ Len(f) + 1 = Len(p)
  <2>1. Len(p) \in Nat /\ Len(f) = Len(p) - 1
    BY SeqFacts, FrontFacts
  <2> QED
    BY <2>1, SeqFacts, FrontFacts
<1>2. CASE Lower(q, f)
  BY <1>2, LowerOfFront DEF CoversTail
<1>3. CASE Extends(q, f) /\ q[Len(p)][2] < k[2]
  <2>1. /\ q[Len(p)] \in Knots
        /\ Lower(q, p) \/ Extends(q, p) \/ k[2] <= q[Len(p)][2]
    BY <1>3, BackFrom
  <2>2. q[Len(p)][2] \in Nat /\ k[2] \in Nat
    BY <2>1, KnotFacts DEF Typed
  <2>3. ~(k[2] <= q[Len(p)][2])
    BY <1>3, <2>2
  <2> QED
    BY <2>1, <2>3 DEF CoversTail
<1> HIDE DEF f
<1> QED
  BY <1>1, <1>2, <1>3, LowerPushed

-----------------------------------------------------------------------------
(* The steps of the search *)

Open == Unlimited /\ target # start

Covered ==
    Open => /\ pc = "forward" => CoversLower(path, Elements(paths))
            /\ pc = "backward" => CoversTail(path, Elements(paths))
            /\ pc \in {"next", "done"} /\ path # <<>> => CoversAll(Elements(paths))

Ahead == Open /\ pc \in {"forward", "backward"} => target \notin Before(path)

Exhaustive == loops \in Nat /\ Covered /\ Ahead

LEMMA FramedGoals ==
    ASSUME Framed
    PROVE  /\ \A p, P : CoversLower(p, P)' = CoversLower(p, P)
           /\ \A p, P : CoversTail(p, P)' = CoversTail(p, P)
           /\ \A P : CoversAll(P)' = CoversAll(P)
           /\ target' = target /\ start' = start
BY DEF Framed, CoversLower, CoversTail, CoversAll, Goal, SimplePath, Knots, States, Transitions

LEMMA FramedExhaustive ==
    ASSUME Framed, loops' \in Nat, Unlimited' => Unlimited,
           NEW p, path' = p, NEW P, Elements(paths)' = P,
           Open => /\ pc' = "forward" => CoversLower(p, P)
                   /\ pc' = "backward" => CoversTail(p, P)
                   /\ pc' \in {"forward", "backward"} => target \notin Before(p),
           Open' /\ Open => (pc' \in {"next", "done"} /\ p # <<>> => CoversAll(P))
    PROVE  Exhaustive'
<1>1. Open' => Open
  BY FramedGoals DEF Open
<1>2. Before(path)' = Before(p)
  BY DEF Before
<1>3. Ahead'
  BY <1>1, <1>2, FramedGoals DEF Ahead
<1>4. /\ CoversLower(path, Elements(paths))' = CoversLower(p, P)
      /\ CoversTail(path, Elements(paths))' = CoversTail(p, P)
      /\ CoversAll(Elements(paths))' = CoversAll(P)
  BY FramedGoals DEF CoversLower, CoversTail, CoversAll
<1>5. Covered'
  BY <1>1, <1>4 DEF Covered
<1> QED
  BY <1>3, <1>5 DEF Exhaustive

\* The search ends a loop; the next target is due only when the loops are used up
LEMMA LoopedExhaustive ==
    ASSUME Framed, min' = min, loops \in Nat, Looped, NEW p, path' = p, NEW P, Elements(paths)' = P,
           Open => CoversTail(p, P) /\ target \notin Before(p)
    PROVE  Exhaustive'
<1>1. loops' = loops + 1 /\ loops' \in Nat /\ pc' = IF loops + 1 < LoopsMax THEN "backward" ELSE "next"
  BY DEF Looped
<1>2. Unlimited' => loops + 1 < LoopsMax /\ Unlimited
  <2>1. LoopsMax \in Nat
    BY BoundAssumption
  <2>2. max' = max
    BY DEF Framed
  <2> QED
    BY <1>1, <2>1, <2>2 DEF Unlimited
<1>3. Open' => pc' = "backward"
  BY <1>1, <1>2 DEF Open
<1>4. pc' \in {"backward", "next"}
  BY <1>1
<1> QED
  BY <1>1, <1>2, <1>3, <1>4, FramedExhaustive

LEMMA ForwardExhaustive ==
    ASSUME IInv, Exhaustive, SearchPathForward
    PROVE  Exhaustive'
<1> DEFINE P == Elements(paths)
<1>1. /\ pc = "forward" /\ Framed /\ min' = min /\ SimplePath(path) /\ path \in Seq(Knots)
      /\ loops \in Nat /\ Typed /\ paths \in Seq(Seq(Knots))
      /\ Len(doc.s) \in Nat /\ Len(doc.t) \in Nat
  BY DEF SearchPathForward, Framed, IInv, Walking, Typed, Exhaustive
<1>2. path # <<>> /\ Len(path) \in Nat /\ Len(path) > 0 /\ path[1] = start /\ Last(path) = path[Len(path)]
  BY <1>1, SeqFacts DEF SimplePath, Last
<1>3. Open => CoversLower(path, P) /\ target \notin Before(path)
  BY <1>1 DEF Exhaustive, Covered, Ahead
<1>4. Elements(path) = Before(path) \cup {Last(path)}
  BY <1>1, <1>2, LastSet
<1>5. \A p \in Seq(Knots) : Elements(Append(paths, p)) = P \cup {p}
  BY <1>1, PushSet
<1>6. ASSUME Found(path), Looped, AtTarget PROVE Exhaustive'
  <2>1. path' = path /\ Elements(paths)' = P \cup {path}
    BY <1>1, <1>5, <1>6 DEF Found, Elements
  <2>2. Open => CoversTail(path, P \cup {path})
    <3> HIDE DEF P
    <3> QED
      BY <1>1, <1>2, <1>3, <1>6, CoveredFound DEF AtTarget, Open
  <2> QED
    BY <1>1, <1>3, <1>6, <2>1, <2>2, LoopedExhaustive
<1>7. CASE TooLong
  <2>1. DeadEnd /\ ~Open
    BY <1>7 DEF SearchPathForward, TooLong, Open, Unlimited
  <2>2. Looped /\ path' = path /\ Elements(paths)' = P
    BY <2>1 DEF DeadEnd, Elements
  <2> QED
    BY <1>1, <2>1, <2>2, LoopedExhaustive
<1>8. CASE ~TooLong /\ AtTarget
  <2>1. IF TooShort THEN DeadEnd ELSE Found(path) /\ Looped
    BY <1>8 DEF SearchPathForward
  <2>2. CASE ~TooShort
    BY <1>6, <1>8, <2>1, <2>2
  <2>3. CASE TooShort
    <3>1. DeadEnd /\ ~Open
      BY <2>1, <2>3 DEF TooShort, Open, Unlimited
    <3>2. Looped /\ path' = path /\ Elements(paths)' = P
      BY <3>1 DEF DeadEnd, Elements
    <3> QED
      BY <1>1, <3>1, <3>2, LoopedExhaustive
  <2> QED BY <2>2, <2>3
<1>9. CASE ~TooLong /\ ~AtTarget
  <2>1. IF Last(path) \in States THEN ForwardFromState ELSE ForwardFromTransition
    BY <1>9 DEF SearchPathForward
  <2> DEFINE Free == {x \in Knots : <<Last(path), x>> \in edge /\ x \notin Elements(path)}
  <2>2. Open => target \notin Elements(path)
    <3>1. Open => Last(path) # target
      <4>1. CASE Len(path) > 1
        BY <1>2, <1>9, <4>1 DEF AtTarget, Length
      <4>2. CASE Len(path) = 1
        BY <1>2, <4>2 DEF Open
      <4>3. Len(path) > 1 \/ Len(path) = 1
        BY <1>2
      <4> QED BY <4>1, <4>2, <4>3
    <3> QED
      BY <1>3, <1>4, <3>1
  <2>4. ASSUME DeadEnd, Open => Free = {} PROVE Exhaustive'
    <3>1. Looped /\ path' = path /\ Elements(paths)' = P
      BY <2>4 DEF DeadEnd, Elements
    <3>2. Open => CoversTail(path, P)
      <4> HIDE DEF P
      <4> QED BY <1>1, <1>2, <1>3, <2>2, <2>4, CoveredDeadEnd DEF Open
    <3> HIDE DEF Free
    <3> QED
      BY <1>1, <1>3, <3>1, <3>2, LoopedExhaustive
  <2>5. ASSUME NEW k \in Knots, Open => \A x \in Free : k[2] <= x[2]
        PROVE  Open => CoversLower(Append(path, k), P) /\ target \notin Before(Append(path, k))
    <3>1. Open => CoversLower(Append(path, k), P)
      <4> HIDE DEF P
      <4> QED BY <1>1, <1>2, <1>3, <2>2, <2>5, CoveredGoOn DEF Open
    <3>2. Before(Append(path, k)) = Elements(path)
      BY <1>1, PushSet
    <3> QED
      BY <2>2, <3>1, <3>2
  <2>6. ASSUME NEW k \in Knots, GoOn(k), Open => \A x \in Free : k[2] <= x[2]
        PROVE  Exhaustive'
    <3> DEFINE p == Append(path, k)
    <3>1. path' = p /\ pc' = "forward" /\ loops' = loops /\ Elements(paths)' = P
      BY <2>6 DEF GoOn, Elements
    <3>2. Unlimited' => Unlimited
      BY <1>1, <3>1 DEF Unlimited, Framed
    <3>3. Open => CoversLower(p, P) /\ target \notin Before(p)
      BY <2>5, <2>6
    <3> HIDE DEF p, P, Free
    <3> QED
      BY <1>1, <3>1, <3>2, <3>3, FramedExhaustive
  <2>7. CASE Last(path) \in States
    <3>1. \A x : x \in FreeTransitions <=> (x \in Knots /\ <<Last(path), x>> \in edge /\ x \notin Before(path))
      <4>1. \A x : <<Last(path), x>> \in edge => x \in Transitions
        <5>1. \A x : <<Last(path), x>> \in edge => <<Last(path), x>> \in Arcs
          BY <1>1 DEF Typed
        <5> QED
          BY <2>7, <5>1 DEF Arcs, States, Transitions
      <4> QED
        BY <4>1 DEF FreeTransitions, Knots
    <3>2. \A x \in Free : x \in FreeTransitions
      BY <1>4, <3>1
    <3>3. CASE FreeTransitions = {}
      <4>1. DeadEnd
        BY <2>1, <2>7, <3>3 DEF ForwardFromState
      <4> QED
        BY <2>4, <3>2, <3>3, <4>1
    <3>4. CASE FreeTransitions # {}
      <4> DEFINE k == Least(FreeTransitions)
      <4>1. GoOn(k)
        BY <2>1, <2>7, <3>4 DEF ForwardFromState
      <4>2. \A x \in FreeTransitions : x \in Knots /\ x[2] \in Nat
        BY <1>1, <3>1, KnotFacts
      <4>3. k \in FreeTransitions /\ \A x \in FreeTransitions : k[2] <= x[2]
        BY <3>4, <4>2, LeastIn
      <4> HIDE DEF k, Free
      <4> QED
        BY <2>6, <3>2, <4>1, <4>2, <4>3
    <3> QED BY <3>3, <3>4
  <2>8. CASE Last(path) \notin States
    <3>1. Open => \A x \in Free : x \in FreeStates
      <4>1. \A x : <<Last(path), x>> \in edge => x \in States
        <5>1. \A x : <<Last(path), x>> \in edge => <<Last(path), x>> \in Arcs
          BY <1>1 DEF Typed
        <5> QED
          BY <2>8, <5>1 DEF Arcs, States, Transitions
      <4> QED
        BY <1>4, <4>1 DEF FreeStates
    <3>2. \A x \in FreeStates : x \in Knots /\ x[2] \in Nat
      BY <1>1, KnotFacts DEF FreeStates, Knots
    <3>3. CASE FreeStates = {}
      <4>1. DeadEnd
        BY <2>1, <2>8, <3>3 DEF ForwardFromTransition
      <4> QED
        BY <2>4, <3>1, <3>3, <4>1
    <3>4. CASE FreeStates # {}
      <4> DEFINE k == Least(FreeStates)
      <4>1. IF k = target THEN Found(Append(path, k)) /\ Looped ELSE GoOn(k)
        BY <2>1, <2>8, <3>4 DEF ForwardFromTransition
      <4>2. k \in FreeStates /\ \A x \in FreeStates : k[2] <= x[2]
        BY <3>2, <3>4, LeastIn
      <4> HIDE DEF k
      <4>3. k \in Knots /\ (Open => \A x \in Free : k[2] <= x[2])
        BY <3>1, <3>2, <4>2
      <4>4. CASE k # target
        BY <2>6, <4>1, <4>3, <4>4
      <4>5. CASE k = target
        <5> DEFINE p == Append(path, k)
        <5>1. p \in Seq(Knots) /\ p # <<>> /\ Last(p) = target
          BY <1>1, <4>3, <4>5, PushFacts
        <5>2. Found(p) /\ Looped
          BY <4>1, <4>5
        <5>3. Open => CoversLower(p, P) /\ target \notin Before(p)
          BY <2>5, <4>3
        <5> HIDE DEF p, Free
        <5>4. path' = p /\ Elements(paths)' = P \cup {p}
          BY <1>5, <5>1, <5>2 DEF Found, Elements
        <5>5. Open => CoversTail(p, P \cup {p})
          <6> HIDE DEF P
          <6> QED BY <5>1, <5>3, CoveredFound DEF Open
        <5> QED
          BY <1>1, <5>2, <5>3, <5>4, <5>5, LoopedExhaustive
      <4> QED BY <4>4, <4>5
    <3> QED BY <3>3, <3>4
  <2> QED BY <2>7, <2>8
<1> QED
  BY <1>7, <1>8, <1>9

LEMMA BackwardExhaustive ==
    ASSUME IInv, Exhaustive, SearchBranchBackward
    PROVE  Exhaustive'
<1> DEFINE P == Elements(paths)
           f == Front(path)
<1>1. /\ pc = "backward" /\ Framed /\ min' = min /\ SimplePath(path) /\ path \in Seq(Knots)
      /\ loops \in Nat /\ loops' = loops /\ Typed /\ paths' = paths
      /\ Len(doc.s) \in Nat /\ Len(doc.t) \in Nat
  BY DEF SearchBranchBackward, Framed, IInv, Walking, Typed, Exhaustive
<1>2. path # <<>> /\ Len(path) \in Nat /\ Len(path) > 0 /\ path[1] = start /\ Last(path) = path[Len(path)]
  BY <1>1, SeqFacts DEF SimplePath, Last
<1>3. Open => CoversTail(path, P) /\ target \notin Before(path)
  BY <1>1 DEF Exhaustive, Covered, Ahead
<1>4. Elements(paths)' = P /\ (Unlimited' => Unlimited)
  BY <1>1 DEF Elements, Unlimited, Framed
<1>5. CASE Length < 1
  <2>1. pc' = "next" /\ path' = path
    BY <1>5 DEF SearchBranchBackward
  <2>2. Len(path) = 1
    <3>1. Len(path) - 1 < 1 /\ Len(path) \in Nat /\ Len(path) > 0
      BY <1>2, <1>5 DEF Length
    <3> QED BY ONLY <3>1
  <2>3. Open => CoversAll(P)
    <3> SUFFICES ASSUME Open, NEW q \in Seq(Knots), Goal(q) PROVE q \in P
      BY DEF CoversAll
    <3>1. q[1] = start /\ 1 <= Len(q) /\ Len(q) \in Nat
      BY SeqFacts DEF Goal, SimplePath
    <3>2. Extends(q, path)
      BY <1>2, <2>2, <3>1 DEF Extends
    <3> HIDE DEF P
    <3> QED
      BY <1>3, <3>2 DEF CoversTail
  <2> HIDE DEF P
  <2> QED
    BY <1>1, <1>4, <2>1, <2>3, FramedExhaustive
<1>6. CASE ~(Length < 1)
  <2>1. Len(path) > 1
    BY <1>2, <1>6 DEF Length
  <2>2. f \in Seq(Knots) /\ f # <<>> /\ Elements(f) = Before(path)
    BY <1>1, <2>1, FrontFacts, FrontSet
  <2>3. Last(f) = path[Len(path) - 1] /\ Elements(f) = Before(f) \cup {Last(f)}
    BY <1>1, <2>1, <2>2, FrontFacts, LastSet
  <2>4. <<path[Len(path) - 1], path[Len(path)]>> \in edge
    <3>1. Len(path) - 1 \in 1..Len(path) - 1 /\ (Len(path) - 1) + 1 = Len(path)
      BY <1>2, <2>1
    <3> QED
      BY <1>1, <3>1 DEF SimplePath
  <2>5. ASSUME NEW x \in Knots, <<Last(f), x>> \in edge, x \notin Before(path), x[2] > Last(path)[2]
        PROVE  x \in Branches
    <3>1. <<Last(f), Last(path)>> \in edge
      BY <1>2, <2>3, <2>4
    <3>2. x[1] = Last(path)[1]
      BY <1>1, <2>5, <3>1, OneType
    <3>3. x \notin Before(f)
      BY <2>2, <2>3, <2>5
    <3> QED
      BY <2>5, <3>2, <3>3 DEF Branches
  <2>6. \A x \in Branches : x \in Knots /\ x[2] \in Nat
    BY <1>1, KnotFacts DEF Branches
  <2>7. CASE Branches = {}
    <3>1. path' = f /\ pc' = "backward"
      BY <1>1, <1>6, <2>7 DEF SearchBranchBackward
    <3>2. Open => CoversTail(f, P)
      <4>1. \A x \in Knots : <<Last(Front(path)), x>> \in edge /\ x \notin Before(path) => ~(x[2] > Last(path)[2])
        BY <2>5, <2>7
      <4> HIDE DEF P
      <4> QED BY <1>1, <1>3, <2>1, <2>4, <4>1, CoveredBack DEF Open
    <3>3. Open => target \notin Before(f)
      BY <1>3, <2>2, <2>3
    <3> HIDE DEF P, f
    <3> QED
      BY <1>1, <1>4, <3>1, <3>2, <3>3, FramedExhaustive
  <2>8. CASE Branches # {}
    <3> DEFINE k == Least(Branches)
               p == Append(f, k)
    <3>1. path' = p /\ pc' = "forward"
      BY <1>6, <2>8 DEF SearchBranchBackward
    <3>2. k \in Branches /\ \A x \in Branches : k[2] <= x[2]
      BY <2>6, <2>8, LeastIn
    <3> HIDE DEF k
    <3>3. k \in Knots
      BY <2>6, <3>2
    <3>4. Open => CoversLower(p, P)
      <4>1. \A x \in Knots : <<Last(Front(path)), x>> \in edge /\ x \notin Before(path) /\ x[2] > Last(path)[2] => k[2] <= x[2]
        BY <2>5, <3>2
      <4> HIDE DEF P
      <4> QED BY <1>1, <1>3, <2>1, <2>4, <3>3, <4>1, CoveredBranch DEF Open
    <3>5. Open => target \notin Before(p)
      <4>1. Before(p) = Elements(f)
        BY <2>2, <3>3, PushSet
      <4> QED
        BY <1>3, <2>2, <4>1
    <3> HIDE DEF P, p
    <3> QED
      BY <1>1, <1>4, <3>1, <3>4, <3>5, FramedExhaustive
  <2> QED BY <2>7, <2>8
<1> QED
  BY <1>5, <1>6

\* A search starts with nothing before its path
LEMMA NextTargetExhaustive ==
    ASSUME IInv, Exhaustive, NextTarget
    PROVE  Exhaustive'
<1>1. pc = "next" /\ loops \in Nat /\ UNCHANGED <<doc, edge, min, max, start, loops>>
  BY DEF NextTarget, Exhaustive
<1>2. CASE UNCHANGED <<target, path, paths>> /\ pc' \in {"next", "done"}
  <2>1. Open' = Open
    BY <1>1, <1>2 DEF Open, Unlimited
  <2>2. CoversAll(Elements(paths))' = CoversAll(Elements(paths))
    BY <1>1, <1>2 DEF CoversAll, Goal, SimplePath, Elements, Knots, States, Transitions
  <2>3. Covered'
    BY <1>1, <1>2, <2>1, <2>2 DEF Covered, Exhaustive
  <2> QED
    BY <1>1, <1>2, <2>3 DEF Exhaustive, Ahead
<1>3. CASE path' = <<start>> /\ pc' = "forward"
  <2>1. Before(path)' = {}
    BY <1>3 DEF Before
  <2>2. CoversLower(path, Elements(paths))'
    <3> SUFFICES ASSUME NEW q \in Seq(Knots)', Goal(q)', Lower(q, path)' PROVE FALSE
      BY DEF CoversLower
    <3>1. q[1] = start
      BY <1>1 DEF Goal, SimplePath
    <3>2. PICK n \in 1..Len(path)' : q[n][2] < path'[n][2]
      BY DEF Lower
    <3>3. Len(path') = 1 /\ path'[1] = start
      BY <1>3
    <3>4. n = 1
      BY <3>2, <3>3
    <3>5. start[2] \in Nat
      BY <1>1, KnotFacts DEF IInv, Typed, Knots
    <3> QED
      BY <3>1, <3>2, <3>3, <3>4, <3>5
  <2>3. Covered' /\ Ahead'
    BY <1>3, <2>1, <2>2 DEF Covered, Ahead
  <2> QED
    BY <1>1, <2>3 DEF Exhaustive
<1> QED
  BY <1>1, <1>2, <1>3 DEF NextTarget, SetTarget

-----------------------------------------------------------------------------
(* What the recursion of Walks makes                                          *)

\* A walk from the start that comes to no knot twice
Walk(q) ==
    /\ q # <<>> /\ q[1] = start /\ Distinct(q)
    /\ \A i \in 1..Len(q) - 1 : <<q[i], q[i + 1]>> \in edge

WalksOf(n) == {q \in Seq(Knots) : Walk(q) /\ Len(q) = n + 1}

\* The paths from the start to the knots of K
WalksTo(K) == {q \in Seq(Knots) : Walk(q) /\ Last(q) \in K /\ Len(q) > 1}

\* The walks that go on from p by one knot
OnFrom(p) == {Append(p, k) : k \in {x \in Knots : <<Last(p), x>> \in edge /\ x \notin ToSet(p)}}

LEMMA WalkPush ==
    ASSUME NEW p \in Seq(Knots), Walk(p), NEW k \in Knots, <<Last(p), k>> \in edge, k \notin Elements(p)
    PROVE  Append(p, k) \in Seq(Knots) /\ Walk(Append(p, k)) /\ Len(Append(p, k)) = Len(p) + 1
<1> DEFINE q == Append(p, k)
<1>1. /\ q \in Seq(Knots) /\ q # <<>> /\ Len(q) = Len(p) + 1
      /\ (\A i \in 1..Len(p) : q[i] = p[i]) /\ q[Len(p) + 1] = k
  BY PushFacts
<1>2. Len(p) \in Nat /\ Len(p) > 0 /\ Last(p) = p[Len(p)]
  BY SeqFacts DEF Walk, Last
<1> HIDE DEF q
<1>3. q[1] = start
  BY <1>1, <1>2 DEF Walk
<1>4. ASSUME NEW i \in 1..Len(q) - 1 PROVE <<q[i], q[i + 1]>> \in edge
  <2>1. CASE i = Len(p)
    BY <1>1, <1>2, <2>1
  <2>2. CASE i # Len(p)
    <3>1. i \in 1..Len(p) - 1 /\ i \in 1..Len(p) /\ i + 1 \in 1..Len(p)
      BY <1>1, <1>2, <2>2
    <3> QED BY <1>1, <3>1 DEF Walk
  <2> QED BY <2>1, <2>2
<1>5. ASSUME NEW i \in 1..Len(q), NEW j \in 1..Len(q), i < j PROVE q[i] # q[j]
  <2>1. i \in 1..Len(p) /\ q[i] = p[i]
    BY <1>1, <1>2, <1>5
  <2>2. CASE j = Len(p) + 1
    BY <1>1, <2>1, <2>2 DEF Elements
  <2>3. CASE j # Len(p) + 1
    <3>1. j \in 1..Len(p)
      BY <1>1, <1>2, <2>3
    <3> QED BY <1>1, <1>5, <2>1, <3>1 DEF Walk, Distinct
  <2> QED BY <2>2, <2>3
<1> QED
  BY <1>1, <1>3, <1>4, <1>5 DEF Walk, Distinct, q

LEMMA WalkFront ==
    ASSUME NEW q \in Seq(Knots), Walk(q), Len(q) > 1
    PROVE  /\ Front(q) \in Seq(Knots) /\ Walk(Front(q)) /\ Len(Front(q)) = Len(q) - 1
           /\ q[Len(q)] \in Knots /\ <<Last(Front(q)), q[Len(q)]>> \in edge
           /\ q[Len(q)] \notin Elements(Front(q))
           /\ q = Append(Front(q), q[Len(q)])
<1> DEFINE f == Front(q)
           k == q[Len(q)]
<1>1. /\ f \in Seq(Knots) /\ f # <<>> /\ Len(f) = Len(q) - 1 /\ (\A i \in 1..(Len(q) - 1) : f[i] = q[i])
      /\ Last(f) = q[Len(q) - 1]
  BY FrontFacts
<1>2. Len(q) \in Nat /\ k \in Knots
  BY SeqFacts
<1> HIDE DEF f
<1>3. <<Last(f), k>> \in edge
  <2>1. Len(q) - 1 \in 1..Len(q) - 1 /\ (Len(q) - 1) + 1 = Len(q)
    BY <1>2
  <2> QED BY <1>1, <2>1 DEF Walk
<1>4. k \notin Elements(f)
  <2> SUFFICES ASSUME NEW i \in 1..Len(f), f[i] = k PROVE FALSE
    BY DEF Elements
  <2>1. i \in 1..Len(q) /\ Len(q) \in 1..Len(q) /\ i < Len(q) /\ f[i] = q[i]
    BY <1>1, <1>2
  <2> QED BY <2>1 DEF Walk, Distinct
<1>5. f[1] = start
  BY <1>1, <1>2 DEF Walk
<1>6. ASSUME NEW i \in 1..Len(f) - 1 PROVE <<f[i], f[i + 1]>> \in edge
  <2>1. i \in 1..Len(q) - 1 /\ i + 1 \in 1..Len(q) - 1
    BY <1>1, <1>2
  <2> QED BY <1>1, <2>1 DEF Walk
<1>7. Distinct(f)
  <2> SUFFICES ASSUME NEW i \in 1..Len(f), NEW j \in 1..Len(f), i < j PROVE f[i] # f[j]
    BY DEF Distinct
  <2>1. i \in 1..Len(q) /\ j \in 1..Len(q) /\ f[i] = q[i] /\ f[j] = q[j]
    BY <1>1, <1>2
  <2> QED BY <2>1 DEF Walk, Distinct
<1>8. q = Append(f, k)
  <2> DEFINE r == Append(f, k)
  <2>1. r \in Seq(Knots) /\ Len(r) = Len(f) + 1 /\ (\A i \in 1..Len(f) : r[i] = f[i]) /\ r[Len(f) + 1] = k
    BY <1>1, <1>2, PushFacts
  <2> HIDE DEF r
  <2>2. Len(r) = Len(q)
    BY <1>1, <1>2, <2>1
  <2>3. ASSUME NEW i \in 1..Len(q) PROVE q[i] = r[i]
    <3>1. CASE i = Len(q)
      BY <1>1, <1>2, <2>1, <3>1
    <3>2. CASE i # Len(q)
      <4>1. i \in 1..(Len(q) - 1) /\ i \in 1..Len(f)
        BY <1>1, <1>2, <3>2
      <4> QED BY <1>1, <2>1, <4>1
    <3> QED BY <3>1, <3>2
  <2>4. q = r
    BY <2>1, <2>2, <2>3, SeqEqual
  <2> QED
    BY <2>4 DEF r
<1> QED
  BY <1>1, <1>2, <1>3, <1>4, <1>5, <1>6, <1>7, <1>8 DEF Walk, f

LEMMA WalksStep ==
    ASSUME start \in Knots, NEW n \in Nat
    PROVE  WalksOf(n) = IF n = 0 THEN {<<start>>} ELSE UNION {OnFrom(p) : p \in WalksOf(n - 1)}
<1>1. CASE n = 0
  <2>1. <<start>> \in WalksOf(0)
    BY DEF WalksOf, Walk, Distinct
  <2>2. ASSUME NEW q \in WalksOf(0) PROVE q = <<start>>
    <3>1. q \in Seq(Knots) /\ Len(q) = 1 /\ q[1] = start
      BY DEF WalksOf, Walk
    <3> QED
      BY <3>1, SeqEqual
  <2> QED
    BY <1>1, <2>1, <2>2
<1>2. CASE n # 0
  <2>1. ASSUME NEW p \in WalksOf(n - 1), NEW q \in OnFrom(p) PROVE q \in WalksOf(n)
    <3>1. p \in Seq(Knots) /\ Walk(p) /\ Len(p) = n
      BY <1>2 DEF WalksOf
    <3>2. PICK k \in Knots : <<Last(p), k>> \in edge /\ k \notin ToSet(p) /\ q = Append(p, k)
      BY DEF OnFrom
    <3>3. k \notin Elements(p)
      BY <3>1, <3>2, SetOf
    <3> QED
      BY <3>1, <3>2, <3>3, WalkPush DEF WalksOf
  <2>2. ASSUME NEW q \in WalksOf(n) PROVE \E p \in WalksOf(n - 1) : q \in OnFrom(p)
    <3>1. q \in Seq(Knots) /\ Walk(q) /\ Len(q) = n + 1 /\ Len(q) > 1
      BY <1>2 DEF WalksOf
    <3> DEFINE f == Front(q)
               k == q[Len(q)]
    <3>2. /\ f \in Seq(Knots) /\ Walk(f) /\ Len(f) = Len(q) - 1
          /\ k \in Knots /\ <<Last(f), k>> \in edge /\ k \notin Elements(f) /\ q = Append(f, k)
      BY <3>1, WalkFront
    <3> HIDE DEF f, k
    <3>3. k \notin ToSet(f)
      BY <3>2, SetOf
    <3>4. Len(f) = (n - 1) + 1
      BY <3>1, <3>2
    <3> QED
      BY <3>2, <3>3, <3>4 DEF WalksOf, OnFrom
  <2> QED
    BY <1>2, <2>1, <2>2
<1> QED
  BY <1>1, <1>2

LEMMA Below ==
    ASSUME NEW N \in Int, NEW i \in 0..N
    PROVE  i \in Nat /\ (i # 0 => i - 1 \in 0..N) /\ ~(i <= i - 1)
OBVIOUS

LEMMA WalksAre ==
    ASSUME start \in Knots, Len(doc.s) \in Nat, Len(doc.t) \in Nat,
           NEW n \in 0..Len(doc.s) + Len(doc.t)
    PROVE  Walks[n] = WalksOf(n)
<1> DEFINE D == 0..Len(doc.s) + Len(doc.t)
           F(g) == [i \in D |-> IF i = 0 THEN {<<start>>} ELSE UNION {OnFrom(p) : p \in g[i - 1]}]
           w == [i \in D |-> WalksOf(i)]
<1>1. \A i \in D : i \in Nat /\ (i # 0 => i - 1 \in D) /\ ~(i <= i - 1)
  <2>1. Len(doc.s) + Len(doc.t) \in Int
    OBVIOUS
  <2> QED BY <2>1, Below
<1>2. w = F(w)
  <2>1. \A i \in D : w[i] = F(w)[i]
    <3> SUFFICES ASSUME NEW i \in D PROVE w[i] = F(w)[i]
      OBVIOUS
    <3>1. w[i] = IF i = 0 THEN {<<start>>} ELSE UNION {OnFrom(p) : p \in WalksOf(i - 1)}
      BY <1>1, WalksStep
    <3>2. i # 0 => w[i - 1] = WalksOf(i - 1)
      BY <1>1
    <3> QED
      BY <3>1, <3>2
  <2> QED BY <2>1
<1>3. Walks = CHOOSE g : g = F(g)
  BY DEF Walks, OnFrom
<1>4. Walks = F(Walks)
  <2> HIDE DEF F, w
  <2> QED BY <1>2, <1>3
<1>5. \A i \in D : Walks[i] = IF i = 0 THEN {<<start>>} ELSE UNION {OnFrom(p) : p \in Walks[i - 1]}
  BY <1>4
<1> DEFINE B == {i \in D : Walks[i] # WalksOf(i)}
<1>6. B = {}
  <2> SUFFICES ASSUME B # {} PROVE FALSE
    OBVIOUS
  <2>1. B \in SUBSET Nat
    BY <1>1
  <2>2. PICK i \in B : \A j \in B : i <= j
    <3> HIDE DEF B
    <3> QED BY <2>1, LeastNumber
  <2>3. i \in D /\ Walks[i] # WalksOf(i)
    OBVIOUS
  <2>4. i # 0
    BY <1>5, <2>3, WalksStep
  <2>5. i - 1 \in D /\ i - 1 \notin B
    <3>1. i - 1 \in D /\ ~(i <= i - 1)
      BY <1>1, <2>3, <2>4
    <3> QED BY <2>2, <3>1
  <2>6. Walks[i - 1] = WalksOf(i - 1)
    BY <2>5
  <2> QED
    BY <1>1, <1>5, <2>3, <2>4, <2>6, WalksStep
<1> QED
  BY <1>6

\* PathsTo means what it says
LEMMA PathsToAre ==
    ASSUME start \in Knots, Len(doc.s) \in Nat, Len(doc.t) \in Nat, NEW K
    PROVE  PathsTo(K) = WalksTo(K)
<1> DEFINE N == Len(doc.s) + Len(doc.t)
<1>1. ASSUME NEW n \in 0..N, NEW q \in Walks[n], Last(q) \in K, Len(q) > 1 PROVE q \in WalksTo(K)
  BY <1>1, WalksAre DEF WalksOf, WalksTo
<1>2. ASSUME NEW q \in WalksTo(K) PROVE \E n \in 0..N : q \in Walks[n]
  <2>1. q \in Seq(Knots) /\ Walk(q) /\ Len(q) \in Nat /\ Len(q) > 1
    BY SeqFacts DEF WalksTo
  <2>2. SimplePath(q)
    BY <2>1 DEF Walk, SimplePath, Distinct
  <2>3. Len(q) - 1 <= N
    BY <2>1, <2>2, LengthBound
  <2>4. Len(q) - 1 \in 0..N /\ Len(q) = (Len(q) - 1) + 1
    <3>1. N \in Int
      OBVIOUS
    <3> HIDE DEF N
    <3> QED BY <2>1, <2>3, <3>1
  <2>5. q \in WalksOf(Len(q) - 1)
    BY <2>1, <2>4 DEF WalksOf
  <2>6. q \in Walks[Len(q) - 1]
    BY <2>4, <2>5, WalksAre
  <2> QED
    BY <2>4, <2>6
<1> QED
  BY <1>1, <1>2 DEF PathsTo, WalksTo

\* What there is to be found are the paths to the target
LEMMA GoalsAre ==
    ASSUME target # start, NEW q \in Seq(Knots)
    PROVE  Goal(q) <=> q \in WalksTo({target})
<1>1. ASSUME Goal(q) PROVE q \in WalksTo({target})
  BY <1>1, GoalFacts DEF Goal, WalksTo, Walk
<1>2. ASSUME q \in WalksTo({target}) PROVE Goal(q)
  BY <1>2 DEF Goal, WalksTo, Walk, SimplePath, Distinct
<1> QED
  BY <1>1, <1>2

-----------------------------------------------------------------------------
(* What is marked                                                             *)

Sought == IF all THEN Nameable \ {start} ELSE {target}
Rest == {StateFor(doc.s[k[2]]) : k \in Elements(targets)}
IsMarked(q) == Elements(q) \subseteq marked /\ EdgesIn(q) \subseteq used

\* Where an element is with its targets
Aims ==
    /\ pc = "new" => path = <<>> /\ paths = <<>> /\ marked = {} /\ used = {}
    /\ pc # "new" => start \in Nameable /\ edge = EdgesOf(doc.e)
    /\ pc \in {"forward", "backward"} => path # <<>>
    /\ pc = "done" => targets = <<>>
    /\ WellNamed /\ pc # "new" /\ all =>
          /\ targets \in Seq(States)
          /\ path = <<>> => target = None
          /\ path # <<>> => target \in Nameable \ {start}
    /\ WellNamed /\ pc # "new" /\ ~all =>
          /\ target \in Nameable
          /\ path = <<>> => pc = "next" /\ targets = <<target>>
          /\ path # <<>> => targets = <<>>

\* What is on a path to a target that is passed is marked, and nothing else
Exact ==
    /\ \A q \in WalksTo(Sought \ (Rest \cup {target})) : IsMarked(q)
    /\ \A q \in Elements(paths) : IsMarked(q)
    /\ \A k \in marked : \E q \in WalksTo(Sought) : k \in Elements(q)
    /\ \A e \in used : \E q \in WalksTo(Sought) : e \in EdgesIn(q)

Marks == WellNamed /\ Open /\ pc # "new" => Exact

\* A state with an id finds the first one of its id, which finds itself
LEMMA FoundById ==
    ASSUME Len(doc.s) \in Nat, NEW k \in States, doc.s[k[2]] # NoId
    PROVE  StateFor(doc.s[k[2]]) \in Nameable
<1> DEFINE ids == doc.s
           id == ids[k[2]]
           hits == {i \in 1..Len(ids) : ids[i] = id}
           n == FirstIndex(ids, id)
<1>1. k[2] \in 1..Len(ids) /\ k[2] \in hits
  BY DEF States
<1>2. n = CHOOSE i \in hits : \A j \in hits : i <= j
  BY <1>1 DEF FirstIndex, Min
<1>3. \E i \in hits : \A j \in hits : i <= j
  <2>1. hits \in SUBSET Nat /\ hits # {}
    BY <1>1
  <2> HIDE DEF hits
  <2> QED BY <2>1, LeastNumber
<1>4. n \in hits
  <2> HIDE DEF hits, n
  <2> QED BY <1>2, <1>3
<1>5. n \in 1..Len(ids) /\ ids[n] = id /\ n # None
  <2>1. n \in Nat
    BY <1>4
  <2> HIDE DEF n
  <2> QED BY <1>4, <2>1, LimitAssumption
<1>6. StateFor(id) = <<"state", n>>
  BY <1>5 DEF StateFor
<1>7. StateFor(ids[n]) = <<"state", n>>
  BY <1>5, <1>6
<1> HIDE DEF n, hits
<1>8. <<"state", n>> \in States
  BY <1>5 DEF States
<1> QED
  BY <1>6, <1>7, <1>8 DEF Nameable

LEMMA TailSet ==
    ASSUME NEW S, NEW p \in Seq(S), p # <<>>
    PROVE  Head(p) \in S /\ Tail(p) \in Seq(S) /\ Elements(p) = {Head(p)} \cup Elements(Tail(p))
<1>1. /\ Head(p) \in S /\ Tail(p) \in Seq(S) /\ Len(Tail(p)) = Len(p) - 1
      /\ \A i \in 1..Len(Tail(p)) : Tail(p)[i] = p[i + 1]
  BY HeadTailProperties
<1>2. Len(p) \in Nat /\ Len(p) > 0 /\ Head(p) = p[1]
  BY SeqFacts
<1>3. ASSUME NEW i \in 1..Len(p) PROVE i = 1 \/ (i - 1 \in 1..Len(Tail(p)) /\ Tail(p)[i - 1] = p[i])
  BY <1>1, <1>2
<1>4. ASSUME NEW i \in 1..Len(Tail(p)) PROVE i + 1 \in 1..Len(p)
  BY <1>1, <1>2
<1>5. Head(p) \in Elements(p)
  <2>1. 1 \in 1..Len(p)
    BY <1>2
  <2> QED BY <1>2, <2>1 DEF Elements
<1> DEFINE t == Tail(p)
<1> HIDE DEF t
<1>6. ASSUME NEW i \in 1..Len(t) PROVE t[i] \in Elements(p)
  <2>1. i + 1 \in 1..Len(p) /\ t[i] = p[i + 1]
    BY <1>1, <1>4 DEF t
  <2> QED BY <2>1 DEF Elements
<1>7. ASSUME NEW i \in 1..Len(p) PROVE p[i] \in {Head(p)} \cup Elements(t)
  <2>1. i = 1 \/ (i - 1 \in 1..Len(t) /\ t[i - 1] = p[i])
    BY <1>3 DEF t
  <2> QED BY <1>2, <2>1 DEF Elements
<1>8. Elements(p) \subseteq {Head(p)} \cup Elements(t)
  BY <1>7 DEF Elements
<1>9. Elements(t) \subseteq Elements(p)
  BY <1>6 DEF Elements
<1>10. Elements(p) = {Head(p)} \cup Elements(t)
  BY <1>5, <1>8, <1>9
<1> QED
  BY <1>1, <1>10 DEF t

\* A step of the search that finds nothing
LEMMA MarksKept ==
    ASSUME UNCHANGED <<doc, edge, all, start, target, targets, paths, marked, used>>,
           Open' => Open, pc # "new", pc' \notin {"new", "done"}, path # <<>>, path' # <<>>, Aims, Marks
    PROVE  Aims' /\ Marks'
<1>1. WellNamed' = WellNamed /\ Nameable' = Nameable /\ States' = States
  BY DEF WellNamed, Nameable, States, StateFor
<1>2. Aims'
  BY <1>1, FramedEdges DEF Aims
<1>3. /\ Sought' = Sought /\ Rest' = Rest /\ Elements(paths)' = Elements(paths)
      /\ \A K : WalksTo(K)' = WalksTo(K)
      /\ \A q : IsMarked(q)' = IsMarked(q) /\ EdgesIn(q)' = EdgesIn(q)
  BY <1>1, FramedEdges DEF Sought, Rest, Elements, WalksTo, Walk, Distinct, IsMarked, Knots, States, Transitions,
              StateFor
<1>4. WalksTo(Sought)' = WalksTo(Sought)
      /\ WalksTo(Sought \ (Rest \cup {target}))' = WalksTo(Sought \ (Rest \cup {target}))
  BY <1>3
<1>5. Marks'
  BY <1>1, <1>3, <1>4 DEF Marks, Exact
<1> QED
  BY <1>2, <1>5

LEMMA FoundMarks ==
    ASSUME IInv, Aims, Marks, pc = "forward", pc' \in {"backward", "next"}, Open' => Open,
           UNCHANGED <<doc, edge, all, start, target, targets>>,
           NEW p \in Seq(Knots), SimplePath(p), Last(p) = target, Found(p)
    PROVE  Aims' /\ Marks'
<1>1. WellNamed' = WellNamed /\ Nameable' = Nameable /\ States' = States
  BY DEF WellNamed, Nameable, States, StateFor
<1>2. /\ path' = p /\ p # <<>> /\ path # <<>> /\ Elements(paths)' = Elements(paths) \cup {p}
      /\ marked' = marked \cup Elements(p) /\ used' = used \cup EdgesIn(p)
  <2>1. Elements(Append(paths, p)) = Elements(paths) \cup {p}
    BY PushSet DEF IInv, Typed
  <2> QED
    BY <2>1, SetOf DEF Found, Elements, SimplePath, Aims
<1>3. Aims'
  BY <1>1, <1>2, FramedEdges DEF Aims
<1>4. /\ Sought' = Sought /\ Rest' = Rest
      /\ \A K : WalksTo(K)' = WalksTo(K)
      /\ \A q : EdgesIn(q)' = EdgesIn(q)
  BY <1>1, FramedEdges DEF Sought, Rest, Elements, WalksTo, Walk, Distinct, Knots, States, Transitions, StateFor
<1>5. WalksTo(Sought)' = WalksTo(Sought)
      /\ WalksTo(Sought \ (Rest \cup {target}))' = WalksTo(Sought \ (Rest \cup {target}))
  BY <1>4
<1>6. \A q : IsMarked(q) => IsMarked(q)'
  BY <1>2, <1>4 DEF IsMarked, Elements
<1>7. IsMarked(p)'
  BY <1>2, <1>4 DEF IsMarked, Elements
<1>8. WellNamed /\ Open => p \in WalksTo(Sought)
  <2> SUFFICES ASSUME WellNamed, Open PROVE p \in WalksTo(Sought)
    OBVIOUS
  <2>1. target # start /\ Len(p) \in Nat /\ Len(p) > 0 /\ p[1] = start /\ Last(p) = p[Len(p)]
    BY <1>2, SeqFacts DEF Open, SimplePath, Last
  <2>2. Len(p) # 1
    BY <2>1
  <2>3. Goal(p)
    BY <2>1, <2>2 DEF Goal
  <2>4. target \in Sought
    BY <1>2 DEF Aims, Sought
  <2> QED
    BY <2>1, <2>3, <2>4, GoalsAre DEF WalksTo
<1>9. Marks'
  <2> SUFFICES ASSUME WellNamed', Open' PROVE Exact'
    BY DEF Marks
  <2>0. WellNamed /\ Open
    BY <1>1
  <2>1. Exact
    BY <2>0 DEF Marks
  <2>2. \A q \in WalksTo(Sought \ (Rest \cup {target}))' : IsMarked(q)'
    BY <1>5, <1>6, <2>1 DEF Exact
  <2>3. \A q \in Elements(paths)' : IsMarked(q)'
    BY <1>2, <1>6, <1>7, <2>1 DEF Exact
  <2>4. \A k \in marked' : \E q \in WalksTo(Sought)' : k \in Elements(q)'
    <3>1. \A k \in marked' : \E q \in WalksTo(Sought) : k \in Elements(q)
      BY <1>2, <1>8, <2>0, <2>1 DEF Exact
    <3> QED BY <1>5, <3>1 DEF Elements
  <2>5. \A e \in used' : \E q \in WalksTo(Sought)' : e \in EdgesIn(q)'
    <3>1. \A e \in used' : \E q \in WalksTo(Sought) : e \in EdgesIn(q)
      BY <1>2, <1>8, <2>0, <2>1 DEF Exact
    <3> QED BY <1>4, <1>5, <3>1
  <2> QED
    BY <2>2, <2>3, <2>4, <2>5 DEF Exact
<1> QED
  BY <1>3, <1>9

LEMMA ForwardMarks ==
    ASSUME IInv, IInv', Aims, Marks, Exhaustive, SearchPathForward
    PROVE  Aims' /\ Marks'
<1>1. /\ pc = "forward" /\ path # <<>> /\ Framed
      /\ UNCHANGED <<doc, edge, min, max, all, start, target, targets>>
      /\ Len(paths) \in Nat /\ paths \in Seq(Seq(Knots)) /\ loops \in Nat
  BY SeqFacts DEF SearchPathForward, Framed, Aims, IInv, Typed, Exhaustive
<1>2. LoopsMax \in Nat
  BY BoundAssumption
<1>3. ASSUME loops' \in {loops, loops + 1} PROVE Open' => Open
  BY <1>1, <1>2, <1>3 DEF Open, Unlimited
<1>4. ASSUME DeadEnd PROVE Aims' /\ Marks'
  <2>1. UNCHANGED <<path, paths, marked, used>> /\ loops' = loops + 1 /\ pc' \in {"backward", "next"}
    BY <1>4 DEF DeadEnd, Looped
  <2> QED
    BY <1>1, <1>3, <2>1, MarksKept
<1>5. ASSUME NEW k, GoOn(k) PROVE Aims' /\ Marks'
  <2>1. UNCHANGED <<paths, marked, used>> /\ loops' = loops /\ pc' = "forward"
    BY <1>5 DEF GoOn
  <2>2. path' # <<>>
    BY <2>1 DEF IInv, Walking, SimplePath
  <2> QED
    BY <1>1, <1>3, <2>1, <2>2, MarksKept
<1>6. ASSUME NEW p, p \in Seq(Knots), Found(p), Looped PROVE Aims' /\ Marks'
  <2>1. pc' \in {"backward", "next"} /\ loops' = loops + 1 /\ paths' = Append(paths, p)
    BY <1>6 DEF Found, Looped
  <2>2. PICK n \in Nat : n = Len(paths) + 1
    BY <1>1
  <2>3. Len(paths') = n /\ paths'[n] = p
    BY <1>1, <1>6, <2>1, <2>2, PushFacts
  <2>4. n \in 1..Len(paths')
    BY <1>1, <2>2, <2>3
  <2>5. SimplePath(p) /\ Last(p) = target
    <3>1. Reported(paths[n])'
      BY <2>4 DEF IInv, Listed
    <3> QED BY <1>1, <2>3, <3>1 DEF Reported, SimplePath
  <2> QED
    BY <1>1, <1>3, <1>6, <2>1, <2>5, FoundMarks
<1>7. DeadEnd \/ (\E k : GoOn(k)) \/ (\E p : Found(p) /\ Looped)
  <2>1. CASE TooLong
    BY <2>1 DEF SearchPathForward
  <2>2. CASE ~TooLong /\ AtTarget
    <3>1. IF TooShort THEN DeadEnd ELSE Found(path) /\ Looped
      BY <2>2 DEF SearchPathForward
    <3> QED BY <3>1
  <2>3. CASE ~TooLong /\ ~AtTarget
    <3>1. IF Last(path) \in States THEN ForwardFromState ELSE ForwardFromTransition
      BY <2>3 DEF SearchPathForward
    <3> QED
      BY <3>1 DEF ForwardFromState, ForwardFromTransition
  <2> QED BY <2>1, <2>2, <2>3
<1>8. \A p : Found(p) => p \in Seq(Knots)
  <2>1. path' \in Seq(Knots)
    BY <1>1 DEF IInv, Typed, Framed, Knots, States, Transitions
  <2> QED BY <2>1 DEF Found
<1> QED
  BY <1>4, <1>5, <1>6, <1>7, <1>8

LEMMA BackwardMarks ==
    ASSUME IInv', Aims, Marks, SearchBranchBackward
    PROVE  Aims' /\ Marks'
<1>1. /\ UNCHANGED <<doc, edge, min, max, all, start, target, targets, paths, marked, used, loops>>
      /\ pc = "backward" /\ path # <<>>
  BY DEF SearchBranchBackward, Aims
<1>2. Open' => Open
  BY <1>1 DEF Open, Unlimited
<1>3. (pc' = "next" /\ path' = path) \/ pc' = "backward" \/ pc' = "forward"
  BY <1>1 DEF SearchBranchBackward
<1>4. path' # <<>>
  BY <1>1, <1>3 DEF IInv, Walking, SimplePath
<1> QED
  BY <1>1, <1>2, <1>3, <1>4, MarksKept

LEMMA BeginMarks ==
    ASSUME IInv, Aims, Exhaustive, NEW s \in Nameable, NEW t \in Nameable \cup {None}, Begin(s, t)
    PROVE  Aims' /\ Marks' /\ Exhaustive'
<1>1. /\ pc = "new" /\ pc' = "next" /\ start' = s /\ target' = t /\ all' = (t = None)
      /\ UNCHANGED <<doc, path, paths, marked, used, loops>>
      /\ path = <<>> /\ paths = <<>> /\ marked = {} /\ used = {} /\ loops \in Nat
      /\ targets' = IF t # None THEN <<t>> ELSE [i \in Named(doc.s) |-> <<"state", i>>]
      /\ Len(doc.s) \in Nat
  BY DEF Begin, Aims, Exhaustive, IInv, Typed
<1>2. Nameable' = Nameable /\ States' = States /\ Named(doc.s)' = Named(doc.s)
  BY <1>1 DEF Nameable, States, StateFor, Named
<1>3. Exhaustive'
  BY <1>1 DEF Exhaustive, Covered, Ahead
<1>4. WellNamed' => Named(doc.s) = 1..Len(doc.s)
  BY <1>1, <1>2 DEF WellNamed
<1>6. WellNamed' /\ all' => targets' \in Seq(States) /\ Elements(targets)' = States
  <2> SUFFICES ASSUME WellNamed', all' PROVE targets' \in Seq(States) /\ Elements(targets)' = States
    OBVIOUS
  <2>1. targets' = [i \in 1..Len(doc.s) |-> <<"state", i>>]
    BY <1>1, <1>4
  <2>2. \A i \in 1..Len(doc.s) : <<"state", i>> \in States
    BY DEF States
  <2>3. targets' \in Seq(States) /\ Len(targets') = Len(doc.s)
    BY <1>1, <2>1, <2>2
  <2>4. Elements(targets)' = {targets'[i] : i \in 1..Len(targets')}
    BY DEF Elements
  <2> QED
    BY <2>1, <2>3, <2>4 DEF States
<1>7. Aims'
  BY <1>1, <1>2, <1>6, FramedEdges DEF Aims, Begin
<1>8. WellNamed' => Sought' \ (Rest' \cup {target'}) = {}
  <2> SUFFICES ASSUME WellNamed' PROVE Sought' \subseteq Rest' \cup {target'}
    OBVIOUS
  <2>1. CASE ~all'
    BY <2>1 DEF Sought
  <2>2. CASE all'
    <3>1. Rest' = {StateFor(doc.s[k[2]]) : k \in States}
      <4>1. Rest' = {StateFor(doc.s[k[2]])' : k \in Elements(targets)'}
        BY DEF Rest
      <4> QED
        BY <1>1, <1>6, <2>2, <4>1 DEF StateFor
    <3>2. \A k \in Nameable : k \in Rest'
      BY <3>1 DEF Nameable
    <3> QED
      BY <1>1, <1>2, <2>2, <3>2 DEF Sought
  <2> QED BY <2>1, <2>2
<1>9. Marks'
  <2> SUFFICES ASSUME WellNamed' PROVE Exact'
    BY DEF Marks
  <2>1. \A q \in WalksTo(Sought \ (Rest \cup {target}))' : IsMarked(q)'
    <3>1. WalksTo(Sought \ (Rest \cup {target}))' = {}
      BY <1>8 DEF WalksTo
    <3> QED BY <3>1
  <2>2. Elements(paths)' = {} /\ marked' = {} /\ used' = {}
    BY <1>1 DEF Elements
  <2> QED
    BY <2>1, <2>2 DEF Exact
<1> QED
  BY <1>3, <1>7, <1>9


\* A search that has ended has found what there is
LEMMA FoundAll ==
    ASSUME IInv, Exhaustive, Open, pc \in {"next", "done"}, path # <<>>
    PROVE  Elements(paths) = WalksTo({target})
<1>1. target # start /\ paths \in Seq(Seq(Knots)) /\ CoversAll(Elements(paths))
  BY DEF IInv, Typed, Open, Exhaustive, Covered
<1>2. ASSUME NEW q \in WalksTo({target}) PROVE q \in Elements(paths)
  <2>1. q \in Seq(Knots)
    BY DEF WalksTo
  <2> QED BY <1>1, <2>1, GoalsAre DEF CoversAll
<1>3. ASSUME NEW i \in 1..Len(paths) PROVE paths[i] \in WalksTo({target})
  <2> DEFINE q == paths[i]
  <2>1. q \in Seq(Knots) /\ Reported(q)
    BY <1>1, SeqFacts DEF IInv, Listed
  <2> HIDE DEF q
  <2>2. Len(q) \in Nat /\ Len(q) > 0 /\ q[1] = start /\ Last(q) = target /\ Last(q) = q[Len(q)] /\ SimplePath(q)
    BY <2>1, SeqFacts DEF Reported, SimplePath, Last
  <2>3. Len(q) # 1
    BY <1>1, <2>2
  <2>4. Goal(q)
    BY <2>2, <2>3 DEF Goal
  <2>5. q \in WalksTo({target})
    BY <1>1, <2>1, <2>4, GoalsAre
  <2> QED BY <2>5 DEF q
<1> QED
  BY <1>2, <1>3 DEF Elements

\* All paths to the targets that are passed are marked when a search has ended
LEMMA PassedMarked ==
    ASSUME IInv, Exhaustive, Aims, Marks, WellNamed, Open, pc \in {"next", "done"},
           path = <<>> => target \notin Sought \ Rest,
           NEW q \in WalksTo(Sought \ Rest)
    PROVE  IsMarked(q)
<1>1. Exact
  BY DEF Marks
<1>2. CASE Last(q) # target
  <2>1. q \in WalksTo(Sought \ (Rest \cup {target}))
    BY <1>2 DEF WalksTo
  <2> QED BY <1>1, <2>1 DEF Exact
<1>3. CASE Last(q) = target
  <2>1. path # <<>>
    BY <1>3 DEF WalksTo
  <2>2. q \in WalksTo({target})
    BY <1>3 DEF WalksTo
  <2>3. q \in Elements(paths)
    BY <2>1, <2>2, FoundAll
  <2> QED BY <1>1, <2>3 DEF Exact
<1> QED
  BY <1>2, <1>3

LEMMA NullState ==
    ASSUME Len(doc.s) \in Nat
    PROVE  None \notin States
BY KnotAssumption DEF States

LEMMA NextTargetMarks ==
    ASSUME IInv, Aims, Marks, Exhaustive, NextTarget
    PROVE  Aims' /\ Marks'
<1>1. /\ pc = "next" /\ UNCHANGED <<doc, edge, min, max, all, start, table, marked, used, loops>>
      /\ Len(doc.s) \in Nat
  BY DEF NextTarget, IInv, Typed
<1>2. /\ WellNamed' = WellNamed /\ Nameable' = Nameable /\ States' = States /\ Unlimited' = Unlimited
      /\ \A K : WalksTo(K)' = WalksTo(K)
      /\ \A q : IsMarked(q)' = IsMarked(q) /\ EdgesIn(q)' = EdgesIn(q) /\ Elements(q)' = Elements(q)
  BY <1>1, FramedEdges DEF WellNamed, Nameable, States, StateFor, Unlimited, WalksTo, Walk, Distinct, IsMarked,
              Elements, Knots, Transitions
<1>3. start \in Nameable /\ Nameable \subseteq States /\ None \notin States
  BY <1>1, NullState DEF Aims, Nameable
<1>4. CASE targets = <<>>
  <2>1. pc' = "done" /\ UNCHANGED <<target, targets, path, paths>>
    BY <1>4 DEF NextTarget
  <2>2. <<target>> # <<>>
    OBVIOUS
  <2>3. Aims'
    BY <1>1, <1>2, <1>4, <2>1, <2>2, FramedEdges DEF Aims
  <2>4. Sought' = Sought /\ Rest' = Rest /\ Elements(paths)' = Elements(paths) /\ Open' = Open
    BY <1>1, <1>2, <2>1 DEF Sought, Rest, Elements, StateFor, Open
  <2>5. WalksTo(Sought)' = WalksTo(Sought)
        /\ WalksTo(Sought \ (Rest \cup {target}))' = WalksTo(Sought \ (Rest \cup {target}))
    BY <1>2, <2>1, <2>4
  <2>6. Marks'
    BY <1>1, <1>2, <2>4, <2>5 DEF Marks, Exact
  <2> QED
    BY <2>3, <2>6
<1>5. CASE targets # <<>> /\ all /\ Head(targets) = start
  <2>1. targets' = Tail(targets) /\ UNCHANGED <<target, path, paths, pc>>
    BY <1>5 DEF NextTarget
  <2>2. WellNamed => /\ targets \in Seq(States) /\ Tail(targets) \in Seq(States)
                     /\ Elements(targets) = {start} \cup Elements(Tail(targets))
    BY <1>1, <1>5, TailSet DEF Aims
  <2>3. Aims'
    BY <1>1, <1>2, <1>5, <2>1, <2>2, FramedEdges DEF Aims
  <2>4. Sought' = Sought /\ Elements(paths)' = Elements(paths) /\ Open' = Open
    BY <1>1, <1>2, <2>1 DEF Sought, Elements, Open
  <2>5. WellNamed => Rest = Rest' \cup {start}
    <3> SUFFICES ASSUME WellNamed PROVE Rest = Rest' \cup {start}
      OBVIOUS
    <3>1. Rest' = {StateFor(doc.s[k[2]]) : k \in Elements(Tail(targets))}
      BY <1>1, <2>1 DEF Rest, StateFor, Elements
    <3>2. StateFor(doc.s[start[2]]) = start
      BY <1>3 DEF Nameable
    <3> QED
      BY <2>2, <3>1, <3>2 DEF Rest
  <2>6. WellNamed => Sought \ (Rest \cup {target}) = Sought' \ (Rest' \cup {target'})
    BY <1>5, <2>1, <2>4, <2>5 DEF Sought
  <2>7. WalksTo(Sought)' = WalksTo(Sought)
        /\ (WellNamed => WalksTo(Sought \ (Rest \cup {target}))' = WalksTo(Sought \ (Rest \cup {target})))
    BY <1>2, <2>4, <2>6
  <2>8. Marks'
    <3> SUFFICES ASSUME WellNamed', Open', pc' # "new" PROVE Exact'
      BY DEF Marks
    <3>1. Exact
      BY <1>1, <1>2, <2>4 DEF Marks
    <3> QED
      BY <1>1, <1>2, <2>4, <2>7, <3>1 DEF Exact
  <2> QED
    BY <2>3, <2>8
<1>6. CASE targets # <<>> /\ ~(all /\ Head(targets) = start)
  <2> DEFINE h == Head(targets)
  <2>1. /\ targets' = Tail(targets) /\ target' = StateFor(doc.s[h[2]]) /\ path' = <<start>> /\ paths' = <<>>
        /\ pc' = "forward"
    BY <1>6 DEF NextTarget, SetTarget
  <2>2. ASSUME WellNamed, all
        PROVE  /\ h \in States /\ Tail(targets) \in Seq(States) /\ h # start
               /\ Elements(targets) = {h} \cup Elements(Tail(targets))
               /\ target' \in Nameable \ {start}
    <3>1. h \in States /\ Tail(targets) \in Seq(States) /\ Elements(targets) = {h} \cup Elements(Tail(targets))
      BY <1>1, <1>6, <2>2, TailSet DEF Aims
    <3>2. h # start
      BY <1>6, <2>2
    <3> HIDE DEF h
    <3>3. doc.s[h[2]] # NoId
      <4>1. h[2] \in 1..Len(doc.s)
        BY <3>1 DEF States
      <4>2. h[2] \in Named(doc.s)
        BY <2>2, <4>1 DEF WellNamed
      <4> QED
        BY <4>1, <4>2 DEF Named
    <3>4. target' \in Nameable
      BY <1>1, <2>1, <3>1, <3>3, FoundById
    <3>5. target' # start
      <4>1. CASE h \in Nameable
        BY <2>1, <3>2, <4>1 DEF Nameable
      <4>2. CASE h \notin Nameable
        BY <2>1, <2>2, <3>1, <4>2 DEF WellNamed
      <4> QED BY <4>1, <4>2
    <3> QED
      BY <3>1, <3>2, <3>4, <3>5
  <2>3. ASSUME WellNamed, ~all
        PROVE  /\ path = <<>> /\ targets = <<target>> /\ h = target /\ target \in Nameable
               /\ Tail(targets) = <<>> /\ target' = target
    <3>1. path = <<>> /\ targets = <<target>> /\ target \in Nameable
      BY <1>1, <1>6, <2>3 DEF Aims
    <3>2. h = target /\ Tail(targets) = <<>>
      BY <3>1
    <3> QED
      BY <2>1, <3>1, <3>2 DEF Nameable
  <2>4. <<start>> # <<>>
    OBVIOUS
  <2>5. Aims'
    BY <1>1, <1>2, <1>3, <2>1, <2>2, <2>3, <2>4, FramedEdges DEF Aims
  <2>6. Marks'
    <3> SUFFICES ASSUME WellNamed, Open' PROVE Exact'
      BY <1>2 DEF Marks
    <3>1. Open
      <4>1. CASE all
        BY <1>1, <1>2, <1>3, <4>1 DEF Open, Aims
      <4>2. CASE ~all
        BY <1>1, <1>2, <2>3, <4>2 DEF Open
      <4> QED BY <4>1, <4>2
    <3>2. Sought' = Sought
      BY <1>1, <1>2, <2>3 DEF Sought
    <3>3. Rest = Rest' \cup {target'}
      <4>1. Rest' = {StateFor(doc.s[k[2]]) : k \in Elements(Tail(targets))}
        BY <1>1, <2>1 DEF Rest, StateFor, Elements
      <4>2. Elements(targets) = {h} \cup Elements(Tail(targets))
        <5>1. CASE all
          BY <2>2, <5>1
        <5>2. CASE ~all
          <6>1. <<target>> \in Seq({target})
            OBVIOUS
          <6> QED
            BY <2>3, <5>2, <6>1, TailSet
        <5> QED BY <5>1, <5>2
      <4> HIDE DEF h
      <4> QED
        BY <2>1, <4>1, <4>2 DEF Rest
    <3>4. path = <<>> => target \notin Sought \ Rest
      <4>1. CASE all
        BY <1>1, <1>3, <4>1 DEF Aims, Sought
      <4>2. CASE ~all
        BY <2>3, <3>3, <4>2
      <4> QED BY <4>1, <4>2
    <3>5. \A q \in WalksTo(Sought \ Rest) : IsMarked(q)
      BY <1>1, <3>1, <3>4, PassedMarked
    <3>6. \A q \in WalksTo(Sought \ (Rest \cup {target}))' : IsMarked(q)'
      <4>1. Sought' \ (Rest' \cup {target'}) = Sought \ Rest
        BY <3>2, <3>3
      <4>2. WalksTo(Sought \ (Rest \cup {target}))' = WalksTo(Sought \ Rest)
        BY <1>2, <4>1
      <4> QED BY <1>2, <3>5, <4>2
    <3>7. WalksTo(Sought)' = WalksTo(Sought)
      BY <1>2, <3>2
    <3>8. Elements(paths)' = {}
      BY <2>1 DEF Elements
    <3>9. Exact
      BY <1>1, <3>1 DEF Marks
    <3> QED
      BY <1>1, <1>2, <3>6, <3>7, <3>8, <3>9 DEF Exact
  <2> QED
    BY <2>5, <2>6
<1> QED
  BY <1>4, <1>5, <1>6


-----------------------------------------------------------------------------
(* The results of an exhaustive search                                        *)

Searching == IInv /\ Exhaustive /\ Aims /\ Marks

LEMMA InitSearching == Init => Searching
<1> SUFFICES ASSUME Init PROVE Searching
  OBVIOUS
<1>1. Exhaustive
  BY DEF Init, Exhaustive, Covered, Ahead
<1>2. Aims /\ Marks
  BY DEF Init, Aims, Marks
<1> QED
  BY <1>1, <1>2, InitIInv DEF Searching

LEMMA StepSearching == Searching /\ [Next]_vars => Searching'
<1> SUFFICES ASSUME Searching, [Next]_vars PROVE Searching'
  OBVIOUS
<1>1. IInv /\ Exhaustive /\ Aims /\ Marks /\ IInv'
  BY StepIInv DEF Searching
<1>2. CASE UNCHANGED vars
  <2>1. UNCHANGED <<doc, edge, min, max, all, start, target, targets, path, paths, marked, used, loops, pc>>
    BY <1>2 DEF vars
  <2>2. Framed /\ Open' = Open /\ Unlimited' = Unlimited /\ Elements(paths)' = Elements(paths)
    BY <2>1 DEF Framed, Open, Unlimited, Elements
  <2>3. Exhaustive'
    <3>1. loops' \in Nat
      BY <1>1, <2>1 DEF Exhaustive
    <3>2. Open => /\ pc' = "forward" => CoversLower(path, Elements(paths))
                  /\ pc' = "backward" => CoversTail(path, Elements(paths))
                  /\ pc' \in {"forward", "backward"} => target \notin Before(path)
      BY <1>1, <2>1 DEF Exhaustive, Covered, Ahead
    <3>3. Open' /\ Open => (pc' \in {"next", "done"} /\ path # <<>> => CoversAll(Elements(paths)))
      BY <1>1, <2>1 DEF Exhaustive, Covered
    <3> QED
      BY <2>1, <2>2, <3>1, <3>2, <3>3, FramedExhaustive
  <2>4. WellNamed' = WellNamed /\ Nameable' = Nameable /\ States' = States
    BY <2>1 DEF WellNamed, Nameable, States, StateFor
  <2>5. Aims'
    BY <1>1, <2>1, <2>4, FramedEdges DEF Aims
  <2>6. /\ Sought' = Sought /\ Rest' = Rest
        /\ \A K : WalksTo(K)' = WalksTo(K)
        /\ \A q : IsMarked(q)' = IsMarked(q) /\ EdgesIn(q)' = EdgesIn(q)
    BY <2>1, <2>4, FramedEdges DEF Sought, Rest, Elements, WalksTo, Walk, Distinct, IsMarked, Knots, States,
                      Transitions, StateFor
  <2>7. WalksTo(Sought)' = WalksTo(Sought)
        /\ WalksTo(Sought \ (Rest \cup {target}))' = WalksTo(Sought \ (Rest \cup {target}))
    BY <2>1, <2>6
  <2>8. Marks'
    BY <1>1, <2>1, <2>2, <2>4, <2>6, <2>7 DEF Marks, Exact
  <2> QED
    BY <1>1, <2>3, <2>5, <2>8 DEF Searching
<1>3. CASE NextTarget
  BY <1>1, <1>3, NextTargetExhaustive, NextTargetMarks DEF Searching
<1>4. CASE SearchPathForward
  BY <1>1, <1>4, ForwardExhaustive, ForwardMarks DEF Searching
<1>5. CASE SearchBranchBackward
  BY <1>1, <1>5, BackwardExhaustive, BackwardMarks DEF Searching
<1>6. CASE \E s \in Nameable, t \in Nameable \cup {None} : Begin(s, t)
  BY <1>1, <1>6, BeginMarks DEF Searching
<1> QED
  BY <1>2, <1>3, <1>4, <1>5, <1>6 DEF Next

LEMMA CountedOnce ==
    ASSUME NEW S, NEW s \in Seq(S), \A i, j \in 1..Len(s) : s[i] = s[j] => i = j
    PROVE  Len(s) = Cardinality(Elements(s))
<1> DEFINE f == [i \in 1..Len(s) |-> s[i]]
<1>1. Len(s) \in Nat
  BY SeqFacts
<1>2. f \in [1..Len(s) -> Elements(s)]
  BY DEF Elements
<1>3. \A i, j \in 1..Len(s) : f[i] = f[j] => i = j
  OBVIOUS
<1>4. \A x \in Elements(s) : \E i \in 1..Len(s) : f[i] = x
  BY DEF Elements
<1> HIDE DEF f
<1>5. DOMAIN f = 1..Len(s)
  BY <1>2
<1>6. f \in Bijection(1..Len(s), Elements(s))
  BY <1>2, <1>3, <1>4, <1>5 DEF Bijection, Injection, Surjection, IsInjective
<1>7. ExistsBijection(1..Len(s), Elements(s))
  BY <1>6 DEF ExistsBijection
<1> QED
  BY <1>1, <1>7, FS_CountingElements

\* Edge elements of the same knots have the same ids
LEMMA SameIds ==
    ASSUME Len(doc.s) \in Nat, Len(doc.t) \in Nat, NEW i \in EdgeElements(doc.e), NEW k \in 1..2
    PROVE  doc.e[i][k] = Id(EdgeOf(doc.e[i])[k])
<1> DEFINE e == doc.e[i]
<1>1. ASSUME NEW id, StateFor(id) # None PROVE Id(StateFor(id)) = id
  BY <1>1, FirstIndexIn DEF StateFor, Id
<1>2. ASSUME NEW id, TransitionFor(id) # None PROVE Id(TransitionFor(id)) = id
  BY <1>2, FirstIndexIn DEF TransitionFor, Id
<1>3. EdgeOf(e)[1] # None /\ EdgeOf(e)[2] # None
  BY DEF EdgeElements
<1> HIDE DEF e
<1>4. CASE StateFor(e[1]) # None
  <2>1. EdgeOf(e) = <<StateFor(e[1]), TransitionFor(e[2])>>
    BY <1>4 DEF EdgeOf
  <2>2. e[k] = Id(EdgeOf(e)[k])
    <3>1. Id(StateFor(e[1])) = e[1] /\ Id(TransitionFor(e[2])) = e[2]
      BY <1>1, <1>2, <1>3, <2>1
    <3>2. k = 1 \/ k = 2
      OBVIOUS
    <3> QED BY <2>1, <3>1, <3>2
  <2> QED BY <2>2 DEF e
<1>5. CASE StateFor(e[1]) = None
  <2>1. EdgeOf(e) = <<TransitionFor(e[1]), StateFor(e[2])>>
    BY <1>5 DEF EdgeOf
  <2>2. e[k] = Id(EdgeOf(e)[k])
    <3>1. Id(TransitionFor(e[1])) = e[1] /\ Id(StateFor(e[2])) = e[2]
      BY <1>1, <1>2, <1>3, <2>1
    <3>2. k = 1 \/ k = 2
      OBVIOUS
    <3> QED BY <2>1, <3>1, <3>2
  <2> QED BY <2>2 DEF e
<1> QED
  BY <1>4, <1>5

\* An edge between knots has a first element
LEMMA FirstElement ==
    ASSUME Len(doc.e) \in Nat, NEW e \in EdgesOf(doc.e)
    PROVE  /\ EdgePtr(e) \in EdgeElements(doc.e) /\ EdgeOf(doc.e[EdgePtr(e)]) = e
           /\ \A j \in EdgeElements(doc.e) : EdgeOf(doc.e[j]) = e => EdgePtr(e) <= j
<1> DEFINE S == {i \in EdgeElements(doc.e) : EdgeOf(doc.e[i]) = e}
<1>1. S \in SUBSET Nat /\ S # {}
  BY DEF EdgeElements, EdgesOf
<1>2. PICK i \in S : \A j \in S : i <= j
  BY <1>1, LeastNumber
<1>3. EdgePtr(e) = Min(S)
  BY DEF EdgePtr
<1>4. Min(S) \in S /\ \A j \in S : Min(S) <= j
  <2> HIDE DEF S
  <2> QED BY <1>2 DEF Min
<1> QED
  BY <1>3, <1>4

\* The elements that the paths of P are marked with are the first ones of the
\* edges that they go along
LEMMA MarkedFirst ==
    ASSUME IInv, edge = EdgesOf(doc.e), NEW P, \A p \in P : p \in Seq(Knots) /\ Walk(p),
           NEW i \in EdgeElements(doc.e)
    PROVE  (\A p \in P : i \notin EdgesIn(p)) <=> i \in OffPaths(P) \cup Again
<1> DEFINE e == EdgeOf(doc.e[i])
<1>0. Len(doc.e) \in Nat /\ e \in EdgesOf(doc.e) /\ i \in Nat /\ i \in 1..Len(doc.e)
  <2>1. Len(doc.e) \in Nat
    BY DEF IInv, Typed
  <2>2. e \in EdgesOf(doc.e)
    BY DEF EdgesOf
  <2>3. i \in 1..Len(doc.e)
    BY DEF EdgeElements
  <2> HIDE DEF e
  <2> QED BY <2>1, <2>2, <2>3
<1>1. /\ EdgePtr(e) \in EdgeElements(doc.e) /\ EdgeOf(doc.e[EdgePtr(e)]) = e
      /\ \A j \in EdgeElements(doc.e) : EdgeOf(doc.e[j]) = e => EdgePtr(e) <= j
  BY <1>0, FirstElement
<1>2. i \in Again <=> i # EdgePtr(e)
  <2>1. EdgePtr(e) \in Nat /\ EdgePtr(e) <= i
    BY <1>1 DEF EdgeElements
  <2>2. i # EdgePtr(e) => i \in Again
    <3> SUFFICES ASSUME i # EdgePtr(e) PROVE i \in Again
      OBVIOUS
    <3>1. EdgePtr(e) \in 1..(i - 1) /\ EdgePtr(e) # i
      BY <1>0, <1>1, <2>1 DEF EdgeElements
    <3> QED BY <1>1, <3>1 DEF Again, RepeatsAmong
  <2>3. i \in Again => i # EdgePtr(e)
    <3> SUFFICES ASSUME i \in Again, i = EdgePtr(e) PROVE FALSE
      OBVIOUS
    <3>1. PICK j \in (1..(i - 1)) \cap EdgeElements(doc.e) : j # i /\ EdgeOf(doc.e[j]) = e
      BY DEF Again, RepeatsAmong
    <3>2. i <= j
      BY <1>1, <3>1
    <3> QED BY <1>0, <3>1, <3>2
  <2> QED BY <2>2, <2>3
<1>3. ASSUME NEW p \in P
      PROVE  i \in EdgesIn(p) <=> i = EdgePtr(e) /\ \E n \in 1..Len(p) - 1 : e = <<p[n], p[n + 1]>>
  <2>1. ASSUME NEW n \in 1..Len(p) - 1, i = EdgePtr(<<p[n], p[n + 1]>>) PROVE e = <<p[n], p[n + 1]>>
    <3>1. <<p[n], p[n + 1]>> \in EdgesOf(doc.e)
      BY DEF Walk
    <3> QED BY <1>0, <2>1, <3>1, FirstElement
  <2> QED BY <2>1 DEF EdgesIn
<1>4. i \in OffPaths(P) <=> \A p \in P : \A n \in 1..Len(p) - 1 : e # <<p[n], p[n + 1]>>
  BY DEF OffPaths
<1> HIDE DEF e
<1> QED
  BY <1>2, <1>3, <1>4

\* When a search has ended, every simple path to its target was found; at the
\* end the table has their number, and what is excluded is what no simple path
\* to a target uses, and what is repeated or named like it, in any net whose
\* knots have ids
THEOREM Exhaustion == Spec => []Complete
<1>1. Searching => Complete
  <2> SUFFICES ASSUME Searching, Unlimited PROVE Complete
    BY DEF Complete
  <2>0. IInv /\ Exhaustive /\ Aims /\ Marks /\ Len(doc.s) \in Nat /\ Len(doc.t) \in Nat /\ paths \in Seq(Seq(Knots))
        /\ (pc # "new" => start \in Knots)
    BY DEF Searching, IInv, Typed, Knots
  <2>1. ToSet(paths) = Elements(paths)
    BY <2>0, SetOf
  <2>2. ASSUME pc = "next", target # start, path # <<>> PROVE ToSet(paths) = PathsTo({target})
    BY <2>0, <2>1, <2>2, FoundAll, PathsToAre DEF Open
  <2>3. ASSUME pc = "done", target # start, WellNamed
        PROVE  LET P == PathsTo(IF all THEN Nameable \ {start} ELSE {target})
               IN  /\ ~all => Pathtable.count = Cardinality(P)
                   /\ PathnetXml = [knots |-> Avoided(P), edges |-> OffPaths(P) \cup Again]
                   /\ PathnetFilter = [knots |-> {k \in Knots : \E m \in Avoided(P) : Id(k) = Id(m)},
                                       edges |-> OffPaths(P) \cup Repeated]
    <3> DEFINE P == PathsTo(IF all THEN Nameable \ {start} ELSE {target})
    <3>1. P = WalksTo(Sought)
      BY <2>0, <2>3, PathsToAre DEF Sought
    <3> HIDE DEF P
    <3>2. Open /\ Exact /\ Rest = {} /\ edge = EdgesOf(doc.e)
      BY <2>0, <2>3 DEF Open, Marks, Aims, Rest, Elements
    <3>3. ~all => path # <<>>
      BY <2>0, <2>3 DEF Aims
    <3>4. path = <<>> => target \notin Sought \ Rest
      BY <2>0, <2>3, <3>3, NullState DEF Aims, Sought, Nameable
    <3>5. \A q \in P : IsMarked(q)
      <4>1. Sought \ Rest = Sought
        BY <3>2
      <4> QED
        BY <2>0, <2>3, <3>1, <3>2, <3>4, <4>1, PassedMarked
    <3>6. \A q \in P : ToSet(q) = Elements(q)
      BY <3>1, SetOf DEF WalksTo
    <3>7. UNION {ToSet(p) : p \in P} = marked
      <4>1. \A q \in P : ToSet(q) \subseteq marked
        BY <3>5, <3>6 DEF IsMarked
      <4>2. \A k \in marked : \E q \in P : k \in ToSet(q)
        BY <3>1, <3>2, <3>6 DEF Exact
      <4> QED BY <4>1, <4>2
    <3>8. \A i : i \in used <=> \E q \in P : i \in EdgesIn(q)
      <4>1. \A q \in P : EdgesIn(q) \subseteq used
        BY <3>5 DEF IsMarked
      <4>2. \A e \in used : \E q \in P : e \in EdgesIn(q)
        BY <3>1, <3>2 DEF Exact
      <4> QED BY <4>1, <4>2
    <3>9. UnmarkedKnots = Knots \ marked
      <4>1. ASSUME NEW k \in Knots PROVE k[2] \in Named(IF k[1] = "state" THEN doc.s ELSE doc.t)
        BY <2>3 DEF WellNamed, Knots, States, Transitions
      <4> QED BY <4>1 DEF UnmarkedKnots
    <3>a. UnmarkedKnots = Avoided(P)
      BY <3>7, <3>9 DEF Avoided
    <3>b. \A p \in P : p \in Seq(Knots) /\ Walk(p)
      BY <3>1 DEF WalksTo
    <3>10. UnmarkedEdges = EdgeElements(doc.e) \ used
      <4>1. ASSUME NEW i \in EdgeElements(doc.e), i \in used, NEW k \in 1..2 PROVE EdgeOf(doc.e[i])[k] \in marked
        <5>1. PICK q \in P : i \in EdgesIn(q)
          BY <3>1, <3>2, <4>1 DEF Exact
        <5>2. PICK n \in 1..Len(q) - 1 : i = EdgePtr(<<q[n], q[n + 1]>>)
          BY <5>1 DEF EdgesIn
        <5>3. Len(q) \in Nat /\ Elements(q) \subseteq marked /\ <<q[n], q[n + 1]>> \in EdgesOf(doc.e)
          BY <3>2, <3>b, <3>5, SeqFacts DEF IsMarked, Walk
        <5>4. n \in 1..Len(q) /\ n + 1 \in 1..Len(q)
          BY <5>3
        <5>5. EdgeOf(doc.e[i]) = <<q[n], q[n + 1]>>
          BY <2>0, <5>2, <5>3, FirstElement DEF IInv, Typed
        <5>6. q[n] \in marked /\ q[n + 1] \in marked
          BY <5>3, <5>4 DEF Elements
        <5>7. k = 1 \/ k = 2
          OBVIOUS
        <5> QED
          BY <5>5, <5>6, <5>7
      <4> QED
        BY <4>1 DEF UnmarkedEdges
    <3>c. UnmarkedEdges = OffPaths(P) \cup Again
      <4>1. ASSUME NEW i \in EdgeElements(doc.e) PROVE i \notin used <=> i \in OffPaths(P) \cup Again
        BY <2>0, <3>2, <3>8, <3>b, MarkedFirst
      <4>2. OffPaths(P) \cup Again \subseteq EdgeElements(doc.e)
        BY DEF OffPaths, Again
      <4> QED BY <3>10, <4>1, <4>2
    <3>d. ExcludedEdges = OffPaths(P) \cup Repeated
      <4>1. \A i \in 1..Len(doc.e) : \A j \in EdgeElements(doc.e) :
              (\A k \in 1..2 : doc.e[i][k] = Id(EdgeOf(doc.e[j])[k]))
                => i \in EdgeElements(doc.e) /\ EdgeOf(doc.e[i]) = EdgeOf(doc.e[j])
        <5> SUFFICES ASSUME NEW i \in 1..Len(doc.e), NEW j \in EdgeElements(doc.e),
                            \A k \in 1..2 : doc.e[i][k] = Id(EdgeOf(doc.e[j])[k])
                     PROVE  i \in EdgeElements(doc.e) /\ EdgeOf(doc.e[i]) = EdgeOf(doc.e[j])
          OBVIOUS
        <5>1. \A k \in 1..2 : doc.e[i][k] = doc.e[j][k]
          BY <2>0, SameIds
        <5>2. doc.e[i][1] = doc.e[j][1] /\ doc.e[i][2] = doc.e[j][2]
          BY <5>1
        <5>3. EdgeOf(doc.e[i]) = EdgeOf(doc.e[j])
          BY <5>2 DEF EdgeOf
        <5> QED BY <5>3 DEF EdgeElements
      <4>2. \A i, j \in EdgeElements(doc.e) : EdgeOf(doc.e[i]) = EdgeOf(doc.e[j])
              => \A k \in 1..2 : doc.e[i][k] = Id(EdgeOf(doc.e[j])[k])
        <5> SUFFICES ASSUME NEW i \in EdgeElements(doc.e), NEW j \in EdgeElements(doc.e),
                            EdgeOf(doc.e[i]) = EdgeOf(doc.e[j]), NEW k \in 1..2
                     PROVE  doc.e[i][k] = Id(EdgeOf(doc.e[j])[k])
          OBVIOUS
        <5> QED BY <2>0, SameIds
      <4>3. EdgeElements(doc.e) \subseteq 1..Len(doc.e)
        BY DEF EdgeElements
      <4>4. \A i : i \in ExcludedEdges <=>
              i \in EdgeElements(doc.e) /\ \E j \in UnmarkedEdges : EdgeOf(doc.e[i]) = EdgeOf(doc.e[j])
        <5>1. UnmarkedEdges \subseteq EdgeElements(doc.e)
          BY DEF UnmarkedEdges
        <5> QED BY <4>1, <4>2, <4>3, <5>1 DEF ExcludedEdges
      <4>5. ASSUME NEW i \in EdgeElements(doc.e), NEW j \in UnmarkedEdges, EdgeOf(doc.e[i]) = EdgeOf(doc.e[j])
            PROVE  i \in OffPaths(P) \cup Repeated
        <5>1. CASE j \in OffPaths(P)
          BY <4>5, <5>1 DEF OffPaths
        <5>2. CASE j \in Again
          <6>1. PICK h \in (1..(j - 1)) \cap EdgeElements(doc.e) : h # j /\ EdgeOf(doc.e[h]) = EdgeOf(doc.e[j])
            BY <5>2 DEF Again, RepeatsAmong
          <6>2. j \in EdgeElements(doc.e)
            BY <5>2 DEF Again
          <6>3. CASE i = j
            BY <4>3, <6>1, <6>3 DEF Repeated, RepeatsAmong
          <6>4. CASE i # j
            BY <4>3, <4>5, <6>2, <6>4 DEF Repeated, RepeatsAmong
          <6> QED BY <6>3, <6>4
        <5> QED BY <3>c, <5>1, <5>2
      <4>6. ASSUME NEW i \in Repeated
            PROVE  \E j \in UnmarkedEdges : EdgeOf(doc.e[i]) = EdgeOf(doc.e[j])
        <5>1. PICK j \in (1..Len(doc.e)) \cap EdgeElements(doc.e) : j # i /\ EdgeOf(doc.e[j]) = EdgeOf(doc.e[i])
          BY DEF Repeated, RepeatsAmong
        <5>2. i \in EdgeElements(doc.e) /\ i \in 1..Len(doc.e) /\ Len(doc.e) \in Nat
          BY <2>0, <4>3 DEF Repeated, IInv, Typed
        <5>3. CASE j < i
          <6>1. j \in 1..(i - 1)
            BY <5>1, <5>2, <5>3
          <6>2. i \in Again
            BY <5>1, <5>2, <6>1 DEF Again, RepeatsAmong
          <6> QED BY <3>c, <6>2
        <5>4. CASE i < j
          <6>1. i \in 1..(j - 1)
            BY <5>1, <5>2, <5>4
          <6>2. j \in Again
            BY <5>1, <5>2, <6>1 DEF Again, RepeatsAmong
          <6> QED BY <3>c, <5>1, <6>2
        <5> QED BY <5>1, <5>2, <5>3, <5>4
      <4>7. OffPaths(P) \subseteq UnmarkedEdges /\ OffPaths(P) \subseteq EdgeElements(doc.e)
            /\ Repeated \subseteq EdgeElements(doc.e)
        BY <3>c DEF OffPaths, Repeated
      <4> QED BY <4>4, <4>5, <4>6, <4>7
    <3>e. PathnetXml = [knots |-> Avoided(P), edges |-> OffPaths(P) \cup Again]
      BY <3>a, <3>c DEF PathnetXml
    <3>f. ExcludedKnots = {k \in Knots : \E m \in Avoided(P) : Id(k) = Id(m)}
      BY <3>a DEF ExcludedKnots
    <3>g. PathnetFilter = [knots |-> {k \in Knots : \E m \in Avoided(P) : Id(k) = Id(m)},
                           edges |-> OffPaths(P) \cup Repeated]
      BY <3>d, <3>f DEF PathnetFilter
    <3>11. ~all => Pathtable.count = Cardinality(P)
      <4> SUFFICES ASSUME ~all PROVE Pathtable.count = Cardinality(P)
        OBVIOUS
      <4>1. P = Elements(paths)
        BY <2>0, <2>3, <3>1, <3>2, <3>3, FoundAll DEF Sought
      <4>2. \A i, j \in 1..Len(paths) : paths[i] = paths[j] => i = j
        BY <2>0 DEF IInv, Once
      <4>3. Len(paths) = Cardinality(Elements(paths))
        BY <2>0, <4>2, CountedOnce
      <4> QED
        BY <4>1, <4>3 DEF Pathtable
    <3> QED
      BY <3>11, <3>e, <3>g DEF P
  <2> QED
    BY <2>2, <2>3 DEF Complete
<1> QED
  BY <1>1, InitSearching, StepSearching, PTL DEF Spec

================================================================================
