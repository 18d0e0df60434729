---------------------------- MODULE ResNode_proofs -----------------------------
(***************************************************************************)
(* The links of the resource node tree stay consistent, for every set of   *)
(* addresses.  The link functions are proved one by one on an arbitrary    *)
(* well-formed heap; the invariant then follows action by action.          *)
(* Induction along a list or a tree is an instance of the definitions of   *)
(* ListFrom and Reach: a set that holds the start and is closed under the  *)
(* links holds everything the loop visits.                                 *)
(*                                                                         *)
(* The last part is about ResNodeOps, the operations on files that         *)
(* resource nodes stand for: they lose nothing, for any directories, files *)
(* and limits.                                                             *)
(***************************************************************************)
EXTENDS ResNodeTree, ResNodeOps, TLAPS

(* Freed and never allocated memory has no links. *)
Cleared(h) ==
  \A x \in Node \ h.alive :
    /\ h.parent[x] = NULL /\ h.children[x] = NULL /\ h.last[x] = NULL
    /\ h.next[x] = NULL /\ h.prev[x] = NULL

(* The hypothesis of every lemma about a link function. *)
GoodHeap(h) == h \in Heap /\ Cleared(h) /\ WellFormed(h)

--------------------------------------------------------------------------------
(* What the loops visit *)

(* A loop over next starts at its argument and follows next. *)
LEMMA ListFromStep ==
  ASSUME NEW h \in Heap, NEW n \in Node
  PROVE  /\ n \in ListFrom(h, n)
         /\ ListFrom(h, n) \subseteq Node
         /\ \A x \in ListFrom(h, n) : h.next[x] # NULL => h.next[x] \in ListFrom(h, n)
BY DEF ListFrom, Heap, Link

(* A set that holds n and follows next holds the whole list. *)
LEMMA ListFromInd ==
  ASSUME NEW h \in Heap, NEW n \in Node, NEW S \in SUBSET Node,
         n \in S, \A x \in S : h.next[x] # NULL => h.next[x] \in S
  PROVE  ListFrom(h, n) \subseteq S
BY DEF ListFrom

(* A traversal starts at its argument and follows next and children. *)
LEMMA ReachStep ==
  ASSUME NEW h \in Heap, NEW n \in Node
  PROVE  /\ n \in Reach(h, n)
         /\ Reach(h, n) \subseteq Node
         /\ \A x \in Reach(h, n) :
              /\ h.next[x] # NULL => h.next[x] \in Reach(h, n)
              /\ h.children[x] # NULL => h.children[x] \in Reach(h, n)
BY DEF Reach, Heap, Link

(* A set that holds n and follows next and children holds what is traversed. *)
LEMMA ReachInd ==
  ASSUME NEW h \in Heap, NEW n \in Node, NEW S \in SUBSET Node, n \in S,
         \A x \in S : /\ h.next[x] # NULL => h.next[x] \in S
                      /\ h.children[x] # NULL => h.children[x] \in S
  PROVE  Reach(h, n) \subseteq S
BY DEF Reach

(* A list is part of what is traversed from any node of the traversal. *)
LEMMA ListInReach ==
  ASSUME NEW h \in Heap, NEW n \in Node, NEW x \in Reach(h, n)
  PROVE  ListFrom(h, x) \subseteq Reach(h, n)
BY ReachStep, ListFromInd

(* Along a list the nodes are alive, share the parent of the first one, and  *)
(* each but the first one has its predecessor in the list.                   *)
LEMMA ListNodes ==
  ASSUME NEW h, GoodHeap(h), NEW n \in h.alive
  PROVE  \A x \in ListFrom(h, n) :
           /\ x \in h.alive
           /\ h.parent[x] = h.parent[n]
           /\ x = n \/ (h.prev[x] # NULL /\ h.prev[x] \in ListFrom(h, n))
<1> DEFINE L == ListFrom(h, n)
<1> DEFINE S == {x \in L : /\ x \in h.alive
                           /\ h.parent[x] = h.parent[n]
                           /\ x = n \/ (h.prev[x] # NULL /\ h.prev[x] \in L)}
<1>1. h \in Heap /\ n \in Node
  BY DEF GoodHeap, Heap
<1>2. n \in S
  BY <1>1, ListFromStep
<1>3. S \in SUBSET Node
  BY <1>1, ListFromStep
<1>4. ASSUME NEW x \in S, h.next[x] # NULL
      PROVE  h.next[x] \in S
  <2>1. h.next[x] \in h.alive
    BY <1>4 DEF GoodHeap, WellFormed, NoDangling
  <2>2. h.prev[h.next[x]] = x /\ h.parent[h.next[x]] = h.parent[x]
    BY <1>4 DEF GoodHeap, WellFormed, SiblingLinks
  <2>3. h.next[x] \in L
    BY <1>1, <1>4, ListFromStep
  <2>4. x # NULL
    BY <1>3, NodeAssumption
  <2> QED
    BY <2>1, <2>2, <2>3, <2>4
<1>5. L \subseteq S
  <2> HIDE DEF S
  <2> QED BY <1>1, <1>2, <1>3, <1>4, ListFromInd
<1> QED
  BY <1>5

(* The loops that look for the end of a list stop at one node only. *)
LEMMA TailUnique ==
  ASSUME NEW h \in Heap, NEW n \in Node, NEW t, IsTail(h, n, t)
  PROVE  \A x \in ListFrom(h, n) : h.next[x] = NULL => x = t
<1> DEFINE S == {x \in Node : t \in ListFrom(h, x)}
<1>1. t \in Node /\ h.next[t] = NULL /\ t \in ListFrom(h, n)
  BY ListFromStep DEF IsTail
<1>2. ASSUME NEW x \in S, h.next[x] # NULL
      PROVE  h.next[x] \in S
  <2>1. h.next[x] \in Node
    BY <1>2 DEF Heap, Link
  <2> DEFINE T == {x} \cup ListFrom(h, h.next[x])
  <2>2. T \in SUBSET Node /\ x \in T
    BY <2>1, ListFromStep
  <2>3. \A y \in T : h.next[y] # NULL => h.next[y] \in T
    BY <2>1, ListFromStep
  <2>4. ListFrom(h, x) \subseteq T
    <3> HIDE DEF T
    <3> QED BY <2>2, <2>3, ListFromInd
  <2>5. t # x
    BY <1>1, <1>2
  <2> QED
    BY <2>1, <2>4, <2>5
<1>3. ListFrom(h, n) \subseteq S
  <2>1. n \in S
    BY <1>1
  <2>2. S \in SUBSET Node
    OBVIOUS
  <2> HIDE DEF S
  <2> QED BY <1>2, <2>1, <2>2, ListFromInd
<1>4. ASSUME NEW x \in ListFrom(h, n), h.next[x] = NULL
      PROVE  x = t
  <2>1. x \in Node /\ t \in ListFrom(h, x)
    BY <1>3, <1>4
  <2>2. ListFrom(h, x) \subseteq {x}
    <3> DEFINE T == {x}
    <3>1. T \in SUBSET Node /\ x \in T /\ \A y \in T : h.next[y] # NULL => h.next[y] \in T
      BY <1>4, <2>1
    <3> HIDE DEF T
    <3>2. ListFrom(h, x) \subseteq T
      BY <2>1, <3>1, ListFromInd
    <3> QED BY <3>2 DEF T
  <2> QED
    BY <2>1, <2>2
<1> QED
  BY <1>4

(* Everything traversed from n is alive, and was entered from n, from its   *)
(* predecessor or, for a first child, from its parent.                      *)
LEMMA ReachNodes ==
  ASSUME NEW h, GoodHeap(h), NEW n \in h.alive
  PROVE  \A x \in Reach(h, n) :
           /\ x \in h.alive
           /\ \/ x = n
              \/ h.prev[x] # NULL /\ h.prev[x] \in Reach(h, n)
              \/ h.prev[x] = NULL /\ h.parent[x] # NULL /\ h.parent[x] \in Reach(h, n)
           /\ h.parent[x] = h.parent[n] \/ h.parent[x] \in Reach(h, n)
<1> DEFINE R == Reach(h, n)
<1> DEFINE S == {x \in R :
           /\ x \in h.alive
           /\ \/ x = n
              \/ h.prev[x] # NULL /\ h.prev[x] \in R
              \/ h.prev[x] = NULL /\ h.parent[x] # NULL /\ h.parent[x] \in R
           /\ h.parent[x] = h.parent[n] \/ h.parent[x] \in R}
<1>1. h \in Heap /\ n \in Node
  BY DEF GoodHeap, Heap
<1>2. n \in S /\ S \in SUBSET Node
  BY <1>1, ReachStep
<1>3. ASSUME NEW x \in S
      PROVE  /\ h.next[x] # NULL => h.next[x] \in S
             /\ h.children[x] # NULL => h.children[x] \in S
  <2>1. x # NULL /\ x \in R /\ x \in h.alive
    BY <1>2, NodeAssumption
  <2>2. ASSUME h.next[x] # NULL
        PROVE  h.next[x] \in S
    <3>1. h.next[x] \in R /\ h.next[x] \in h.alive
      BY <1>1, <2>1, <2>2, ReachStep DEF GoodHeap, WellFormed, NoDangling
    <3>2. h.prev[h.next[x]] = x /\ h.parent[h.next[x]] = h.parent[x]
      BY <2>1, <2>2 DEF GoodHeap, WellFormed, SiblingLinks
    <3> QED
      BY <2>1, <3>1, <3>2
  <2>3. ASSUME h.children[x] # NULL
        PROVE  h.children[x] \in S
    <3>1. h.children[x] \in R /\ h.children[x] \in h.alive
      BY <1>1, <2>1, <2>3, ReachStep DEF GoodHeap, WellFormed, NoDangling
    <3>2. h.parent[h.children[x]] = x /\ h.prev[h.children[x]] = NULL
      BY <2>1, <2>3 DEF GoodHeap, WellFormed, ParentLinks
    <3> QED
      BY <2>1, <3>1, <3>2
  <2> QED
    BY <2>2, <2>3
<1>4. R \subseteq S
  <2> HIDE DEF S
  <2> QED BY <1>1, <1>2, <1>3, ReachInd
<1> QED
  BY <1>4

(* The loop over the children of d visits every node whose parent is d. *)
LEMMA ChildrenReached ==
  ASSUME NEW h, GoodHeap(h), NEW d \in Node, NEW x \in h.alive, h.parent[x] = d
  PROVE  h.children[d] # NULL /\ h.children[d] \in h.alive /\ x \in ListFrom(h, h.children[d])
<1>1. h \in Heap /\ x \in Node /\ d # NULL
  BY NodeAssumption DEF GoodHeap, Heap
<1>2. d \in h.alive
  BY <1>1 DEF GoodHeap, WellFormed, NoDangling
<1> DEFINE c == h.children[d]
<1> DEFINE S == {y \in h.alive : h.parent[y] = d /\ ~(c # NULL /\ y \in ListFrom(h, c))}
<1>3. ASSUME NEW y \in S PROVE h.prev[y] \in S
  <2>1. y \in h.alive /\ h.parent[y] = d
    OBVIOUS
  <2>2. ASSUME h.prev[y] = NULL PROVE FALSE
    <3>1. c = y
      BY <1>1, <2>1, <2>2 DEF GoodHeap, WellFormed, ParentLinks
    <3>2. y \in ListFrom(h, y) /\ y # NULL
      BY <1>1, <2>1, ListFromStep, NodeAssumption DEF Heap
    <3> QED
      BY <3>1, <3>2
  <2>3. h.prev[y] \in h.alive /\ h.next[h.prev[y]] = y /\ h.parent[h.prev[y]] = d
    BY <2>1, <2>2 DEF GoodHeap, WellFormed, SiblingLinks, NoDangling
  <2>4. ~(c # NULL /\ h.prev[y] \in ListFrom(h, c))
    <3> SUFFICES ASSUME c # NULL, h.prev[y] \in ListFrom(h, c) PROVE FALSE
      OBVIOUS
    <3>1. c \in Node
      BY <1>1 DEF Heap, Link
    <3>2. y \in ListFrom(h, c)
      BY <1>1, <2>3, <3>1, ListFromStep, NodeAssumption DEF Heap
    <3> QED
      BY <3>2
  <2> QED
    BY <2>3, <2>4
<1>4. S = {}
  <2>1. S \in SUBSET h.alive
    OBVIOUS
  <2> HIDE DEF S
  <2> QED
    BY <1>3, <2>1 DEF GoodHeap, WellFormed, NoCycle
<1> QED
  BY <1>2, <1>4 DEF GoodHeap, WellFormed, NoDangling

--------------------------------------------------------------------------------
(* The link functions keep a heap good *)

(* A freshly allocated node has no links, so nothing else changes. *)
LEMMA AllocatedGood ==
  ASSUME NEW h, GoodHeap(h), NEW n \in Node \ h.alive
  PROVE  GoodHeap(Allocated(h, n)) /\ IsHead(Allocated(h, n), n)
<1> DEFINE a == Allocated(h, n)
<1>1. /\ a \in Heap
      /\ a.alive = h.alive \cup {n}
      /\ a.parent = h.parent /\ a.children = h.children /\ a.last = h.last
      /\ a.next = h.next /\ a.prev = h.prev
  BY DEF GoodHeap, Heap, Allocated
<1>2. /\ h.parent[n] = NULL /\ h.children[n] = NULL /\ h.last[n] = NULL
      /\ h.next[n] = NULL /\ h.prev[n] = NULL
  BY DEF GoodHeap, Cleared
<1> HIDE DEF a
<1>3. Cleared(a) /\ IsHead(a, n)
  BY <1>1, <1>2 DEF GoodHeap, Cleared, IsHead
<1>4. NoDangling(a)
  BY <1>1, <1>2 DEF GoodHeap, WellFormed, NoDangling
<1>5. SiblingLinks(a)
  BY <1>1, <1>2 DEF GoodHeap, WellFormed, SiblingLinks
<1>6. ParentLinks(a)
  BY <1>1, <1>2 DEF GoodHeap, WellFormed, ParentLinks
<1>7. NoCycle(a)
  <2> SUFFICES ASSUME NEW S \in SUBSET a.alive, S # {}
               PROVE  (\E x \in S : a.prev[x] \notin S) /\ (\E x \in S : a.parent[x] \notin S)
    BY DEF NoCycle
  <2>1. NULL \notin S
    BY <1>1, NodeAssumption DEF GoodHeap, Heap
  <2>2. CASE n \in S
    BY <1>1, <1>2, <2>1, <2>2
  <2>3. CASE n \notin S
    <3>1. S \in SUBSET h.alive
      BY <1>1, <2>3
    <3> QED
      BY <1>1, <3>1 DEF GoodHeap, WellFormed, NoCycle
  <2> QED
    BY <2>2, <2>3
<1> QED
  BY <1>1, <1>3, <1>4, <1>5, <1>6, <1>7 DEF GoodHeap, WellFormed, a

(* No node outside D has a link into D. *)
Detached(h, D) ==
  \A x \in h.alive \ D : /\ h.parent[x] \notin D /\ h.children[x] \notin D
                         /\ h.last[x] \notin D /\ h.next[x] \notin D /\ h.prev[x] \notin D

(* Releasing a set that nothing else links to leaves a good heap. *)
LEMMA KilledGood ==
  ASSUME NEW h, GoodHeap(h), NEW D \in SUBSET Node, Detached(h, D)
  PROVE  GoodHeap(Killed(h, D))
<1> DEFINE k == Killed(h, D)
<1>1. k \in Heap /\ k.alive = h.alive \ D
  BY DEF GoodHeap, Heap, Killed, Link
<1>2. \A x \in Node \ D : /\ k.parent[x] = h.parent[x] /\ k.children[x] = h.children[x]
                          /\ k.last[x] = h.last[x] /\ k.next[x] = h.next[x]
                          /\ k.prev[x] = h.prev[x]
  BY DEF Killed
<1>3. \A x \in D : /\ k.parent[x] = NULL /\ k.children[x] = NULL /\ k.last[x] = NULL
                   /\ k.next[x] = NULL /\ k.prev[x] = NULL
  BY DEF Killed
<1>4. h.alive \subseteq Node
  BY DEF GoodHeap, Heap
<1> HIDE DEF k
<1>5. Cleared(k)
  BY <1>1, <1>2, <1>3 DEF GoodHeap, Cleared
<1>6. NoDangling(k)
  BY <1>1, <1>2, <1>4 DEF GoodHeap, WellFormed, NoDangling, Detached
<1>7. SiblingLinks(k)
  <2> SUFFICES ASSUME NEW x \in k.alive
               PROVE  /\ k.next[x] # NULL => k.prev[k.next[x]] = x /\ k.parent[k.next[x]] = k.parent[x]
                      /\ k.prev[x] # NULL => k.next[k.prev[x]] = x /\ k.parent[k.prev[x]] = k.parent[x]
    BY DEF SiblingLinks
  <2>1. x \in h.alive \ D /\ x \in Node \ D
    BY <1>1, <1>4
  <2>2. ASSUME k.next[x] # NULL
        PROVE  k.prev[k.next[x]] = x /\ k.parent[k.next[x]] = k.parent[x]
    <3>1. h.next[x] \in Node \ D /\ h.prev[h.next[x]] = x /\ h.parent[h.next[x]] = h.parent[x]
      BY <1>2, <1>4, <2>1, <2>2 DEF GoodHeap, WellFormed, SiblingLinks, NoDangling, Detached
    <3> QED
      BY <1>2, <2>1, <3>1
  <2>3. ASSUME k.prev[x] # NULL
        PROVE  k.next[k.prev[x]] = x /\ k.parent[k.prev[x]] = k.parent[x]
    <3>1. h.prev[x] \in Node \ D /\ h.next[h.prev[x]] = x /\ h.parent[h.prev[x]] = h.parent[x]
      BY <1>2, <1>4, <2>1, <2>3 DEF GoodHeap, WellFormed, SiblingLinks, NoDangling, Detached
    <3> QED
      BY <1>2, <2>1, <3>1
  <2> QED
    BY <2>2, <2>3
<1>8. ParentLinks(k)
  <2> SUFFICES ASSUME NEW x \in k.alive
               PROVE  /\ k.parent[x] # NULL /\ k.prev[x] = NULL => k.children[k.parent[x]] = x
                      /\ k.parent[x] # NULL /\ k.next[x] = NULL => k.last[k.parent[x]] = x
                      /\ k.children[x] # NULL => k.parent[k.children[x]] = x /\ k.prev[k.children[x]] = NULL
                      /\ k.last[x] # NULL => k.parent[k.last[x]] = x /\ k.next[k.last[x]] = NULL
                      /\ k.children[x] = NULL <=> k.last[x] = NULL
    BY DEF ParentLinks
  <2>1. x \in h.alive \ D /\ x \in Node \ D
    BY <1>1, <1>4
  <2>2. /\ h.parent[x] # NULL => h.parent[x] \in Node \ D
        /\ h.children[x] # NULL => h.children[x] \in Node \ D
        /\ h.last[x] # NULL => h.last[x] \in Node \ D
    BY <1>4, <2>1 DEF GoodHeap, WellFormed, NoDangling, Detached
  <2>3. /\ h.parent[x] # NULL /\ h.prev[x] = NULL => h.children[h.parent[x]] = x
        /\ h.parent[x] # NULL /\ h.next[x] = NULL => h.last[h.parent[x]] = x
        /\ h.children[x] # NULL => h.parent[h.children[x]] = x /\ h.prev[h.children[x]] = NULL
        /\ h.last[x] # NULL => h.parent[h.last[x]] = x /\ h.next[h.last[x]] = NULL
        /\ h.children[x] = NULL <=> h.last[x] = NULL
    BY <2>1 DEF GoodHeap, WellFormed, ParentLinks
  <2> QED
    BY <1>2, <2>1, <2>2, <2>3
<1>9. NoCycle(k)
  <2> SUFFICES ASSUME NEW S \in SUBSET k.alive, S # {}
               PROVE  (\E x \in S : k.prev[x] \notin S) /\ (\E x \in S : k.parent[x] \notin S)
    BY DEF NoCycle
  <2>1. S \in SUBSET h.alive /\ \A x \in S : x \in Node \ D
    BY <1>1, <1>4
  <2> QED
    BY <1>2, <2>1 DEF GoodHeap, WellFormed, NoCycle
<1> QED
  BY <1>1, <1>5, <1>6, <1>7, <1>8, <1>9 DEF GoodHeap, WellFormed, k

(* Unlinking a node closes the gap and makes it a root without siblings. *)
LEMMA UnlinkedGood ==
  ASSUME NEW h, GoodHeap(h), NEW n \in h.alive
  PROVE  LET u == Unlinked(h, n)
         IN /\ GoodHeap(u)
            /\ u.alive = h.alive
            /\ IsHead(u, n) /\ u.next[n] = NULL
            /\ \A x \in Node \ {n} : u.parent[x] = h.parent[x]
            /\ \A x \in Node \ {n} : h.next[x] = NULL => u.next[x] = NULL
            /\ Reach(u, n) \subseteq Reach(h, n)
<1> DEFINE u == Unlinked(h, n)
           p == h.parent[n]
           s == h.next[n]
           q == h.prev[n]
<1>1. /\ h \in Heap /\ h.alive \subseteq Node /\ n \in Node
      /\ p \in h.alive \cup {NULL} /\ s \in h.alive \cup {NULL} /\ q \in h.alive \cup {NULL}
  BY DEF GoodHeap, WellFormed, NoDangling, Heap
<1>2. NULL \notin Node /\ n # NULL
  BY <1>1, NodeAssumption
<1>3. u \in Heap /\ u.alive = h.alive
  BY <1>1 DEF Heap, Unlinked, Link
<1>4. \A x \in Node :
        /\ u.parent[x] = IF x = n THEN NULL ELSE h.parent[x]
        /\ u.children[x] = IF x = p /\ h.children[x] = n THEN s ELSE h.children[x]
        /\ u.last[x] = IF x = p /\ h.last[x] = n THEN q ELSE h.last[x]
        /\ u.next[x] = IF x = n THEN NULL ELSE IF x = q THEN s ELSE h.next[x]
        /\ u.prev[x] = IF x = n THEN NULL ELSE IF x = s THEN q ELSE h.prev[x]
  BY DEF Unlinked
<1>5. /\ s # NULL => h.prev[s] = n /\ h.parent[s] = p
      /\ q # NULL => h.next[q] = n /\ h.parent[q] = p
      /\ p # NULL /\ q = NULL => h.children[p] = n
      /\ p # NULL /\ s = NULL => h.last[p] = n
  BY DEF GoodHeap, WellFormed, SiblingLinks, ParentLinks
<1>6. s # n /\ q # n /\ p # n
  <2>1. {n} \in SUBSET h.alive /\ {n} # {}
    OBVIOUS
  <2>2. h.prev[n] \notin {n} /\ h.parent[n] \notin {n}
    BY <2>1 DEF GoodHeap, WellFormed, NoCycle
  <2> QED
    BY <1>2, <1>5, <2>2
<1>7. ASSUME NEW x \in h.alive
      PROVE  /\ {h.parent[x], h.children[x], h.last[x], h.next[x], h.prev[x]} \subseteq h.alive \cup {NULL}
             /\ h.next[x] # NULL => h.prev[h.next[x]] = x /\ h.parent[h.next[x]] = h.parent[x]
             /\ h.prev[x] # NULL => h.next[h.prev[x]] = x /\ h.parent[h.prev[x]] = h.parent[x]
             /\ h.parent[x] # NULL /\ h.prev[x] = NULL => h.children[h.parent[x]] = x
             /\ h.parent[x] # NULL /\ h.next[x] = NULL => h.last[h.parent[x]] = x
             /\ h.children[x] # NULL => h.parent[h.children[x]] = x /\ h.prev[h.children[x]] = NULL
             /\ h.last[x] # NULL => h.parent[h.last[x]] = x /\ h.next[h.last[x]] = NULL
             /\ h.children[x] = NULL <=> h.last[x] = NULL
  BY DEF GoodHeap, WellFormed, NoDangling, SiblingLinks, ParentLinks
<1> HIDE DEF u, p, s, q
<1>8. Cleared(u)
  <2> SUFFICES ASSUME NEW x \in Node \ h.alive
               PROVE  /\ u.parent[x] = NULL /\ u.children[x] = NULL /\ u.last[x] = NULL
                      /\ u.next[x] = NULL /\ u.prev[x] = NULL
    BY <1>3 DEF Cleared
  <2>1. x # p /\ x # s /\ x # q /\ x # n
    BY <1>1, <1>2
  <2> QED
    BY <1>4, <2>1 DEF GoodHeap, Cleared
<1>9. NoDangling(u)
  BY <1>1, <1>3, <1>4, <1>7 DEF NoDangling
<1>10. SiblingLinks(u)
  <2> SUFFICES ASSUME NEW x \in h.alive
               PROVE  /\ u.next[x] # NULL => u.prev[u.next[x]] = x /\ u.parent[u.next[x]] = u.parent[x]
                      /\ u.prev[x] # NULL => u.next[u.prev[x]] = x /\ u.parent[u.prev[x]] = u.parent[x]
    BY <1>3 DEF SiblingLinks
  <2>1. ASSUME u.next[x] # NULL
        PROVE  u.prev[u.next[x]] = x /\ u.parent[u.next[x]] = u.parent[x]
    <3>1. x \in Node /\ x # n
      BY <1>1, <1>4, <2>1
    <3>2. CASE x = q
      <4>1. u.next[x] = s /\ s \in Node
        BY <1>1, <1>2, <1>4, <1>5, <2>1, <3>1, <3>2
      <4> QED
        BY <1>2, <1>4, <1>5, <1>6, <2>1, <3>1, <3>2, <4>1
    <3>3. CASE x # q
      <4>1. u.next[x] = h.next[x] /\ h.next[x] \in Node
        BY <1>1, <1>4, <1>7, <2>1, <3>1, <3>3
      <4>2. h.next[x] # n /\ h.next[x] # s
        BY <1>5, <1>7, <2>1, <3>1, <3>3, <4>1 DEF q
      <4> QED
        BY <1>4, <1>7, <2>1, <3>1, <4>1, <4>2
    <3> QED
      BY <3>2, <3>3
  <2>2. ASSUME u.prev[x] # NULL
        PROVE  u.next[u.prev[x]] = x /\ u.parent[u.prev[x]] = u.parent[x]
    <3>1. x \in Node /\ x # n
      BY <1>1, <1>4, <2>2
    <3>2. CASE x = s
      <4>1. u.prev[x] = q /\ q \in Node
        BY <1>1, <1>4, <2>2, <3>1, <3>2
      <4> QED
        BY <1>2, <1>4, <1>5, <1>6, <2>2, <3>1, <3>2, <4>1
    <3>3. CASE x # s
      <4>1. u.prev[x] = h.prev[x] /\ h.prev[x] \in Node
        BY <1>1, <1>4, <1>7, <2>2, <3>1, <3>3
      <4>2. h.prev[x] # n /\ h.prev[x] # q
        BY <1>5, <1>7, <2>2, <3>1, <3>3, <4>1 DEF s
      <4> QED
        BY <1>4, <1>7, <2>2, <3>1, <4>1, <4>2
    <3> QED
      BY <3>2, <3>3
  <2> QED
    BY <2>1, <2>2
<1>11. ParentLinks(u)
  <2> SUFFICES ASSUME NEW x \in h.alive
               PROVE  /\ u.parent[x] # NULL /\ u.prev[x] = NULL => u.children[u.parent[x]] = x
                      /\ u.parent[x] # NULL /\ u.next[x] = NULL => u.last[u.parent[x]] = x
                      /\ u.children[x] # NULL => u.parent[u.children[x]] = x /\ u.prev[u.children[x]] = NULL
                      /\ u.last[x] # NULL => u.parent[u.last[x]] = x /\ u.next[u.last[x]] = NULL
                      /\ u.children[x] = NULL <=> u.last[x] = NULL
    BY <1>3 DEF ParentLinks
  <2>1. ASSUME u.parent[x] # NULL, u.prev[x] = NULL
        PROVE  u.children[u.parent[x]] = x
    BY <1>1, <1>2, <1>4, <1>5, <1>6, <1>7, <2>1
  <2>2. ASSUME u.parent[x] # NULL, u.next[x] = NULL
        PROVE  u.last[u.parent[x]] = x
    BY <1>1, <1>2, <1>4, <1>5, <1>6, <1>7, <2>2
  <2>3. ASSUME u.children[x] # NULL
        PROVE  u.parent[u.children[x]] = x /\ u.prev[u.children[x]] = NULL
    <3>1. x \in Node
      BY <1>1
    <3>2. CASE x = p /\ h.children[x] = n
      <4>1. u.children[x] = s /\ s \in Node /\ q = NULL
        BY <1>1, <1>2, <1>4, <1>7, <2>3, <3>1, <3>2 DEF q
      <4> QED
        BY <1>4, <1>5, <1>6, <2>3, <3>2, <4>1
    <3>3. CASE ~(x = p /\ h.children[x] = n)
      <4>1. u.children[x] = h.children[x] /\ h.children[x] \in Node
        BY <1>1, <1>4, <1>7, <2>3, <3>1, <3>3
      <4>2. h.children[x] # n /\ h.children[x] # s
        BY <1>2, <1>5, <1>7, <2>3, <3>3, <4>1 DEF p
      <4> QED
        BY <1>4, <1>7, <2>3, <4>1, <4>2
    <3> QED
      BY <3>2, <3>3
  <2>4. ASSUME u.last[x] # NULL
        PROVE  u.parent[u.last[x]] = x /\ u.next[u.last[x]] = NULL
    <3>1. x \in Node
      BY <1>1
    <3>2. CASE x = p /\ h.last[x] = n
      <4>1. u.last[x] = q /\ q \in Node /\ s = NULL
        BY <1>1, <1>2, <1>4, <1>7, <2>4, <3>1, <3>2 DEF s
      <4> QED
        BY <1>4, <1>5, <1>6, <2>4, <3>2, <4>1
    <3>3. CASE ~(x = p /\ h.last[x] = n)
      <4>1. u.last[x] = h.last[x] /\ h.last[x] \in Node
        BY <1>1, <1>4, <1>7, <2>4, <3>1, <3>3
      <4>2. h.last[x] # n /\ h.last[x] # q
        BY <1>2, <1>5, <1>7, <2>4, <3>3, <4>1 DEF p
      <4> QED
        BY <1>4, <1>7, <2>4, <4>1, <4>2
    <3> QED
      BY <3>2, <3>3
  <2>5. u.children[x] = NULL <=> u.last[x] = NULL
    BY <1>1, <1>2, <1>4, <1>5, <1>6, <1>7
  <2> QED
    BY <2>1, <2>2, <2>3, <2>4, <2>5
<1>12. NoCycle(u)
  <2> SUFFICES ASSUME NEW S \in SUBSET h.alive, S # {}
               PROVE  (\E x \in S : u.prev[x] \notin S) /\ (\E x \in S : u.parent[x] \notin S)
    BY <1>3 DEF NoCycle
  <2>1. NULL \notin S /\ S \subseteq Node
    BY <1>1, <1>2
  <2>2. \E x \in S : u.parent[x] \notin S
    BY <1>4, <2>1 DEF GoodHeap, WellFormed, NoCycle
  <2>3. \E x \in S : u.prev[x] \notin S
    <3> SUFFICES ASSUME \A x \in S : u.prev[x] \in S PROVE FALSE
      OBVIOUS
    <3>1. n \notin S
      BY <1>4, <2>1
    <3>2. \A x \in S : h.prev[x] \in S \cup {n}
      BY <1>1, <1>2, <1>4, <1>5, <2>1
    <3>3. s \in S => q \in S
      BY <1>1, <1>4, <1>6, <2>1
    <3>4. CASE s \in S
      <4>1. h.prev[n] = q /\ S \cup {n} \in SUBSET h.alive
        BY DEF q
      <4> QED
        BY <3>2, <3>3, <3>4, <4>1 DEF GoodHeap, WellFormed, NoCycle
    <3>5. CASE s \notin S
      <4>1. \A x \in S : h.prev[x] = u.prev[x]
        BY <1>4, <2>1, <3>1, <3>5
      <4> QED
        BY <4>1 DEF GoodHeap, WellFormed, NoCycle
    <3> QED
      BY <3>4, <3>5
  <2> QED
    BY <2>2, <2>3
<1>13. Reach(u, n) \subseteq Reach(h, n)
  <2>1. n \in Reach(h, n) /\ Reach(h, n) \in SUBSET Node
    BY <1>1, ReachStep
  <2>2. s # NULL => s \in Reach(h, n)
    BY <1>1, <2>1, ReachStep DEF s
  <2>3. \A x \in Reach(h, n) : /\ u.next[x] # NULL => u.next[x] \in Reach(h, n)
                               /\ u.children[x] # NULL => u.children[x] \in Reach(h, n)
    BY <1>1, <1>4, <2>1, <2>2, ReachStep
  <2> QED
    BY <1>1, <1>3, <2>1, <2>3, ReachInd
<1>14. IsHead(u, n) /\ u.next[n] = NULL
  BY <1>1, <1>3, <1>4 DEF IsHead
<1>15. \A x \in Node \ {n} : u.parent[x] = h.parent[x] /\ (h.next[x] = NULL => u.next[x] = NULL)
  BY <1>1, <1>2, <1>4, <1>5
<1> QED
  BY <1>3, <1>8, <1>9, <1>10, <1>11, <1>12, <1>13, <1>14, <1>15 DEF GoodHeap, WellFormed, u

(* Unlinking adds the node to the heads, and its successor if it was the    *)
(* head of a longer list.                                                   *)
LEMMA UnlinkedHeads ==
  ASSUME NEW h, GoodHeap(h), NEW n \in h.alive
  PROVE  Heads(Unlinked(h, n)) =
           Heads(h) \cup {n} \cup (IF IsHead(h, n) /\ h.next[n] # NULL THEN {h.next[n]} ELSE {})
<1> DEFINE u == Unlinked(h, n)
<1>1. h.alive \subseteq Node /\ NULL \notin Node /\ u.alive = h.alive
  BY NodeAssumption DEF GoodHeap, Heap, Unlinked
<1>2. \A x \in Node : /\ u.parent[x] = IF x = n THEN NULL ELSE h.parent[x]
                      /\ u.prev[x] = IF x = n THEN NULL ELSE IF x = h.next[n] THEN h.prev[n] ELSE h.prev[x]
  BY DEF Unlinked
<1>3. h.next[n] # NULL => /\ h.next[n] \in h.alive
                          /\ h.prev[h.next[n]] = n
                          /\ h.parent[h.next[n]] = h.parent[n]
  BY DEF GoodHeap, WellFormed, SiblingLinks, NoDangling
<1> HIDE DEF u
<1> QED
  BY <1>1, <1>2, <1>3 DEF Heads, IsHead, u

(* Releasing a detached set leaves the heads outside of it. *)
LEMMA KilledHeads ==
  ASSUME NEW h, GoodHeap(h), NEW D \in SUBSET Node
  PROVE  Heads(Killed(h, D)) = Heads(h) \ D
BY DEF Heads, IsHead, Killed, GoodHeap, Heap

(* resNodeListFree() of the head of a list releases the list with all its   *)
(* subtrees, and nothing that remains links to them.                        *)
LEMMA ListFreedGood ==
  ASSUME NEW h, GoodHeap(h), NEW n \in Heads(h)
  PROVE  GoodHeap(ListFreed(h, n)) /\ Heads(ListFreed(h, n)) = Heads(h) \ {n}
<1> DEFINE D == Reach(h, n)
<1>1. n \in h.alive /\ h.parent[n] = NULL /\ h.prev[n] = NULL
  BY DEF Heads, IsHead
<1>2. h \in Heap /\ h.alive \subseteq Node /\ NULL \notin Node /\ n \in D /\ D \in SUBSET Node
  BY <1>1, ReachStep, NodeAssumption DEF GoodHeap, Heap
<1>3. \A x \in D : /\ x \in h.alive
                   /\ \/ x = n
                      \/ h.prev[x] # NULL /\ h.prev[x] \in D
                      \/ h.prev[x] = NULL /\ h.parent[x] # NULL /\ h.parent[x] \in D
                   /\ h.parent[x] = NULL \/ h.parent[x] \in D
  BY <1>1, ReachNodes
<1>4. \A x \in D : h.next[x] # NULL => h.next[x] \in D
  BY <1>2, ReachStep
<1>5. ASSUME NEW x \in h.alive, h.parent[x] \in D PROVE x \in D
  <2>1. h.parent[x] \in Node /\ h.children[h.parent[x]] # NULL
        /\ x \in ListFrom(h, h.children[h.parent[x]])
    BY <1>2, <1>5, ChildrenReached
  <2>2. h.children[h.parent[x]] \in D
    BY <1>2, <1>5, <2>1, ReachStep
  <2> QED
    BY <1>2, <2>1, <2>2, ListInReach
<1>6. Detached(h, D)
  <2> SUFFICES ASSUME NEW x \in h.alive \ D
               PROVE  /\ h.parent[x] \notin D /\ h.children[x] \notin D
                      /\ h.last[x] \notin D /\ h.next[x] \notin D /\ h.prev[x] \notin D
    BY DEF Detached
  <2>1. h.parent[x] \notin D
    BY <1>5
  <2>2. h.children[x] \notin D /\ h.last[x] \notin D
    <3>1. /\ h.children[x] # NULL => h.parent[h.children[x]] = x
          /\ h.last[x] # NULL => h.parent[h.last[x]] = x
      BY DEF GoodHeap, WellFormed, ParentLinks
    <3> QED
      BY <1>2, <1>3, <3>1
  <2>3. h.next[x] \notin D
    <3>1. h.next[x] # NULL => h.prev[h.next[x]] = x
      BY DEF GoodHeap, WellFormed, SiblingLinks
    <3> QED
      BY <1>1, <1>2, <1>3, <3>1
  <2>4. h.prev[x] \notin D
    <3>1. h.prev[x] # NULL => h.next[h.prev[x]] = x
      BY DEF GoodHeap, WellFormed, SiblingLinks
    <3> QED
      BY <1>2, <1>4, <3>1
  <2> QED
    BY <2>1, <2>2, <2>3, <2>4
<1>7. GoodHeap(ListFreed(h, n))
  BY <1>2, <1>6, KilledGood DEF ListFreed
<1>8. Heads(h) \ D = Heads(h) \ {n}
  BY <1>2, <1>3 DEF Heads, IsHead
<1> QED
  BY <1>2, <1>7, <1>8, KilledHeads DEF ListFreed

(* resNodeFree() releases one subtree wherever it is linked. *)
LEMMA FreedGood ==
  ASSUME NEW h, GoodHeap(h), NEW n \in h.alive
  PROVE  /\ GoodHeap(Freed(h, n))
         /\ Heads(Freed(h, n)) = Heads(Unlinked(h, n)) \ {n}
<1> DEFINE u == Unlinked(h, n)
<1>1. GoodHeap(u) /\ n \in Heads(u)
  BY UnlinkedGood DEF Heads
<1>2. Freed(h, n) = ListFreed(u, n)
  BY DEF Freed, ListFreed
<1> QED
  BY <1>1, <1>2, ListFreedGood

(* resNodeListUnlinkDescendants() turns the child list into a list of roots. *)
LEMMA UnlinkedDescendantsGood ==
  ASSUME NEW h, GoodHeap(h), NEW p \in h.alive, h.children[p] # NULL
  PROVE  /\ GoodHeap(UnlinkedDescendants(h, p))
         /\ h.children[p] \in h.alive
         /\ Heads(UnlinkedDescendants(h, p)) = Heads(h) \cup {h.children[p]}
<1> DEFINE u == UnlinkedDescendants(h, p)
           c == h.children[p]
           L == ListFrom(h, c)
<1>1. /\ h \in Heap /\ h.alive \subseteq Node /\ NULL \notin Node /\ p # NULL
      /\ c \in h.alive /\ h.parent[c] = p /\ h.prev[c] = NULL
  BY NodeAssumption DEF GoodHeap, Heap, WellFormed, NoDangling, ParentLinks
<1>2. \A x \in L : x \in h.alive /\ h.parent[x] = p /\ (x = c \/ (h.prev[x] # NULL /\ h.prev[x] \in L))
  BY <1>1, ListNodes
<1>3. \A x \in h.alive : h.parent[x] = p => x \in L
  BY <1>1, ChildrenReached
<1>4. c \in L /\ L \subseteq Node
  BY <1>1, ListFromStep
<1>5. /\ u \in Heap /\ u.alive = h.alive
      /\ \A x \in Node : /\ u.parent[x] = IF x \in L THEN NULL ELSE h.parent[x]
                         /\ u.children[x] = IF x = p THEN NULL ELSE h.children[x]
                         /\ u.last[x] = IF x = p THEN NULL ELSE h.last[x]
      /\ u.next = h.next /\ u.prev = h.prev
  BY <1>1 DEF UnlinkedDescendants, Heap, Link
<1>6. ASSUME NEW x \in h.alive
      PROVE  /\ {h.parent[x], h.children[x], h.last[x], h.next[x], h.prev[x]} \subseteq h.alive \cup {NULL}
             /\ h.next[x] # NULL => h.prev[h.next[x]] = x /\ h.parent[h.next[x]] = h.parent[x]
             /\ h.prev[x] # NULL => h.next[h.prev[x]] = x /\ h.parent[h.prev[x]] = h.parent[x]
             /\ h.parent[x] # NULL /\ h.prev[x] = NULL => h.children[h.parent[x]] = x
             /\ h.parent[x] # NULL /\ h.next[x] = NULL => h.last[h.parent[x]] = x
             /\ h.children[x] # NULL => h.parent[h.children[x]] = x /\ h.prev[h.children[x]] = NULL
             /\ h.last[x] # NULL => h.parent[h.last[x]] = x /\ h.next[h.last[x]] = NULL
             /\ h.children[x] = NULL <=> h.last[x] = NULL
  BY DEF GoodHeap, WellFormed, NoDangling, SiblingLinks, ParentLinks
<1>7. \A x \in h.alive : x \in L <=> h.parent[x] = p
  BY <1>2, <1>3
<1> HIDE DEF u, c, L
<1>8. Cleared(u)
  BY <1>1, <1>5, <1>2 DEF GoodHeap, Cleared
<1>9. NoDangling(u)
  BY <1>1, <1>5, <1>6 DEF NoDangling
<1>10. SiblingLinks(u)
  BY <1>1, <1>5, <1>6, <1>7 DEF SiblingLinks
<1>11. ParentLinks(u)
  BY <1>1, <1>5, <1>6, <1>7 DEF ParentLinks
<1>12. NoCycle(u)
  <2> SUFFICES ASSUME NEW S \in SUBSET h.alive, S # {}
               PROVE  (\E x \in S : u.prev[x] \notin S) /\ (\E x \in S : u.parent[x] \notin S)
    BY <1>5 DEF NoCycle
  <2>1. NULL \notin S /\ S \subseteq Node
    BY <1>1
  <2> QED
    BY <1>5, <2>1 DEF GoodHeap, WellFormed, NoCycle
<1>13. Heads(u) = Heads(h) \cup {c}
  BY <1>1, <1>2, <1>4, <1>5, <1>7 DEF Heads, IsHead
<1> QED
  BY <1>1, <1>5, <1>8, <1>9, <1>10, <1>11, <1>12, <1>13 DEF GoodHeap, WellFormed, u, c

(* Releasing the children of a node changes no list but theirs. *)
LEMMA ChildrenReleasedGood ==
  ASSUME NEW h, GoodHeap(h), NEW p \in h.alive
  PROVE  GoodHeap(ChildrenReleased(h, p)) /\ Heads(ChildrenReleased(h, p)) = Heads(h)
<1>1. CASE h.children[p] = NULL
  BY <1>1 DEF ChildrenReleased
<1>2. CASE h.children[p] # NULL
  <2> DEFINE u == UnlinkedDescendants(h, p)
             c == h.children[p]
  <2>1. GoodHeap(u) /\ c \in h.alive /\ Heads(u) = Heads(h) \cup {c}
    BY <1>2, UnlinkedDescendantsGood
  <2>2. ChildrenReleased(h, p) = ListFreed(u, c)
    BY <1>2 DEF ChildrenReleased
  <2>3. c \notin Heads(h)
    BY <1>2, NodeAssumption DEF GoodHeap, Heap, WellFormed, ParentLinks, Heads, IsHead
  <2> HIDE DEF u, c
  <2>4. GoodHeap(ListFreed(u, c)) /\ Heads(ListFreed(u, c)) = Heads(u) \ {c}
    BY <2>1, ListFreedGood
  <2> QED
    BY <2>1, <2>2, <2>3, <2>4
<1> QED
  BY <1>1, <1>2

(* Appending a list of roots to another tree makes every node of the list a  *)
(* child, behind the children that are there.                               *)
LEMMA AddedChildGood ==
  ASSUME NEW h, GoodHeap(h), NEW c \in Heads(h), NEW p \in h.alive, NEW t,
         p \notin Reach(h, c), IsTail(h, c, t)
  PROVE  GoodHeap(AddedChild(h, p, c, t)) /\ Heads(AddedChild(h, p, c, t)) = Heads(h) \ {c}
<1> DEFINE a == AddedChild(h, p, c, t)
           L == ListFrom(h, c)
           e == h.last[p]
<1>1. /\ h \in Heap /\ h.alive \subseteq Node /\ NULL \notin Node /\ p \in Node /\ p # NULL
      /\ c \in h.alive /\ c \in Node /\ h.parent[c] = NULL /\ h.prev[c] = NULL
  BY NodeAssumption DEF GoodHeap, Heap, Heads, IsHead
<1>2. \A x \in L : /\ x \in h.alive /\ h.parent[x] = NULL
                   /\ x = c \/ (h.prev[x] # NULL /\ h.prev[x] \in L)
                   /\ h.next[x] # NULL => h.next[x] \in L
                   /\ h.next[x] = NULL => x = t
  BY <1>1, ListNodes, ListFromStep, TailUnique
<1>3. c \in L /\ t \in L /\ h.next[t] = NULL /\ L \subseteq Node
  BY <1>1, ListFromStep DEF IsTail
<1>4. p \notin L
  BY <1>1, ReachStep, ListInReach
<1>5. ASSUME NEW x \in h.alive
      PROVE  /\ {h.parent[x], h.children[x], h.last[x], h.next[x], h.prev[x]} \subseteq h.alive \cup {NULL}
             /\ h.next[x] # NULL => h.prev[h.next[x]] = x /\ h.parent[h.next[x]] = h.parent[x]
             /\ h.prev[x] # NULL => h.next[h.prev[x]] = x /\ h.parent[h.prev[x]] = h.parent[x]
             /\ h.parent[x] # NULL /\ h.prev[x] = NULL => h.children[h.parent[x]] = x
             /\ h.parent[x] # NULL /\ h.next[x] = NULL => h.last[h.parent[x]] = x
             /\ h.children[x] # NULL => h.parent[h.children[x]] = x /\ h.prev[h.children[x]] = NULL
             /\ h.last[x] # NULL => h.parent[h.last[x]] = x /\ h.next[h.last[x]] = NULL
             /\ h.children[x] = NULL <=> h.last[x] = NULL
  BY DEF GoodHeap, WellFormed, NoDangling, SiblingLinks, ParentLinks
<1>6. \A x \in h.alive \ L : h.next[x] \notin L
  BY <1>1, <1>2, <1>3, <1>5
<1>7. \A x \in h.alive \ L : /\ h.prev[x] \notin L /\ h.children[x] \notin L /\ h.last[x] \notin L
  BY <1>1, <1>2, <1>3, <1>5
<1>8. \A x \in h.alive : h.parent[x] = p => e # NULL
  <2>1. ASSUME NEW x \in h.alive, h.parent[x] = p PROVE h.children[p] # NULL
    BY <1>1, <2>1, ChildrenReached
  <2> QED
    BY <1>5, <2>1
<1>9. e # NULL => e \in h.alive \ L /\ h.parent[e] = p /\ h.next[e] = NULL
  BY <1>1, <1>2, <1>5
<1>10. /\ a \in Heap /\ a.alive = h.alive
       /\ \A x \in Node : /\ a.parent[x] = IF x \in L THEN p ELSE h.parent[x]
                          /\ a.children[x] = IF x = p /\ e = NULL THEN c ELSE h.children[x]
                          /\ a.last[x] = IF x = p THEN t ELSE h.last[x]
                          /\ a.next[x] = IF x = e /\ e # NULL THEN c ELSE h.next[x]
                          /\ a.prev[x] = IF x = c /\ e # NULL THEN e ELSE h.prev[x]
  <2>1. h.children[p] = NULL <=> e = NULL
    BY <1>5
  <2>2. t \in Node /\ e \in Link
    BY <1>1, <1>3 DEF Heap
  <2> QED
    BY <1>1, <2>1, <2>2 DEF AddedChild, Heap, Link
<1> HIDE DEF a, L, e
<1>11. Cleared(a)
  BY <1>1, <1>2, <1>9, <1>10 DEF GoodHeap, Cleared
<1>12. NoDangling(a)
  BY <1>1, <1>2, <1>3, <1>5, <1>9, <1>10 DEF NoDangling
<1>13. SiblingLinks(a)
  <2> SUFFICES ASSUME NEW x \in h.alive
               PROVE  /\ a.next[x] # NULL => a.prev[a.next[x]] = x /\ a.parent[a.next[x]] = a.parent[x]
                      /\ a.prev[x] # NULL => a.next[a.prev[x]] = x /\ a.parent[a.prev[x]] = a.parent[x]
    BY <1>10 DEF SiblingLinks
  <2>1. x \in Node /\ x # NULL
    BY <1>1
  <2>2. ASSUME a.next[x] # NULL
        PROVE  a.prev[a.next[x]] = x /\ a.parent[a.next[x]] = a.parent[x]
    <3>1. CASE x = e
      BY <1>1, <1>3, <1>9, <1>10, <2>1, <2>2, <3>1
    <3>2. CASE x # e
      <4>1. /\ a.next[x] = h.next[x] /\ h.next[x] \in h.alive
            /\ h.prev[h.next[x]] = x /\ h.parent[h.next[x]] = h.parent[x] /\ h.next[x] # c
        BY <1>1, <1>5, <1>10, <2>1, <2>2, <3>2
      <4>2. h.next[x] \in L <=> x \in L
        BY <1>2, <1>6, <2>2, <4>1
      <4> QED
        BY <1>1, <1>10, <2>1, <4>1, <4>2
    <3> QED
      BY <3>1, <3>2
  <2>3. ASSUME a.prev[x] # NULL
        PROVE  a.next[a.prev[x]] = x /\ a.parent[a.prev[x]] = a.parent[x]
    <3>1. CASE x = c
      BY <1>1, <1>3, <1>9, <1>10, <2>1, <2>3, <3>1
    <3>2. CASE x # c
      <4>1. /\ a.prev[x] = h.prev[x] /\ h.prev[x] \in h.alive
            /\ h.next[h.prev[x]] = x /\ h.parent[h.prev[x]] = h.parent[x] /\ h.prev[x] # e
        BY <1>1, <1>5, <1>9, <1>10, <2>1, <2>3, <3>2
      <4>2. h.prev[x] \in L <=> x \in L
        BY <1>2, <1>7, <3>2, <4>1
      <4> QED
        BY <1>1, <1>10, <2>1, <4>1, <4>2
    <3> QED
      BY <3>1, <3>2
  <2> QED
    BY <2>2, <2>3
<1>14. ParentLinks(a)
  <2> SUFFICES ASSUME NEW x \in h.alive
               PROVE  /\ a.parent[x] # NULL /\ a.prev[x] = NULL => a.children[a.parent[x]] = x
                      /\ a.parent[x] # NULL /\ a.next[x] = NULL => a.last[a.parent[x]] = x
                      /\ a.children[x] # NULL => a.parent[a.children[x]] = x /\ a.prev[a.children[x]] = NULL
                      /\ a.last[x] # NULL => a.parent[a.last[x]] = x /\ a.next[a.last[x]] = NULL
                      /\ a.children[x] = NULL <=> a.last[x] = NULL
    BY <1>10 DEF ParentLinks
  <2>0. x \in Node /\ x # NULL
    BY <1>1
  <2>1. ASSUME a.parent[x] # NULL, a.prev[x] = NULL
        PROVE  a.children[a.parent[x]] = x
    <3>1. CASE x \in L
      BY <1>1, <1>2, <1>9, <1>10, <2>0, <2>1, <3>1
    <3>2. CASE x \notin L
      BY <1>1, <1>3, <1>5, <1>8, <1>10, <2>0, <2>1, <3>2
    <3> QED
      BY <3>1, <3>2
  <2>2. ASSUME a.parent[x] # NULL, a.next[x] = NULL
        PROVE  a.last[a.parent[x]] = x
    <3>1. CASE x \in L
      BY <1>1, <1>2, <1>9, <1>10, <2>0, <2>2, <3>1
    <3>2. CASE x \notin L
      <4>1. x # e
        BY <1>1, <1>10, <2>0, <2>2
      <4>2. a.next[x] = h.next[x] /\ a.parent[x] = h.parent[x] /\ h.parent[x] \in Node
        BY <1>1, <1>5, <1>10, <2>0, <2>2, <3>2, <4>1
      <4>3. h.parent[x] # p
        BY <1>5, <2>2, <4>1, <4>2 DEF e
      <4> QED
        BY <1>5, <1>10, <2>2, <4>2, <4>3
    <3> QED
      BY <3>1, <3>2
  <2>3. ASSUME a.children[x] # NULL
        PROVE  a.parent[a.children[x]] = x /\ a.prev[a.children[x]] = NULL
    <3>1. CASE x = p /\ e = NULL
      BY <1>1, <1>3, <1>10, <2>0, <3>1
    <3>2. CASE ~(x = p /\ e = NULL)
      <4>1. /\ a.children[x] = h.children[x] /\ h.children[x] \in h.alive
            /\ h.parent[h.children[x]] = x /\ h.prev[h.children[x]] = NULL
        BY <1>1, <1>5, <1>10, <2>0, <2>3, <3>2
      <4>2. h.children[x] \notin L
        BY <1>2, <2>0, <4>1
      <4> QED
        BY <1>1, <1>3, <1>10, <4>1, <4>2
    <3> QED
      BY <3>1, <3>2
  <2>4. ASSUME a.last[x] # NULL
        PROVE  a.parent[a.last[x]] = x /\ a.next[a.last[x]] = NULL
    <3>1. CASE x = p
      BY <1>1, <1>3, <1>9, <1>10, <2>0, <3>1
    <3>2. CASE x # p
      <4>1. /\ a.last[x] = h.last[x] /\ h.last[x] \in h.alive
            /\ h.parent[h.last[x]] = x /\ h.next[h.last[x]] = NULL
        BY <1>1, <1>5, <1>10, <2>0, <2>4, <3>2
      <4>2. h.last[x] \notin L /\ (e # NULL => h.last[x] # e)
        BY <1>2, <1>9, <2>0, <3>2, <4>1
      <4> QED
        BY <1>1, <1>10, <4>1, <4>2
    <3> QED
      BY <3>1, <3>2
  <2>5. a.children[x] = NULL <=> a.last[x] = NULL
    BY <1>1, <1>3, <1>5, <1>10, <2>0 DEF e
  <2> QED
    BY <2>1, <2>2, <2>3, <2>4, <2>5
<1>15. NoCycle(a)
  <2> SUFFICES ASSUME NEW S \in SUBSET h.alive, S # {}
               PROVE  (\E x \in S : a.prev[x] \notin S) /\ (\E x \in S : a.parent[x] \notin S)
    BY <1>10 DEF NoCycle
  <2>1. NULL \notin S /\ S \subseteq Node
    BY <1>1
  <2>2. \E x \in S : a.prev[x] \notin S
    <3> SUFFICES ASSUME \A x \in S : a.prev[x] \in S PROVE FALSE
      OBVIOUS
    <3>1. CASE c \in S /\ e # NULL
      <4> DEFINE T == {x \in S : x \notin L}
      <4>1. e \in T
        BY <1>1, <1>9, <1>10, <2>1, <3>1
      <4>2. \A x \in T : h.prev[x] \in T
        BY <1>1, <1>3, <1>7, <1>10, <2>1
      <4>3. T \in SUBSET h.alive /\ T # {}
        BY <4>1
      <4> HIDE DEF T
      <4> QED
        BY <4>2, <4>3 DEF GoodHeap, WellFormed, NoCycle
    <3>2. CASE ~(c \in S /\ e # NULL)
      <4>1. \A x \in S : h.prev[x] = a.prev[x]
        BY <1>10, <2>1, <3>2
      <4> QED
        BY <4>1 DEF GoodHeap, WellFormed, NoCycle
    <3> QED
      BY <3>1, <3>2
  <2>3. \E x \in S : a.parent[x] \notin S
    <3> SUFFICES ASSUME \A x \in S : a.parent[x] \in S PROVE FALSE
      OBVIOUS
    <3> DEFINE T == {x \in S : x \notin Reach(h, c)}
    <3>1. \A x \in Reach(h, c) : h.parent[x] = NULL \/ h.parent[x] \in Reach(h, c)
      BY <1>1, ReachNodes
    <3>2. ASSUME NEW x \in h.alive, h.parent[x] \in Reach(h, c) PROVE x \in Reach(h, c)
      <4>1. h.parent[x] \in Node
        BY <1>1, <3>2, ReachStep
      <4>2. h.children[h.parent[x]] # NULL /\ x \in ListFrom(h, h.children[h.parent[x]])
        BY <4>1, ChildrenReached
      <4>3. h.children[h.parent[x]] \in Reach(h, c)
        BY <1>1, <3>2, <4>2, ReachStep
      <4> QED
        BY <1>1, <4>2, <4>3, ListInReach
    <3>3. L \subseteq Reach(h, c)
      BY <1>1, ReachStep, ListInReach DEF L
    <3>4. \A x \in T : h.parent[x] \in T
      BY <1>10, <2>1, <3>2, <3>3
    <3>5. CASE T # {}
      <4>1. T \in SUBSET h.alive
        OBVIOUS
      <4> HIDE DEF T
      <4> QED
        BY <3>4, <3>5, <4>1 DEF GoodHeap, WellFormed, NoCycle
    <3>6. CASE T = {}
      <4>1. S \subseteq Reach(h, c)
        BY <3>6
      <4>2. p \notin S
        BY <4>1
      <4>3. \A x \in S : h.parent[x] = a.parent[x]
        BY <1>10, <2>1, <4>2
      <4> QED
        BY <4>3 DEF GoodHeap, WellFormed, NoCycle
    <3> QED
      BY <3>5, <3>6
  <2> QED
    BY <2>2, <2>3
<1>16. Heads(a) = Heads(h) \ {c}
  <2>1. \A x \in h.alive : IsHead(a, x) <=> IsHead(h, x) /\ x # c
    BY <1>1, <1>2, <1>3, <1>9, <1>10 DEF IsHead
  <2> QED
    BY <1>10, <2>1 DEF Heads
<1> QED
  BY <1>10, <1>11, <1>12, <1>13, <1>14, <1>15, <1>16 DEF GoodHeap, WellFormed, a

(* The end of a list that n is not in is neither n nor below n. *)
LEMMA TailApart ==
  ASSUME NEW h, GoodHeap(h), NEW n \in h.alive, NEW l \in h.alive, NEW t,
         l \notin Reach(h, n), n \notin ListFrom(h, l), IsTail(h, l, t)
  PROVE  t \in h.alive /\ t # n /\ t \notin Reach(h, n) /\ h.next[t] = NULL
<1> DEFINE S == {x \in ListFrom(h, l) : x \notin Reach(h, n)}
<1>1. h \in Heap /\ h.alive \subseteq Node /\ NULL \notin Node
  BY NodeAssumption DEF GoodHeap, Heap
<1>2. S \in SUBSET Node /\ l \in S
  BY <1>1, ListFromStep
<1>3. ASSUME NEW x \in S, h.next[x] # NULL
      PROVE  h.next[x] \in S
  <2>1. h.next[x] \in ListFrom(h, l) /\ x \in h.alive
    BY <1>1, <1>3, ListFromStep, ListNodes
  <2>2. h.prev[h.next[x]] = x /\ x # NULL
    BY <1>1, <1>3, <2>1 DEF GoodHeap, WellFormed, SiblingLinks
  <2>3. h.next[x] \notin Reach(h, n)
    BY <1>1, <2>1, <2>2, ReachNodes
  <2> QED
    BY <2>1, <2>3
<1>4. ListFrom(h, l) \subseteq S
  <2> HIDE DEF S
  <2> QED BY <1>1, <1>2, <1>3, ListFromInd
<1> QED
  BY <1>1, <1>4, ListNodes DEF IsTail

(* A node that is appended to a list it is not in leaves its old place and   *)
(* becomes the last sibling there.                                          *)
LEMMA AddedSiblingGood ==
  ASSUME NEW h, GoodHeap(h), NEW n \in h.alive, NEW l \in h.alive, NEW t,
         l \notin Reach(h, n), n \notin ListFrom(h, l), IsTail(h, l, t)
  PROVE  /\ GoodHeap(AddedSibling(h, t, n))
         /\ Heads(AddedSibling(h, t, n)) = Heads(Unlinked(h, n)) \ {n}
<1> DEFINE u == Unlinked(h, n)
           a == AddedSibling(h, t, n)
           p == u.parent[t]
<1>1. t \in h.alive /\ t # n /\ t \notin Reach(h, n) /\ h.next[t] = NULL
  BY TailApart
<1>2. h.alive \subseteq Node
  BY DEF GoodHeap, Heap
<1>3. /\ GoodHeap(u) /\ u.alive = h.alive /\ u.next[t] = NULL /\ t \notin Reach(u, n)
      /\ u.parent[n] = NULL /\ u.prev[n] = NULL /\ u.next[n] = NULL
  BY <1>1, <1>2, UnlinkedGood DEF IsHead
<1>4. a = [alive    |-> u.alive,
           parent   |-> [x \in Node |-> IF x = n THEN p ELSE u.parent[x]],
           children |-> u.children,
           last     |-> [x \in Node |-> IF x = p THEN n ELSE u.last[x]],
           next     |-> [x \in Node |-> IF x = t THEN n ELSE u.next[x]],
           prev     |-> [x \in Node |-> IF x = n THEN t ELSE u.prev[x]]]
  BY DEF AddedSibling
<1> HIDE DEF u, a
<1>5. u \in Heap /\ u.alive \subseteq Node /\ NULL \notin Node /\ n \in u.alive /\ t \in u.alive
  BY <1>1, <1>3, NodeAssumption DEF GoodHeap, Heap
<1>6. ASSUME NEW x \in u.alive
      PROVE  /\ {u.parent[x], u.children[x], u.last[x], u.next[x], u.prev[x]} \subseteq u.alive \cup {NULL}
             /\ u.next[x] # NULL => u.prev[u.next[x]] = x /\ u.parent[u.next[x]] = u.parent[x]
             /\ u.prev[x] # NULL => u.next[u.prev[x]] = x /\ u.parent[u.prev[x]] = u.parent[x]
             /\ u.parent[x] # NULL /\ u.prev[x] = NULL => u.children[u.parent[x]] = x
             /\ u.parent[x] # NULL /\ u.next[x] = NULL => u.last[u.parent[x]] = x
             /\ u.children[x] # NULL => u.parent[u.children[x]] = x /\ u.prev[u.children[x]] = NULL
             /\ u.last[x] # NULL => u.parent[u.last[x]] = x /\ u.next[u.last[x]] = NULL
             /\ u.children[x] = NULL <=> u.last[x] = NULL
  BY <1>3 DEF GoodHeap, WellFormed, NoDangling, SiblingLinks, ParentLinks
<1>7. \A x \in u.alive : u.prev[x] # n /\ u.next[x] # n /\ u.children[x] # n /\ u.last[x] # n
  BY <1>3, <1>5, <1>6
<1>8. /\ a \in Heap /\ a.alive = u.alive
      /\ \A x \in Node : /\ a.parent[x] = IF x = n THEN p ELSE u.parent[x]
                         /\ a.children[x] = u.children[x]
                         /\ a.last[x] = IF x = p THEN n ELSE u.last[x]
                         /\ a.next[x] = IF x = t THEN n ELSE u.next[x]
                         /\ a.prev[x] = IF x = n THEN t ELSE u.prev[x]
  BY <1>4, <1>5 DEF Heap, Link
<1>9. p # NULL => /\ p \in u.alive /\ p # n /\ p \notin Reach(u, n) /\ u.last[p] = t
                  /\ u.children[p] # NULL
  <2> SUFFICES ASSUME p # NULL
               PROVE  /\ p \in u.alive /\ p # n /\ p \notin Reach(u, n) /\ u.last[p] = t
                      /\ u.children[p] # NULL
    OBVIOUS
  <2>1. p \in u.alive /\ u.last[p] = t
    BY <1>3, <1>5, <1>6
  <2>2. u.children[p] # NULL /\ t \in ListFrom(u, u.children[p])
    BY <1>3, <1>5, <2>1, ChildrenReached
  <2>3. p \notin Reach(u, n)
    <3>1. ASSUME p \in Reach(u, n) PROVE u.children[p] \in Reach(u, n)
      BY <1>5, <2>2, <3>1, ReachStep
    <3>2. ASSUME u.children[p] \in Reach(u, n) PROVE t \in Reach(u, n)
      BY <1>5, <2>2, <3>2, ListInReach
    <3> QED
      BY <1>3, <3>1, <3>2
  <2>4. n \in Reach(u, n)
    BY <1>5, ReachStep
  <2> QED
    BY <2>1, <2>2, <2>3, <2>4
<1> HIDE DEF p
<1>10. Cleared(a)
  BY <1>3, <1>5, <1>8, <1>9 DEF GoodHeap, Cleared
<1>11. NoDangling(a)
  BY <1>5, <1>6, <1>8, <1>9 DEF NoDangling
<1>12. SiblingLinks(a)
  <2> SUFFICES ASSUME NEW x \in u.alive
               PROVE  /\ a.next[x] # NULL => a.prev[a.next[x]] = x /\ a.parent[a.next[x]] = a.parent[x]
                      /\ a.prev[x] # NULL => a.next[a.prev[x]] = x /\ a.parent[a.prev[x]] = a.parent[x]
    BY <1>8 DEF SiblingLinks
  <2>1. CASE x = t
    BY <1>1, <1>3, <1>5, <1>6, <1>7, <1>8, <2>1 DEF p
  <2>2. CASE x = n
    BY <1>1, <1>3, <1>5, <1>6, <1>7, <1>8, <2>2 DEF p
  <2>3. CASE x # t /\ x # n
    BY <1>3, <1>5, <1>6, <1>7, <1>8, <2>3
  <2> QED
    BY <2>1, <2>2, <2>3
<1>13. ParentLinks(a)
  <2> SUFFICES ASSUME NEW x \in u.alive
               PROVE  /\ a.parent[x] # NULL /\ a.prev[x] = NULL => a.children[a.parent[x]] = x
                      /\ a.parent[x] # NULL /\ a.next[x] = NULL => a.last[a.parent[x]] = x
                      /\ a.children[x] # NULL => a.parent[a.children[x]] = x /\ a.prev[a.children[x]] = NULL
                      /\ a.last[x] # NULL => a.parent[a.last[x]] = x /\ a.next[a.last[x]] = NULL
                      /\ a.children[x] = NULL <=> a.last[x] = NULL
    BY <1>8 DEF ParentLinks
  <2>1. a.parent[x] # NULL /\ a.prev[x] = NULL => a.children[a.parent[x]] = x
    BY <1>5, <1>6, <1>8
  <2>2. a.parent[x] # NULL /\ a.next[x] = NULL => a.last[a.parent[x]] = x
    <3> SUFFICES ASSUME a.parent[x] # NULL, a.next[x] = NULL PROVE a.last[a.parent[x]] = x
      OBVIOUS
    <3>1. x # t /\ u.next[x] = NULL
      BY <1>5, <1>8
    <3>2. CASE x = n
      BY <1>5, <1>8, <1>9, <3>2
    <3>3. CASE x # n
      <4>1. a.parent[x] = u.parent[x] /\ u.parent[x] \in Node /\ u.last[u.parent[x]] = x
        BY <1>5, <1>6, <1>8, <3>1, <3>3
      <4> QED
        BY <1>8, <1>9, <3>1, <4>1
    <3> QED
      BY <3>2, <3>3
  <2>3. a.children[x] # NULL => a.parent[a.children[x]] = x /\ a.prev[a.children[x]] = NULL
    BY <1>5, <1>6, <1>7, <1>8
  <2>4. a.last[x] # NULL => a.parent[a.last[x]] = x /\ a.next[a.last[x]] = NULL
    <3>1. CASE x = p
      BY <1>1, <1>3, <1>5, <1>8, <3>1
    <3>2. CASE x # p
      BY <1>5, <1>6, <1>7, <1>8, <3>2 DEF p
    <3> QED
      BY <3>1, <3>2
  <2>5. a.children[x] = NULL <=> a.last[x] = NULL
    BY <1>5, <1>6, <1>8, <1>9
  <2> QED
    BY <2>1, <2>2, <2>3, <2>4, <2>5
<1>14. NoCycle(a)
  <2> SUFFICES ASSUME NEW S \in SUBSET u.alive, S # {}
               PROVE  (\E x \in S : a.prev[x] \notin S) /\ (\E x \in S : a.parent[x] \notin S)
    BY <1>8 DEF NoCycle
  <2>1. NULL \notin S /\ S \subseteq Node
    BY <1>5
  <2>2. \E x \in S : a.prev[x] \notin S
    <3> SUFFICES ASSUME \A x \in S : a.prev[x] \in S PROVE FALSE
      OBVIOUS
    <3> DEFINE T == S \ {n}
    <3>1. T # {}
      BY <1>1, <1>8, <2>1
    <3>2. T \in SUBSET u.alive
      OBVIOUS
    <3>3. \A x \in T : u.prev[x] \in T
      BY <1>7, <1>8, <2>1
    <3> HIDE DEF T
    <3> QED
      BY <1>3, <3>1, <3>2, <3>3 DEF GoodHeap, WellFormed, NoCycle
  <2>3. \E x \in S : a.parent[x] \notin S
    <3> SUFFICES ASSUME \A x \in S : a.parent[x] \in S PROVE FALSE
      OBVIOUS
    <3>1. CASE n \in S
      <4> DEFINE T == {x \in S : x \notin Reach(u, n)}
      <4>1. p \in T
        BY <1>8, <1>9, <2>1, <3>1
      <4>2. ASSUME NEW x \in u.alive, u.parent[x] \in Reach(u, n) PROVE x \in Reach(u, n)
        <5>1. u.parent[x] \in Node
          BY <1>5, <4>2, ReachStep
        <5>2. u.children[u.parent[x]] # NULL /\ x \in ListFrom(u, u.children[u.parent[x]])
          BY <1>3, <5>1, ChildrenReached
        <5>3. u.children[u.parent[x]] \in Reach(u, n)
          BY <1>5, <4>2, <5>2, ReachStep
        <5> QED
          BY <1>5, <5>2, <5>3, ListInReach
      <4>3. n \in Reach(u, n)
        BY <1>5, ReachStep
      <4>4. \A x \in T : u.parent[x] \in T
        BY <1>8, <2>1, <4>2, <4>3
      <4>5. T \in SUBSET u.alive /\ T # {}
        BY <4>1
      <4> HIDE DEF T
      <4> QED
        BY <1>3, <4>4, <4>5 DEF GoodHeap, WellFormed, NoCycle
    <3>2. CASE n \notin S
      <4>1. \A x \in S : u.parent[x] = a.parent[x]
        BY <1>8, <2>1, <3>2
      <4> QED
        BY <1>3, <4>1 DEF GoodHeap, WellFormed, NoCycle
    <3> QED
      BY <3>1, <3>2
  <2> QED
    BY <2>2, <2>3
<1>15. Heads(a) = Heads(u) \ {n}
  <2>1. \A x \in u.alive : IsHead(a, x) <=> IsHead(u, x) /\ x # n
    BY <1>5, <1>8 DEF IsHead
  <2> QED
    BY <1>8, <2>1 DEF Heads
<1> QED
  BY <1>8, <1>10, <1>11, <1>12, <1>13, <1>14, <1>15 DEF GoodHeap, WellFormed, u, a

(* A first child is linked to its parent and heads no list of roots. *)
LEMMA ChildIsNoHead ==
  ASSUME NEW h, GoodHeap(h), NEW p \in h.alive, h.children[p] # NULL
  PROVE  h.children[p] \in h.alive /\ h.children[p] \notin Heads(h)
BY NodeAssumption DEF GoodHeap, Heap, WellFormed, NoDangling, ParentLinks, Heads, IsHead

(* Releasing a first child leaves the lists of roots as they are. *)
LEMMA ChildFreedGood ==
  ASSUME NEW h, GoodHeap(h), NEW p \in h.alive, h.children[p] # NULL
  PROVE  /\ GoodHeap(Freed(h, h.children[p]))
         /\ Heads(Freed(h, h.children[p])) = Heads(h)
         /\ p \in Freed(h, h.children[p]).alive
         /\ Freed(h, h.children[p]).alive \subseteq h.alive
<1> DEFINE c == h.children[p]
           u == Unlinked(h, c)
<1>1. c \in h.alive /\ c \notin Heads(h)
  BY ChildIsNoHead
<1>2. GoodHeap(Freed(h, c)) /\ Heads(Freed(h, c)) = Heads(u) \ {c}
  BY <1>1, FreedGood
<1>3. Heads(u) = Heads(h) \cup {c}
  BY <1>1, UnlinkedHeads DEF Heads
<1>4. p \notin Reach(u, c)
  <2>1. /\ GoodHeap(u) /\ u.alive = h.alive /\ u.parent[c] = NULL /\ u.prev[c] = NULL
        /\ u.next[c] = NULL /\ Reach(u, c) \subseteq Reach(h, c)
    BY <1>1, UnlinkedGood DEF IsHead
  <2>2. /\ h.parent[c] = p /\ h.alive \subseteq Node /\ NULL \notin Node /\ u \in Heap
        /\ c \in Node
    BY <1>1, <2>1, NodeAssumption DEF GoodHeap, Heap, WellFormed, ParentLinks
  <2>3. \A x \in Reach(u, c) : x = c \/ u.parent[x] \in Reach(u, c)
    <3> DEFINE T == {x \in Reach(u, c) : x = c \/ u.parent[x] \in Reach(u, c)}
    <3>1. T \in SUBSET Node /\ c \in T
      BY <2>2, ReachStep
    <3>2. ASSUME NEW x \in T
          PROVE  /\ u.next[x] # NULL => u.next[x] \in T
                 /\ u.children[x] # NULL => u.children[x] \in T
      <4>1. x \in u.alive
        BY <1>1, <2>1, ReachNodes
      <4>2. /\ u.next[x] # NULL => u.parent[u.next[x]] = u.parent[x] /\ u.next[x] \in Reach(u, c)
            /\ u.children[x] # NULL => u.parent[u.children[x]] = x /\ u.children[x] \in Reach(u, c)
        BY <2>1, <2>2, <4>1, ReachStep DEF GoodHeap, WellFormed, SiblingLinks, ParentLinks
      <4> QED
        BY <2>1, <4>2
    <3>3. Reach(u, c) \subseteq T
      <4> HIDE DEF T
      <4> QED BY <2>2, <3>1, <3>2, ReachInd
    <3> QED
      BY <3>3
  <2>4. \A x \in Node \ {c} : u.parent[x] = h.parent[x]
    BY <1>1, UnlinkedGood
  <2>5. ASSUME p \in Reach(u, c) PROVE FALSE
    <3>1. \A x \in Reach(u, c) : h.parent[x] \in Reach(u, c)
      BY <2>2, <2>3, <2>4, <2>5, ReachStep
    <3>2. Reach(u, c) \in SUBSET h.alive /\ Reach(u, c) # {}
      BY <1>1, <2>1, <2>5, ReachNodes
    <3> QED
      BY <3>1, <3>2 DEF GoodHeap, WellFormed, NoCycle
  <2> QED
    BY <2>5
<1>5. p \in Freed(h, c).alive /\ Freed(h, c).alive \subseteq h.alive
  BY <1>4 DEF Freed, Killed, Unlinked
<1> QED
  BY <1>1, <1>2, <1>3, <1>5

(* A new node becomes a child of any other live node. *)
LEMMA NewChildGood ==
  ASSUME NEW h, GoodHeap(h), NEW p \in h.alive, NEW c \in Node \ h.alive
  PROVE  /\ GoodHeap(AddedChild(Allocated(h, c), p, c, c))
         /\ Heads(AddedChild(Allocated(h, c), p, c, c)) = Heads(h)
<1> DEFINE a == Allocated(h, c)
<1>1. GoodHeap(a) /\ IsHead(a, c)
  BY AllocatedGood
<1>2. /\ a \in Heap /\ a.alive = h.alive \cup {c} /\ a.parent = h.parent /\ a.prev = h.prev
      /\ a.next[c] = NULL /\ a.children[c] = NULL
  BY DEF GoodHeap, Cleared, Heap, Allocated
<1>3. Heads(a) = Heads(h) \cup {c} /\ c \notin Heads(h)
  BY <1>1, <1>2 DEF Heads, IsHead
<1> HIDE DEF a
<1>4. Reach(a, c) \subseteq {c}
  <2> DEFINE S == {c}
  <2>1. /\ S \in SUBSET Node /\ c \in S
        /\ \A x \in S : /\ a.next[x] # NULL => a.next[x] \in S
                        /\ a.children[x] # NULL => a.children[x] \in S
    BY <1>2
  <2> HIDE DEF S
  <2>2. Reach(a, c) \subseteq S
    BY <1>2, <2>1, ReachInd
  <2> QED
    BY <2>2 DEF S
<1>5. p \in a.alive /\ p \notin Reach(a, c) /\ IsTail(a, c, c)
  BY <1>2, <1>4, ListFromStep DEF IsTail
<1>6. GoodHeap(AddedChild(a, p, c, c)) /\ Heads(AddedChild(a, p, c, c)) = Heads(a) \ {c}
  BY <1>1, <1>3, <1>5, AddedChildGood
<1> QED
  BY <1>3, <1>6 DEF a

--------------------------------------------------------------------------------
(* The invariant *)

(* LinksConsistent is not inductive by itself: a freed node with a stale     *)
(* link could come back from resNodeNew(), and a held node could be one that *)
(* a parent or a sibling still links to.  Ownership excludes the second.    *)
IInv ==
  /\ GoodHeap(heap)
  /\ Owned

(* No memory, no links: nothing can be inconsistent at the start. *)
LEMMA InitInv == Init => IInv
<1> SUFFICES ASSUME Init PROVE IInv
  OBVIOUS
<1>1. heap \in Heap /\ heap.alive = {} /\ held = {} /\ lost = {}
  BY DEF Init, Heap, Link
<1>2. Cleared(heap)
  BY DEF Init, Cleared
<1>3. WellFormed(heap)
  BY <1>1 DEF WellFormed, NoDangling, SiblingLinks, ParentLinks, NoCycle
<1> QED
  BY <1>1, <1>2, <1>3 DEF IInv, GoodHeap, Owned, Heads

(* The node behind a node is none of the heads. *)
LEMMA NextNoHead ==
  ASSUME NEW h, GoodHeap(h), NEW n \in h.alive
  PROVE  h.next[n] # n /\ h.next[n] \notin Heads(h)
<1>1. /\ NULL \notin h.alive /\ n \in Node
      /\ h.next[n] # NULL => h.prev[h.next[n]] = n
  BY NodeAssumption DEF GoodHeap, Heap, WellFormed, SiblingLinks
<1>2. \A S \in SUBSET h.alive : S # {} => \E x \in S : h.prev[x] \notin S
  BY DEF GoodHeap, WellFormed, NoCycle
<1>3. ASSUME h.next[n] = n PROVE FALSE
  <2>1. \E x \in {n} : h.prev[x] \notin {n}
    BY <1>2
  <2> QED
    BY <1>1, <1>3, <2>1
<1>4. h.next[n] \notin Heads(h)
  BY <1>1 DEF Heads, IsHead
<1> QED
  BY <1>3, <1>4

(* Every operation keeps the heap good, and changes the set of list heads   *)
(* exactly as it changes the set of heads the program holds; appending a    *)
(* list by its head leaves a head behind that counts as lost.               *)
LEMMA StepInv ==
  ASSUME IInv, [Next]_vars
  PROVE  IInv'
<1> DEFINE Keeps == IInv'
<1>1. /\ GoodHeap(heap) /\ Heads(heap) = held \cup lost /\ held \cap lost = {}
      /\ heap.alive \subseteq Node /\ NULL \notin Node
      /\ Heads(heap) = {n \in heap.alive : IsHead(heap, n)}
  BY NodeAssumption DEF IInv, GoodHeap, Heap, Heads, Owned
<1>2. ASSUME NEW n \in Node, New(n) PROVE Keeps
  <2>1. /\ n \in Node \ heap.alive /\ heap' = Allocated(heap, n)
        /\ held' = held \cup {n} /\ lost' = lost
    BY <1>2 DEF New
  <2>2. GoodHeap(heap')
    BY <1>1, <2>1, AllocatedGood
  <2>3. heap'.alive = heap.alive \cup {n} /\ heap'.parent = heap.parent /\ heap'.prev = heap.prev
    BY <1>1, <2>1 DEF Allocated, GoodHeap, Heap
  <2>4. Heads(heap') = Heads(heap) \cup {n}
    BY <1>1, <2>1, <2>3 DEF Heads, IsHead, GoodHeap, Cleared
  <2> QED
    BY <1>1, <2>1, <2>2, <2>4 DEF IInv, Owned
<1>3. ASSUME NEW n \in Node, ListUnlink(n) PROVE Keeps
  <2>1. /\ n \in heap.alive /\ ~IsHead(heap, n) /\ heap' = Unlinked(heap, n)
        /\ held' = held \cup {n} /\ lost' = lost
    BY <1>3 DEF ListUnlink, Known
  <2>2. GoodHeap(heap')
    BY <1>1, <2>1, UnlinkedGood
  <2>3. Heads(heap') = Heads(heap) \cup {n}
    BY <1>1, <2>1, UnlinkedHeads
  <2> QED
    BY <1>1, <2>1, <2>2, <2>3 DEF IInv, Owned
<1>4. ASSUME NEW n \in Node, Free(n) PROVE Keeps
  <2>1. /\ n \in heap.alive /\ (~IsHead(heap, n) \/ heap.next[n] = NULL)
        /\ heap' = Freed(heap, n) /\ held' = held \ {n} /\ lost' = lost
        /\ n \notin UNION {Reach(heap, m) : m \in lost}
    BY <1>4 DEF Free, Known
  <2>2. GoodHeap(heap') /\ Heads(heap') = Heads(Unlinked(heap, n)) \ {n}
    BY <1>1, <2>1, FreedGood
  <2>3. Heads(Unlinked(heap, n)) = Heads(heap) \cup {n}
    BY <1>1, <2>1, UnlinkedHeads
  <2>4. n \in Reach(heap, n)
    BY DEF Reach
  <2>5. n \notin lost
    BY <2>1, <2>4
  <2> QED
    BY <1>1, <2>1, <2>2, <2>3, <2>5 DEF IInv, Owned
<1>5. ASSUME NEW n \in Node, ListFree(n) PROVE Keeps
  <2>1. n \in held /\ heap' = ListFreed(heap, n) /\ held' = held \ {n} /\ lost' = lost
    BY <1>5 DEF ListFree
  <2>2. GoodHeap(heap') /\ Heads(heap') = Heads(heap) \ {n}
    BY <1>1, <2>1, ListFreedGood
  <2> QED
    BY <1>1, <2>1, <2>2 DEF IInv, Owned
<1>6. ASSUME NEW p \in Node, p \in heap.alive, heap' = ChildrenReleased(heap, p),
             held' = held, lost' = lost
      PROVE  Keeps
  <2>1. GoodHeap(heap') /\ Heads(heap') = Heads(heap)
    BY <1>1, <1>6, ChildrenReleasedGood
  <2> QED
    BY <1>1, <1>6, <2>1 DEF IInv, Owned
<1>7. ASSUME NEW p \in Node, DumpRelease(p) PROVE Keeps
  BY <1>6, <1>7 DEF DumpRelease, Known
<1>8. ASSUME NEW n \in Node, Reset(n) PROVE Keeps
  <2>1. n \in heap.alive
    BY <1>1, <1>8 DEF Reset, Heads
  <2> QED
    BY <1>6, <1>8, <2>1 DEF Reset
<1>9. ASSUME NEW p \in Node, DbRelease(p) PROVE Keeps
  <2>1. /\ p \in heap.alive /\ heap.children[p] # NULL
        /\ heap' = Freed(heap, heap.children[p]) /\ held' = held /\ lost' = lost
    BY <1>9 DEF DbRelease, Known
  <2>2. GoodHeap(heap') /\ Heads(heap') = Heads(heap)
    BY <1>1, <2>1, ChildFreedGood
  <2> QED
    BY <1>1, <2>1, <2>2 DEF IInv, Owned
<1>10. ASSUME NEW p \in Node, NEW c \in Node, AddChild(p, c) PROVE Keeps
  <2>1. PICK t \in Node : /\ c \in held /\ p \in heap.alive /\ p \notin Reach(heap, c)
                          /\ IsTail(heap, c, t) /\ heap' = AddedChild(heap, p, c, t)
                          /\ held' = held \ {c} /\ lost' = lost
    BY <1>10 DEF AddChild, Known
  <2>2. GoodHeap(heap') /\ Heads(heap') = Heads(heap) \ {c}
    BY <1>1, <2>1, AddedChildGood
  <2> QED
    BY <1>1, <2>1, <2>2 DEF IInv, Owned
<1>11. ASSUME NEW l \in Node, NEW n \in Node, AddSibling(l, n) PROVE Keeps
  <2>1. PICK t \in Node : /\ n \in held \/ n \in heap.alive
                          /\ n \in held \/ (heap.parent[n] # NULL /\ heap.next[n] = NULL)
                          /\ l \in heap.alive /\ l \notin Reach(heap, n)
                          /\ n \notin ListFrom(heap, l) /\ IsTail(heap, l, t)
                          /\ heap' = AddedSibling(heap, t, n) /\ held' = held \ {n}
                          /\ lost' = lost \cup ({heap.next[n]} \ {NULL})
    BY <1>11 DEF AddSibling, Known
  <2>2. n \in heap.alive
    BY <1>1, <2>1
  <2>3. GoodHeap(heap') /\ Heads(heap') = Heads(Unlinked(heap, n)) \ {n}
    BY <1>1, <2>1, <2>2, AddedSiblingGood
  <2>4. Heads(Unlinked(heap, n)) = Heads(heap) \cup {n} \cup ({heap.next[n]} \ {NULL})
    <3>1. CASE n \in held
      BY <1>1, <2>2, <3>1, UnlinkedHeads
    <3>2. CASE heap.parent[n] # NULL /\ heap.next[n] = NULL
      BY <1>1, <2>2, <3>2, UnlinkedHeads
    <3> QED BY <2>1, <3>1, <3>2
  <2>5. heap.next[n] # n /\ heap.next[n] \notin Heads(heap)
    BY <1>1, <2>2, NextNoHead
  <2>6. n \notin lost
    BY <1>1, <2>1 DEF IsHead
  <2> QED
    BY <1>1, <2>1, <2>3, <2>4, <2>5, <2>6 DEF IInv, Owned
<1>12. ASSUME NEW p \in Node, NEW c \in Node, ResolveLink(p, c) PROVE Keeps
  <2> DEFINE h == IF heap.children[p] = NULL THEN heap ELSE Freed(heap, heap.children[p])
  <2>1. /\ p \in heap.alive /\ c \in Node \ heap.alive
        /\ heap' = AddedChild(Allocated(h, c), p, c, c) /\ held' = held /\ lost' = lost
    BY <1>12 DEF ResolveLink, Known
  <2>2. /\ GoodHeap(h) /\ Heads(h) = Heads(heap) /\ p \in h.alive /\ h.alive \subseteq heap.alive
    BY <1>1, <2>1, ChildFreedGood
  <2> HIDE DEF h
  <2>3. GoodHeap(heap') /\ Heads(heap') = Heads(heap)
    BY <2>1, <2>2, NewChildGood
  <2> QED
    BY <1>1, <2>1, <2>3 DEF IInv, Owned
<1>13. CASE UNCHANGED vars
  BY <1>13 DEF vars, IInv, Owned
<1> QED
  BY <1>2, <1>3, <1>4, <1>5, <1>7, <1>8, <1>9, <1>10, <1>11, <1>12, <1>13 DEF Next

(* The links of a good heap are links, and held nodes are nodes. *)
LEMMA InvTypes == IInv => TypeOK /\ LinksConsistent
BY DEF IInv, TypeOK, LinksConsistent, GoodHeap, Heap, Heads, Owned

(* In every reachable state each link is a node or NULL. *)
THEOREM Typing == Spec => []TypeOK
<1>1. IInv /\ [Next]_vars => IInv'
  BY StepInv
<1> QED
  BY InitInv, <1>1, InvTypes, PTL DEF Spec

(* Whatever is linked, unlinked and freed, in any order and on any number   *)
(* of nodes: no link dangles, parents and siblings agree about each other,   *)
(* and every loop over a list or up the parents ends.                       *)
THEOREM Consistency == Spec => []LinksConsistent
<1>1. IInv /\ [Next]_vars => IInv'
  BY StepInv
<1> QED
  BY InitInv, <1>1, InvTypes, PTL DEF Spec

(* The live lists are those whose heads the program holds, once each, and    *)
(* the rests that appending a list by its head drops: whatever else is done, *)
(* nothing leaks and nothing can be freed twice.                            *)
THEOREM Ownership == Spec => []Owned
<1>1. IInv /\ [Next]_vars => IInv'
  BY StepInv
<1>2. IInv => Owned
  BY DEF IInv
<1> QED
  BY InitInv, <1>1, <1>2, PTL DEF Spec


--------------------------------------------------------------------------------
(* The order of siblings *)

(* No node is behind one that is behind it. *)
LEMMA BehindOnce ==
  ASSUME NEW h, GoodHeap(h), NEW a \in h.alive, NEW b \in h.alive, Behind(h, a, b)
  PROVE  ~Behind(h, b, a)
<1> SUFFICES ASSUME Behind(h, b, a) PROVE FALSE
  OBVIOUS
<1> DEFINE L == ListFrom(h, a)
<1>1. h \in Heap /\ a \in Node /\ b \in Node /\ a # b /\ b \in L /\ a \in ListFrom(h, b)
  BY DEF GoodHeap, Heap, Behind
<1>2. L \subseteq ListFrom(h, b) /\ ListFrom(h, b) \subseteq L
  BY <1>1, ListFromStep, ListFromInd
<1>3. \A x \in L : x \in h.alive /\ h.prev[x] \in L
  BY <1>1, <1>2, ListNodes
<1>4. L \in SUBSET h.alive /\ L # {}
  BY <1>1, <1>3
<1> HIDE DEF L
<1> QED
  BY <1>3, <1>4 DEF GoodHeap, WellFormed, NoCycle

(* Lists of h that have lost nodes, if anything, in k. *)
Shrinks(h, k) == k \in Heap /\ \A x \in Node : ListFrom(k, x) \subseteq ListFrom(h, x)

(* A step from h to k keeps the order of siblings. *)
Ordered(h, k) == \A a, b \in h.alive \cap k.alive : Behind(h, a, b) => ~Behind(k, b, a)

LEMMA ShrunkOrdered == ASSUME NEW h, GoodHeap(h), NEW k, Shrinks(h, k) PROVE Ordered(h, k)
<1>1. h.alive \subseteq Node
  BY DEF GoodHeap, Heap
<1> QED
  BY <1>1, BehindOnce DEF Shrinks, Ordered, Behind

(* Links to the next node that stay as they are, go, or skip nodes. *)
LEMMA ShrinksWhen ==
  ASSUME NEW h \in Heap, NEW k \in Heap,
         \A x \in Node : k.next[x] # NULL =>
            k.next[x] = h.next[x] \/ (h.next[x] \in Node /\ k.next[x] = h.next[h.next[x]])
  PROVE  Shrinks(h, k)
<1> SUFFICES ASSUME NEW n \in Node PROVE ListFrom(k, n) \subseteq ListFrom(h, n)
  BY DEF Shrinks
<1>1. /\ n \in ListFrom(h, n) /\ ListFrom(h, n) \in SUBSET Node
      /\ \A x \in ListFrom(h, n) : h.next[x] # NULL => h.next[x] \in ListFrom(h, n)
  BY ListFromStep
<1>2. \A x \in ListFrom(h, n) : k.next[x] # NULL => k.next[x] \in ListFrom(h, n)
  BY <1>1, NodeAssumption
<1> QED
  BY <1>1, <1>2, ListFromInd

LEMMA ShrinksTwice == ASSUME NEW h, NEW k, NEW m, Shrinks(h, k), Shrinks(k, m) PROVE Shrinks(h, m)
BY DEF Shrinks

LEMMA UnlinkedShrinks == ASSUME NEW h, GoodHeap(h), NEW n \in h.alive PROVE Shrinks(h, Unlinked(h, n))
<1> DEFINE u == Unlinked(h, n)
<1>1. h \in Heap /\ n \in Node /\ NULL \notin Node
  BY NodeAssumption DEF GoodHeap, Heap
<1>2. u \in Heap
  BY UnlinkedGood DEF GoodHeap
<1>3. u.next = [x \in Node |-> IF x = n THEN NULL ELSE IF x = h.prev[n] THEN h.next[n] ELSE h.next[x]]
  BY DEF Unlinked
<1>4. h.prev[n] \in Node => h.next[h.prev[n]] = n
  BY <1>1 DEF GoodHeap, WellFormed, SiblingLinks
<1> HIDE DEF u
<1>5. \A x \in Node : u.next[x] # NULL =>
         u.next[x] = h.next[x] \/ (h.next[x] \in Node /\ u.next[x] = h.next[h.next[x]])
  BY <1>1, <1>3, <1>4
<1>6. Shrinks(h, u)
  BY <1>1, <1>2, <1>5, ShrinksWhen
<1> QED
  BY <1>6 DEF u

LEMMA KilledShrinks == ASSUME NEW h \in Heap, NEW D PROVE Shrinks(h, Killed(h, D))
<1> DEFINE k == Killed(h, D)
<1>1. k \in Heap /\ k.next = [x \in Node |-> IF x \in D THEN NULL ELSE h.next[x]]
  BY DEF Killed, Heap, Link
<1> HIDE DEF k
<1>2. Shrinks(h, k)
  BY <1>1, ShrinksWhen
<1> QED
  BY <1>2 DEF k

LEMMA FreedShrinks == ASSUME NEW h, GoodHeap(h), NEW n \in h.alive PROVE Shrinks(h, Freed(h, n))
<1> DEFINE u == Unlinked(h, n)
<1>1. Shrinks(h, u) /\ u \in Heap
  BY UnlinkedShrinks DEF Shrinks
<1>2. Shrinks(u, Killed(u, Reach(u, n)))
  <2> HIDE DEF u
  <2> QED BY <1>1, KilledShrinks
<1>3. Freed(h, n) = Killed(u, Reach(u, n))
  BY DEF Freed
<1> HIDE DEF u
<1> QED
  BY <1>1, <1>2, <1>3, ShrinksTwice

LEMMA ReleasedShrinks == ASSUME NEW h, GoodHeap(h), NEW p \in h.alive PROVE Shrinks(h, ChildrenReleased(h, p))
<1>1. h \in Heap
  BY DEF GoodHeap
<1>2. CASE h.children[p] = NULL
  BY <1>1, <1>2, ShrinksWhen DEF ChildrenReleased
<1>3. CASE h.children[p] # NULL
  <2> DEFINE u == UnlinkedDescendants(h, p)
             c == h.children[p]
  <2>1. u \in Heap /\ u.next = h.next
    BY <1>1, <1>3 DEF UnlinkedDescendants, Heap, Link
  <2>2. ChildrenReleased(h, p) = Killed(u, Reach(u, c))
    BY <1>3 DEF ChildrenReleased, ListFreed
  <2> HIDE DEF u, c
  <2>3. Shrinks(h, u) /\ Shrinks(u, Killed(u, Reach(u, c)))
    BY <1>1, <2>1, ShrinksWhen, KilledShrinks
  <2> QED
    BY <2>2, <2>3, ShrinksTwice
<1> QED
  BY <1>2, <1>3

(* What is behind b when the list of c is appended to a list behind e. *)
LEMMA AppendedList ==
  ASSUME NEW h \in Heap, NEW k \in Heap, NEW e, NEW c \in Node, NEW b \in Node,
         \A x \in Node : k.next[x] = IF x = e THEN c ELSE h.next[x]
  PROVE  /\ ListFrom(k, b) \subseteq ListFrom(h, b) \cup ListFrom(h, c)
         /\ e \notin ListFrom(h, b) => ListFrom(k, b) \subseteq ListFrom(h, b)
<1> DEFINE X == ListFrom(h, b) \cup ListFrom(h, c)
<1>1. ListFrom(k, b) \subseteq X
  <2>1. /\ c \in X /\ b \in X /\ X \in SUBSET Node
        /\ \A x \in X : h.next[x] # NULL => h.next[x] \in X
    BY ListFromStep
  <2> HIDE DEF X
  <2>2. \A x \in X : k.next[x] # NULL => k.next[x] \in X
    BY <2>1
  <2> QED BY <2>1, <2>2, ListFromInd
<1>2. ASSUME e \notin ListFrom(h, b) PROVE ListFrom(k, b) \subseteq ListFrom(h, b)
  <2> DEFINE Y == ListFrom(h, b)
  <2>1. Y \in SUBSET Node /\ b \in Y /\ \A x \in Y : k.next[x] # NULL => k.next[x] \in Y
    BY <1>2, ListFromStep
  <2>2. ListFrom(k, b) \subseteq Y
    <3> HIDE DEF Y
    <3> QED BY <2>1, ListFromInd
  <2> QED BY <2>2
<1> QED
  BY <1>1, <1>2

(* The list that is appended has no parent, the list it goes behind has one. *)
LEMMA AddedChildOrdered ==
  ASSUME NEW h, GoodHeap(h), NEW c \in h.alive, h.parent[c] = NULL, NEW p \in h.alive, NEW t,
         AddedChild(h, p, c, t) \in Heap
  PROVE  /\ Ordered(h, AddedChild(h, p, c, t))
         /\ \A b \in Node : ListFrom(AddedChild(h, p, c, t), b) \subseteq ListFrom(h, b) \cup ListFrom(h, c)
<1> DEFINE k == AddedChild(h, p, c, t)
           e == IF h.children[p] = NULL THEN NULL ELSE h.last[p]
<1>1. h \in Heap /\ h.alive \subseteq Node /\ NULL \notin Node /\ k \in Heap
  BY NodeAssumption DEF GoodHeap, Heap
<1>2. \A x \in Node : k.next[x] = IF x = e THEN c ELSE h.next[x]
  BY <1>1 DEF AddedChild
<1>3. e # NULL => h.parent[e] = p
  BY DEF GoodHeap, WellFormed, ParentLinks
<1> HIDE DEF k, e
<1>4. \A b \in Node : /\ ListFrom(k, b) \subseteq ListFrom(h, b) \cup ListFrom(h, c)
                      /\ e \notin ListFrom(h, b) => ListFrom(k, b) \subseteq ListFrom(h, b)
  BY <1>1, <1>2, AppendedList
<1>5. ASSUME NEW a \in h.alive, NEW b \in h.alive, Behind(h, a, b), Behind(k, b, a) PROVE FALSE
  <2>1. a \notin ListFrom(h, b)
    BY <1>5, BehindOnce DEF Behind
  <2>2. a \in ListFrom(h, c)
    BY <1>1, <1>4, <1>5, <2>1 DEF Behind
  <2>3. h.parent[a] = NULL /\ h.parent[b] = h.parent[a]
    BY <1>5, <2>2, ListNodes DEF Behind
  <2>4. e \notin ListFrom(h, b)
    <3> SUFFICES ASSUME e \in ListFrom(h, b) PROVE FALSE
      OBVIOUS
    <3>1. e \in h.alive /\ h.parent[e] = NULL
      BY <2>3, ListNodes
    <3> QED BY <1>1, <1>3, <3>1
  <2> QED
    BY <1>1, <1>4, <1>5, <2>1, <2>4 DEF Behind
<1>6. Ordered(h, k)
  BY <1>5 DEF Ordered
<1> QED
  BY <1>4, <1>6 DEF k

(* The node that is appended leaves its own list, and what is behind it there. *)
LEMMA AddedSiblingOrdered ==
  ASSUME NEW h, GoodHeap(h), NEW n \in h.alive, NEW l \in h.alive, NEW t,
         l \notin Reach(h, n), n \notin ListFrom(h, l), IsTail(h, l, t)
  PROVE  Ordered(h, AddedSibling(h, t, n))
<1> DEFINE u == Unlinked(h, n)
           k == AddedSibling(h, t, n)
<1>1. h \in Heap /\ h.alive \subseteq Node /\ NULL \notin Node /\ k \in Heap /\ n \in Node
  BY NodeAssumption, AddedSiblingGood DEF GoodHeap, Heap
<1>2. u \in Heap /\ \A x \in Node : ListFrom(u, x) \subseteq ListFrom(h, x)
  BY UnlinkedShrinks DEF Shrinks
<1>3. /\ \A x \in Node : k.next[x] = IF x = t THEN n ELSE u.next[x]
      /\ u.next[n] = NULL
  BY <1>1 DEF AddedSibling, Unlinked
<1> HIDE DEF u, k
<1>4. \A b \in Node : /\ ListFrom(k, b) \subseteq ListFrom(u, b) \cup ListFrom(u, n)
                      /\ t \notin ListFrom(u, b) => ListFrom(k, b) \subseteq ListFrom(u, b)
  BY <1>1, <1>2, <1>3, AppendedList
<1>5. ListFrom(u, n) \subseteq {n}
  <2> DEFINE T == {n}
  <2>1. T \in SUBSET Node /\ n \in T /\ \A x \in T : u.next[x] # NULL => u.next[x] \in T
    BY <1>1, <1>3
  <2> HIDE DEF T
  <2>2. ListFrom(u, n) \subseteq T
    BY <1>1, <1>2, <2>1, ListFromInd
  <2> QED BY <2>2 DEF T
<1>6. ASSUME NEW a \in h.alive, NEW b \in h.alive, Behind(h, a, b), Behind(k, b, a) PROVE FALSE
  <2>1. a \notin ListFrom(h, b)
    BY <1>6, BehindOnce DEF Behind
  <2>2. a = n
    BY <1>1, <1>2, <1>4, <1>5, <1>6, <2>1 DEF Behind
  <2>3. t \notin Reach(h, n)
    BY TailApart
  <2>4. ListFrom(h, b) \subseteq ListFrom(h, n) /\ ListFrom(h, n) \subseteq Reach(h, n)
    BY <1>1, <1>6, <2>2, ListFromStep, ListFromInd, ReachStep, ListInReach DEF Behind
  <2>5. t \notin ListFrom(u, b)
    BY <1>1, <1>2, <2>3, <2>4
  <2> QED
    BY <1>1, <1>2, <1>4, <1>6, <2>1, <2>5 DEF Behind
<1>7. Ordered(h, k)
  BY <1>6 DEF Ordered
<1> QED
  BY <1>7 DEF k

(* Every operation keeps the order of the siblings it leaves siblings. *)
LEMMA StepOrdered == ASSUME IInv, IInv', [Next]_vars PROVE Ordered(heap, heap')
<1>1. /\ GoodHeap(heap) /\ GoodHeap(heap') /\ heap \in Heap /\ heap' \in Heap
      /\ held \subseteq Heads(heap) /\ heap.alive \subseteq Node
  BY DEF IInv, GoodHeap, Heap, Owned
<1>2. ASSUME NEW n \in Node, New(n) PROVE Ordered(heap, heap')
  <2>1. heap'.next = heap.next
    BY <1>1, <1>2 DEF New, Allocated, Heap
  <2> QED
    BY <1>1, <2>1, ShrinksWhen, ShrunkOrdered
<1>3. ASSUME NEW n \in Node, ListUnlink(n) PROVE Ordered(heap, heap')
  BY <1>1, <1>3, UnlinkedShrinks, ShrunkOrdered DEF ListUnlink, Known
<1>4. ASSUME NEW n \in Node, Free(n) PROVE Ordered(heap, heap')
  BY <1>1, <1>4, FreedShrinks, ShrunkOrdered DEF Free, Known
<1>5. ASSUME NEW n \in Node, ListFree(n) PROVE Ordered(heap, heap')
  BY <1>1, <1>5, KilledShrinks, ShrunkOrdered DEF ListFree, ListFreed
<1>6. ASSUME NEW p \in Node, DumpRelease(p) PROVE Ordered(heap, heap')
  BY <1>1, <1>6, ReleasedShrinks, ShrunkOrdered DEF DumpRelease, Known
<1>7. ASSUME NEW p \in Node, DbRelease(p) PROVE Ordered(heap, heap')
  <2>1. heap.children[p] \in heap.alive
    BY <1>1, <1>7, ChildIsNoHead DEF DbRelease, Known
  <2> QED
    BY <1>1, <1>7, <2>1, FreedShrinks, ShrunkOrdered DEF DbRelease, Known
<1>8. ASSUME NEW n \in Node, Reset(n) PROVE Ordered(heap, heap')
  <2>1. n \in heap.alive
    BY <1>1, <1>8 DEF Reset, Heads
  <2> QED
    BY <1>1, <1>8, <2>1, ReleasedShrinks, ShrunkOrdered DEF Reset
<1>9. ASSUME NEW p \in Node, NEW c \in Node, AddChild(p, c) PROVE Ordered(heap, heap')
  <2>1. PICK t \in Node : c \in held /\ p \in heap.alive /\ heap' = AddedChild(heap, p, c, t)
    BY <1>9 DEF AddChild, Known
  <2>2. c \in heap.alive /\ heap.parent[c] = NULL
    BY <1>1, <2>1 DEF Heads, IsHead
  <2> QED
    BY <1>1, <2>1, <2>2, AddedChildOrdered
<1>10. ASSUME NEW l \in Node, NEW n \in Node, AddSibling(l, n) PROVE Ordered(heap, heap')
  <2>1. PICK t \in Node : /\ n \in held \/ n \in heap.alive
                          /\ l \in heap.alive /\ l \notin Reach(heap, n)
                          /\ n \notin ListFrom(heap, l) /\ IsTail(heap, l, t)
                          /\ heap' = AddedSibling(heap, t, n)
    BY <1>10 DEF AddSibling, Known
  <2>2. n \in heap.alive
    BY <1>1, <2>1 DEF Heads
  <2> QED
    BY <1>1, <2>1, <2>2, AddedSiblingOrdered
<1>11. ASSUME NEW p \in Node, NEW c \in Node, ResolveLink(p, c) PROVE Ordered(heap, heap')
  <2> DEFINE h == IF heap.children[p] = NULL THEN heap ELSE Freed(heap, heap.children[p])
             a == Allocated(h, c)
  <2>1. /\ p \in heap.alive /\ c \in Node \ heap.alive /\ heap' = AddedChild(a, p, c, c)
    BY <1>11 DEF ResolveLink, Known
  <2>2. GoodHeap(h) /\ p \in h.alive /\ h.alive \subseteq heap.alive
    BY <1>1, <2>1, ChildFreedGood
  <2>3. Shrinks(heap, h)
    <3>1. heap.children[p] # NULL => heap.children[p] \in heap.alive
      BY <1>1, <2>1, ChildIsNoHead
    <3> QED BY <1>1, <3>1, FreedShrinks, ShrinksWhen
  <2> HIDE DEF h
  <2>4. GoodHeap(a) /\ IsHead(a, c)
    BY <2>1, <2>2, AllocatedGood
  <2>5. a \in Heap /\ a.next = h.next /\ a.alive = h.alive \cup {c} /\ h \in Heap /\ h.next[c] = NULL
    BY <2>1, <2>2 DEF Allocated, GoodHeap, Heap, Cleared
  <2> HIDE DEF a
  <2>6. \A b \in Node : ListFrom(heap', b) \subseteq ListFrom(a, b) \cup ListFrom(a, c)
    BY <1>1, <2>1, <2>2, <2>4, <2>5, AddedChildOrdered DEF IsHead
  <2>7. Shrinks(heap, a)
    BY <2>3, <2>5, ShrinksWhen, ShrinksTwice
  <2>8. ListFrom(a, c) \subseteq {c}
    <3> DEFINE T == {c}
    <3>1. T \in SUBSET Node /\ c \in T /\ \A x \in T : a.next[x] # NULL => a.next[x] \in T
      BY <2>5
    <3> HIDE DEF T
    <3>2. ListFrom(a, c) \subseteq T
      BY <2>5, <3>1, ListFromInd
    <3> QED BY <3>2 DEF T
  <2>9. ASSUME NEW x \in heap.alive, NEW y \in heap.alive, Behind(heap, x, y), Behind(heap', y, x) PROVE FALSE
    <3>1. x \notin ListFrom(heap, y)
      BY <1>1, <2>9, BehindOnce DEF Behind
    <3>2. x # c /\ y \in Node
      BY <1>1, <2>1
    <3>3. x \in ListFrom(a, y)
      BY <2>6, <2>8, <2>9, <3>2 DEF Behind
    <3> QED
      BY <2>7, <3>1, <3>2, <3>3 DEF Shrinks
  <2> QED
    BY <2>9 DEF Ordered
<1>12. CASE UNCHANGED vars
  BY <1>1, <1>12, ShrinksWhen, ShrunkOrdered DEF vars
<1> QED
  BY <1>2, <1>3, <1>4, <1>5, <1>6, <1>7, <1>8, <1>9, <1>10, <1>11, <1>12 DEF Next

(* Siblings that stay siblings keep their order, whatever is appended,       *)
(* unlinked or freed around them, and lists of several nodes are appended.   *)
THEOREM Ordering == Spec => OrderKept
<1>1. IInv /\ [Next]_vars => IInv'
  BY StepInv
<1>2. IInv /\ IInv' /\ [Next]_vars =>
        [\A a, b \in heap.alive \cap heap'.alive : Behind(heap, a, b) => ~Behind(heap', b, a)]_vars
  BY StepOrdered DEF Ordered
<1> QED
  BY InitInv, <1>1, <1>2, PTL DEF Spec, OrderKept

--------------------------------------------------------------------------------
(* The file operations.  An operation maps a file system to its outcomes, so   *)
(* there is one lemma per operation on an arbitrary file system; the invariant *)
(* and the two action properties follow from them.                             *)

Disk == [File -> Content \cup {Nothing}]

(* What there is, is in a directory that is there.                          *)
Placed(d, s) == \A f \in File : d[f] # Nothing => DirOf(f) \in s

Sound(d, s) == d \in Disk /\ s \in SUBSET Directory /\ Placed(d, s)

(* Every readable file but f is the same in e. *)
ReadableKept(d, e, f) ==
  \A g \in File \ {f} : d[g] # Nothing /\ d[g].readable => e[g] = d[g]

SoundOutcome(o) == Sound(o.disk, o.dirs) /\ o.ok \in BOOLEAN

FileIInv == Sound(disk, dirs) /\ ok \in BOOLEAN

--------------------------------------------------------------------------------
(* Contents *)

LEMMA FileFacts ==
  /\ \A f \in File : DirOf(f) \in Directory /\ f[2] \in Base
  /\ \A p \in Directory, b \in Base : <<p, b>> \in File /\ DirOf(<<p, b>>) = p
BY DEF File, DirOf

(* The beginning of a content is one. *)
LEMMA PrefixContent ==
  ASSUME NEW c \in Content, NEW k \in Nat
  PROVE  Prefix(c, k) \in Content
<1>1. CASE k = 0
  BY <1>1 DEF Prefix, Content
<1>2. CASE k # 0
  BY <1>2 DEF Prefix, Content
<1> QED BY <1>1, <1>2

LEMMA GetContentType ==
  ASSUME NEW c \in Content \cup {Nothing}, c # Nothing
  PROVE  GetContent(c) \subseteq Content \cup {Nothing}
BY PrefixContent DEF GetContent

(* What is written over a file is a content, whatever was read. *)
LEMMA SavedType ==
  ASSUME NEW old \in Content \cup {Nothing}, NEW c \in Content, NEW x \in Saved(old, c)
  PROVE  x[1] \in Content /\ x[2] \in BOOLEAN
<1> DEFINE size == IF c.blocks > 0 THEN c.blocks ELSE IF old = Nothing THEN 0 ELSE old.blocks
           data == [of |-> IF c.blocks > 0 THEN c.of ELSE Garbage, blocks |-> size,
                    readable |-> old = Nothing \/ old.readable]
<1>1. size \in Nat
  BY DEF Content
<1>2. data \in Content
  <2>1. c.of \in Version \cup {Garbage, Nothing}
    BY DEF Content
  <2>2. (old = Nothing \/ old.readable) \in BOOLEAN
    OBVIOUS
  <2> HIDE DEF size
  <2> QED
    BY <1>1, <2>1, <2>2 DEF Content
<1> HIDE DEF size, data
<1>3. ASSUME NEW k \in 0..size, x = <<Prefix(data, k), FALSE>>
      PROVE  x[1] \in Content /\ x[2] \in BOOLEAN
  BY <1>1, <1>2, <1>3, PrefixContent
<1>4. ASSUME x = <<data, TRUE>>
      PROVE  x[1] \in Content /\ x[2] \in BOOLEAN
  BY <1>2, <1>4
<1> QED
  BY <1>3, <1>4 DEF Saved, data, size

--------------------------------------------------------------------------------
(* The operations *)

(* Putting a content writes its target only. *)
LEMMA PutContentSound ==
  ASSUME NEW d, NEW s, Sound(d, s), NEW t \in File, DirOf(t) \in s, NEW c \in Content,
         NEW o \in PutContent(d, s, t, c)
  PROVE  /\ SoundOutcome(o) /\ o.dirs = s
         /\ \A f \in File : f # t => o.disk[f] = d[f]
<1>1. CASE o = Outcome(d, s, FALSE)
  BY <1>1 DEF Outcome, SoundOutcome, Sound
<1>2. ASSUME NEW x \in Saved(d[t], c), o = Outcome([d EXCEPT ![t] = x[1]], s, x[2])
      PROVE  /\ SoundOutcome(o) /\ o.dirs = s
             /\ \A f \in File : f # t => o.disk[f] = d[f]
  <2>1. x[1] \in Content /\ x[2] \in BOOLEAN
    BY SavedType DEF Sound, Disk
  <2>2. o.disk = [d EXCEPT ![t] = x[1]] /\ o.dirs = s /\ o.ok = x[2]
    BY <1>2 DEF Outcome
  <2> QED
    BY <2>1, <2>2 DEF SoundOutcome, Sound, Disk, Placed
<1> QED
  BY <1>1, <1>2 DEF PutContent

(* Copying a content leaves everything but the target alone. *)
LEMMA CopyContentSound ==
  ASSUME NEW d, NEW s, Sound(d, s), NEW f \in File, d[f] # Nothing, NEW t \in File, DirOf(t) \in s,
         NEW o \in CopyContent(d, s, f, t)
  PROVE  /\ SoundOutcome(o) /\ o.dirs = s
         /\ \A g \in File : g # t => o.disk[g] = d[g]
<1>1. PICK c \in GetContent(d[f]) : o \in IF c = Nothing THEN {Outcome(d, s, TRUE)} ELSE PutContent(d, s, t, c)
  BY DEF CopyContent
<1>2. c \in Content \cup {Nothing}
  BY <1>1, GetContentType DEF Sound, Disk
<1>3. CASE c = Nothing
  <2>1. o.disk = d /\ o.dirs = s /\ o.ok = TRUE
    BY <1>1, <1>3 DEF Outcome
  <2> QED
    BY <2>1 DEF SoundOutcome
<1>4. CASE c # Nothing
  BY <1>1, <1>2, <1>4, PutContentSound
<1> QED BY <1>3, <1>4

(* Unlinking a file removes nothing else. *)
LEMMA UnlinkFileSound ==
  ASSUME NEW d, NEW s, Sound(d, s), NEW f \in File, NEW o \in UnlinkFile(d, s, f)
  PROVE  SoundOutcome(o)
<1>1. CASE o = Outcome(d, s, FALSE)
  BY <1>1 DEF Outcome, SoundOutcome, Sound
<1>2. CASE o = Outcome([d EXCEPT ![f] = Nothing], s, TRUE)
  BY <1>2 DEF Outcome, SoundOutcome, Sound, Disk, Placed
<1> QED
  BY <1>1, <1>2 DEF UnlinkFile

(* Making a directory makes one, or fails. *)
LEMMA MakeDirectorySound ==
  ASSUME NEW d, NEW s, Sound(d, s), NEW p \in Directory, NEW o \in MakeDirectory(d, s, p)
  PROVE  /\ SoundOutcome(o) /\ o.disk = d /\ (o.ok => p \in o.dirs)
         /\ s \subseteq o.dirs
<1>1. CASE p \in s
  <2>1. o.disk = d /\ o.dirs = s /\ o.ok = TRUE
    BY <1>1 DEF MakeDirectory, Outcome
  <2> QED
    BY <1>1, <2>1 DEF SoundOutcome
<1>2. CASE o = Outcome(d, s, FALSE)
  <2>1. o.disk = d /\ o.dirs = s /\ o.ok = FALSE
    BY <1>2 DEF Outcome
  <2> QED
    BY <2>1 DEF SoundOutcome
<1>3. CASE o = Outcome(d, s \cup {p}, TRUE)
  <2>1. o.disk = d /\ o.dirs = s \cup {p} /\ o.ok = TRUE
    BY <1>3 DEF Outcome
  <2> QED
    BY <2>1 DEF SoundOutcome, Sound, Placed
<1> QED
  BY <1>1, <1>2, <1>3 DEF MakeDirectory

(* Renaming gives the content to the target, which is not another readable   *)
(* file, or changes nothing.                                                 *)
LEMMA RenameSound ==
  ASSUME NEW d, NEW s, Sound(d, s), NEW f \in File, NEW t \in File, t # f, DirOf(t) \in s,
         NEW o \in Rename(d, s, f, t)
  PROVE  /\ SoundOutcome(o)
         /\ o.disk[f] = d[f] \/ o.disk[t] = d[f]
         /\ \A g \in File : g \notin {f, t} => o.disk[g] = d[g]
<1>1. CASE o = Outcome(d, s, FALSE) \/ o = Outcome(d, s, TRUE)
  <2>1. o.disk = d /\ o.dirs = s /\ (o.ok = TRUE \/ o.ok = FALSE)
    <3>1. CASE o = Outcome(d, s, FALSE)
      BY <3>1 DEF Outcome
    <3>2. CASE o = Outcome(d, s, TRUE)
      BY <3>2 DEF Outcome
    <3> QED BY <1>1, <3>1, <3>2
  <2> QED
    BY <2>1 DEF SoundOutcome
<1>2. CASE o = Outcome([d EXCEPT ![f] = Nothing, ![t] = d[f]], s, TRUE)
  BY <1>2 DEF Outcome, SoundOutcome, Sound, Disk, Placed
<1> QED
  BY <1>1, <1>2 DEF Rename, Fallback

(* The target of a transfer is a file. *)
LEMMA TargetFileType ==
  ASSUME NEW f \in File, NEW t \in File \cup Directory
  PROVE  TargetFile(f, t) \in File
BY FileFacts DEF TargetFile

(* A copy keeps everything but its target, which is not its source. *)
LEMMA CopySound ==
  ASSUME NEW d, NEW s, Sound(d, s), NEW f \in File, NEW t \in File \cup Directory,
         NEW o \in Transferred(d, s, f, t, FALSE)
  PROVE  SoundOutcome(o) /\ o.disk[f] = d[f]
<1> DEFINE g == TargetFile(f, t)
<1>1. g \in File /\ DirOf(g) \in Directory
  BY TargetFileType, FileFacts
<1>2. CASE o = Outcome(d, s, FALSE)
  BY <1>2 DEF Outcome, SoundOutcome, Sound
<1>3. ASSUME NEW m \in MakeDirectory(d, s, DirOf(g)), d[f] # Nothing,
             o \in IF ~m.ok \/ Refused(d, f, t, FALSE) THEN {Outcome(d, m.dirs, FALSE)}
                   ELSE CopyContent(d, m.dirs, f, g)
      PROVE  SoundOutcome(o) /\ o.disk[f] = d[f]
  <2>1. Sound(d, m.dirs) /\ (m.ok => DirOf(g) \in m.dirs)
    BY <1>1, <1>3, MakeDirectorySound DEF SoundOutcome
  <2>2. CASE ~m.ok \/ Refused(d, f, t, FALSE)
    <3>1. o = Outcome(d, m.dirs, FALSE)
      BY <1>3, <2>2
    <3> QED
      BY <2>1, <3>1 DEF Outcome, SoundOutcome
  <2>3. CASE m.ok /\ ~Refused(d, f, t, FALSE)
    <3>1. o \in CopyContent(d, m.dirs, f, g) /\ DirOf(g) \in m.dirs
      BY <1>3, <2>1, <2>3
    <3>2. g # f
      BY <2>3 DEF Refused
    <3> HIDE DEF g
    <3>3. QED
      BY <1>1, <1>3, <2>1, <3>1, <3>2, CopyContentSound
  <2> QED BY <2>2, <2>3
<1> QED
  BY <1>2, <1>3 DEF Transferred

(* A move keeps what is moved and every readable file. *)
LEMMA MoveSound ==
  ASSUME NEW d, NEW s, Sound(d, s), NEW f \in File, NEW t \in File \cup Directory,
         NEW o \in Transferred(d, s, f, t, TRUE)
  PROVE  /\ SoundOutcome(o)
         /\ o.disk[f] = d[f] \/ o.disk[TargetFile(f, t)] = d[f]
         /\ ReadableKept(d, o.disk, f)
<1> DEFINE g == TargetFile(f, t)
<1>1. g \in File /\ DirOf(g) \in Directory
  BY TargetFileType, FileFacts
<1>2. CASE o = Outcome(d, s, FALSE)
  BY <1>2 DEF Outcome, SoundOutcome, Sound, ReadableKept
<1>3. ASSUME NEW m \in MakeDirectory(d, s, DirOf(g)), d[f] # Nothing,
             o \in IF ~m.ok \/ Refused(d, f, t, TRUE) THEN {Outcome(d, m.dirs, FALSE)}
                   ELSE Rename(d, m.dirs, f, g)
      PROVE  /\ SoundOutcome(o)
             /\ o.disk[f] = d[f] \/ o.disk[TargetFile(f, t)] = d[f]
             /\ ReadableKept(d, o.disk, f)
  <2>1. Sound(d, m.dirs) /\ (m.ok => DirOf(g) \in m.dirs)
    BY <1>1, <1>3, MakeDirectorySound DEF SoundOutcome
  <2>2. CASE ~m.ok \/ Refused(d, f, t, TRUE)
    <3>1. o = Outcome(d, m.dirs, FALSE)
      BY <1>3, <2>2
    <3> QED
      BY <2>1, <3>1 DEF Outcome, SoundOutcome, ReadableKept
  <2>3. CASE m.ok /\ ~Refused(d, f, t, TRUE)
    <3>1. o \in Rename(d, m.dirs, f, g) /\ DirOf(g) \in m.dirs
      BY <1>3, <2>1, <2>3
    <3>2. g # f /\ ~(d[g] # Nothing /\ d[g].readable)
      BY <2>3 DEF Refused
    <3> HIDE DEF g
    <3>3. /\ SoundOutcome(o)
          /\ o.disk[f] = d[f] \/ o.disk[g] = d[f]
          /\ \A h \in File : h \notin {f, g} => o.disk[h] = d[h]
      BY <1>1, <1>3, <2>1, <3>1, <3>2, RenameSound
    <3> QED
      BY <3>2, <3>3 DEF ReadableKept, g
  <2> QED BY <2>2, <2>3
<1> QED
  BY <1>2, <1>3 DEF Transferred

(* A directory that is removed leaves no file behind. *)
LEMMA DirectoryUnlinkedSound ==
  ASSUME NEW d, NEW s, Sound(d, s), NEW p \in Directory, NEW recursive \in BOOLEAN,
         NEW o \in DirectoryUnlinked(d, s, p, recursive)
  PROVE  SoundOutcome(o)
<1> DEFINE files == {f \in File : DirOf(f) = p /\ d[f] # Nothing}
           deletable == IF recursive /\ p \notin Locked THEN SUBSET files ELSE {{}}
           Without(S) == [f \in File |-> IF f \in S THEN Nothing ELSE d[f]]
<1>1. ASSUME NEW S
      PROVE  Without(S) \in Disk /\ Placed(Without(S), s)
  BY DEF Sound, Disk, Placed
<1>2. CASE o = Outcome(d, s, FALSE)
  BY <1>2 DEF Outcome, SoundOutcome, Sound
<1>3. CASE o = Outcome(Without(files), s \ {p}, TRUE)
  <2>1. Placed(Without(files), s \ {p})
    BY DEF Sound, Placed
  <2>2. o.disk = Without(files) /\ o.dirs = s \ {p} /\ o.ok = TRUE
    BY <1>3 DEF Outcome
  <2> HIDE DEF Without, files
  <2> QED
    BY <1>1, <2>1, <2>2 DEF SoundOutcome, Sound
<1>4. ASSUME NEW S, NEW f, o = Outcome(Without(S), s, f \in S)
      PROVE  SoundOutcome(o)
  <2>1. o.disk = Without(S) /\ o.dirs = s /\ o.ok = (f \in S)
    BY <1>4 DEF Outcome
  <2> HIDE DEF Without, files
  <2> QED
    BY <1>1, <2>1 DEF SoundOutcome, Sound
<1>5. CASE p \notin s
  BY <1>2, <1>5 DEF DirectoryUnlinked
<1>6. CASE p \in s
  <2> DEFINE Kept(S) == {Outcome(Without(S), s, f \in S) : f \in IF files = {} THEN {Nothing} ELSE files}
             Gone == IF p \in Locked \/ files \notin deletable THEN {}
                     ELSE {Outcome(Without(files), s \ {p}, TRUE)}
  <2>1. o \in Gone \cup UNION {Kept(S) : S \in deletable}
    BY <1>6 DEF DirectoryUnlinked
  <2>2. CASE o \in Gone
    BY <1>3, <2>2
  <2>3. ASSUME NEW S \in deletable, o \in Kept(S)
        PROVE  SoundOutcome(o)
    BY <1>4, <2>3
  <2> QED
    BY <2>1, <2>2, <2>3
<1> QED BY <1>5, <1>6

--------------------------------------------------------------------------------
(* The invariant and the theorems of the file operations *)

LEMMA FileInitIInv == FileInit => FileIInv
<1> SUFFICES ASSUME FileInit PROVE FileIInv
  OBVIOUS
<1>1. disk \in Disk
  BY InitialAssumption DEF FileInit, Disk
<1>2. dirs \in SUBSET Directory /\ Placed(disk, dirs)
  BY LockedAssumption, FileFacts DEF FileInit, Placed
<1> QED
  BY <1>1, <1>2 DEF FileInit, FileIInv, Sound

LEMMA FileStepIInv == FileIInv /\ [FileNext]_fileVars => FileIInv'
<1> SUFFICES ASSUME FileIInv, [FileNext]_fileVars PROVE FileIInv'
  OBVIOUS
<1>1. Sound(disk, dirs)
  BY DEF FileIInv
<1>2. ASSUME NEW outcomes, Yields(outcomes), \A o \in outcomes : SoundOutcome(o)
      PROVE  FileIInv'
  BY <1>2 DEF Yields, SoundOutcome, FileIInv, Sound, Placed
<1>3. ASSUME NEW f \in File, NEW t \in File \cup Directory, Copy(f, t) \/ Move(f, t)
      PROVE  FileIInv'
  BY <1>1, <1>2, <1>3, CopySound, MoveSound DEF Copy, Move
<1>4. ASSUME NEW f \in File, Delete(f)
      PROVE  FileIInv'
  BY <1>1, <1>2, <1>4, UnlinkFileSound DEF Delete
<1>5. ASSUME NEW p \in Directory, Mkdir(p)
      PROVE  FileIInv'
  BY <1>1, <1>2, <1>5, MakeDirectorySound DEF Mkdir
<1>6. ASSUME NEW p \in Directory, NEW recursive \in BOOLEAN, Rmdir(p, recursive)
      PROVE  FileIInv'
  BY <1>1, <1>2, <1>6, DirectoryUnlinkedSound DEF Rmdir
<1>7. CASE UNCHANGED fileVars
  BY <1>7 DEF fileVars, FileIInv, Sound, Placed
<1> QED
  BY <1>3, <1>4, <1>5, <1>6, <1>7 DEF FileNext

LEMMA FileInvariance == FileSpec => []FileIInv
BY FileInitIInv, FileStepIInv, PTL DEF FileSpec

(* A file is always in a directory that exists: a directory is made before   *)
(* anything is put into it, and removed only when all its files are gone,    *)
(* though removing them may stop halfway.                                    *)
THEOREM Placement == FileSpec => []Placed(disk, dirs)
<1>1. FileIInv => Placed(disk, dirs)
  BY DEF FileIInv, Sound
<1> QED
  BY <1>1, FileInvariance, PTL

(* A copy never changes its source.                                          *)
THEOREM CopyKeepsSource == FileSpec => SourceKept
<1> DEFINE A == \A f \in File, t \in File \cup Directory : Copy(f, t) => disk'[f] = disk[f]
<1>1. FileIInv /\ [FileNext]_fileVars => [A]_fileVars
  <2> SUFFICES ASSUME FileIInv, NEW f \in File, NEW t \in File \cup Directory, Copy(f, t)
               PROVE  disk'[f] = disk[f]
    OBVIOUS
  <2>1. PICK o \in Transferred(disk, dirs, f, t, FALSE) : disk' = o.disk
    BY DEF Copy, Yields
  <2> QED
    BY <2>1, CopySound DEF FileIInv
<1> QED
  BY <1>1, FileInvariance, PTL DEF FileSpec, SourceKept

(* A move, done or failed, destroys no content that can be read.             *)
THEOREM MoveKeepsContents == FileSpec => MoveLosesNothing
<1> DEFINE A == \A f \in File, t \in File \cup Directory : Move(f, t) =>
                  /\ disk[f] \in {disk'[f], disk'[TargetFile(f, t)]}
                  /\ \A g \in File \ {f} : disk[g] # Nothing /\ disk[g].readable => disk'[g] = disk[g]
<1>1. FileIInv /\ [FileNext]_fileVars => [A]_fileVars
  <2> SUFFICES ASSUME FileIInv, NEW f \in File, NEW t \in File \cup Directory, Move(f, t)
               PROVE  /\ disk[f] \in {disk'[f], disk'[TargetFile(f, t)]}
                      /\ \A g \in File \ {f} : disk[g] # Nothing /\ disk[g].readable => disk'[g] = disk[g]
    OBVIOUS
  <2>1. PICK o \in Transferred(disk, dirs, f, t, TRUE) : disk' = o.disk
    BY DEF Move, Yields
  <2>2. /\ o.disk[f] = disk[f] \/ o.disk[TargetFile(f, t)] = disk[f]
        /\ ReadableKept(disk, o.disk, f)
    BY <2>1, MoveSound DEF FileIInv
  <2> QED
    BY <2>1, <2>2 DEF ReadableKept
<1> QED
  BY <1>1, FileInvariance, PTL DEF FileSpec, MoveLosesNothing

================================================================================
