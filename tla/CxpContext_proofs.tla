------------------------- MODULE CxpContext_proofs -------------------------
(* Proofs about processing contexts, whatever the contexts, directories and   *)
(* search lists are: their tree is whole and released once at the end, errors *)
(* are counted exactly, no context may touch more than the main context with  *)
(* CGI, and on the command line a file is read where it was written.          *)
EXTENDS CxpContext, TLAPS, SequenceTheorems, FiniteSetTheorems, WellFoundedInduction

(* Functions that are defined by recursion *)

LEMMA LeastNat ==
  ASSUME NEW S \in SUBSET Nat, S # {}
  PROVE  \E i \in S : \A j \in S : i <= j
<1>1. PICK i \in S : \A j \in S : ~(<<j, i>> \in OpToRel(<, Nat))
  BY NatLessThanWellFounded, WFMin
<1>2. \A j \in S : ~(j < i)
  BY <1>1 DEF OpToRel
<1> QED
  BY <1>2

(* A function can be iterated: recursion over the numbers. *)
Iterates(f, a, h) == f[0] = a /\ \A n \in Nat \ {0} : f[n] = h[f[n - 1]]

LEMMA Iterate ==
  ASSUME NEW V, NEW a \in V, NEW h \in [V -> V]
  PROVE  \E f \in [Nat -> V] : Iterates(f, a, h)
<1> DEFINE Upto(n) == {g \in [0..n -> V] : g[0] = a /\ \A i \in 1..n : g[i] = h[g[i - 1]]}
<1>1. \A n \in Nat : Upto(n) # {}
  <2> DEFINE S == {n \in Nat : Upto(n) = {}}
  <2> SUFFICES ASSUME S # {} PROVE FALSE
    OBVIOUS
  <2>1. PICK i \in S : \A j \in S : i <= j
    <3>1. S \in SUBSET Nat
      OBVIOUS
    <3> HIDE DEF S
    <3> QED BY <3>1, LeastNat
  <2>2. i \in Nat /\ Upto(i) = {}
    OBVIOUS
  <2>3. i # 0
    <3>1. [x \in 0..0 |-> a] \in Upto(0)
      OBVIOUS
    <3> QED BY <2>2, <3>1
  <2>4. i - 1 \in Nat /\ i - 1 \notin S
    <3>1. i - 1 \in Nat /\ ~(i <= i - 1)
      BY <2>2, <2>3
    <3> HIDE DEF S
    <3> QED BY <2>1, <3>1
  <2>5. PICK g : g \in Upto(i - 1)
    BY <2>4
  <2> DEFINE k == [x \in 0..i |-> IF x = i THEN h[g[i - 1]] ELSE g[x]]
  <2>6. k \in [0..i -> V]
    <3>1. g[i - 1] \in V /\ \A x \in 0..i : x # i => g[x] \in V
      BY <2>4, <2>5
    <3> QED BY <3>1
  <2>7. k[0] = a /\ \A x \in 1..i : k[x] = h[k[x - 1]]
    <3>1. k[0] = a
      BY <2>2, <2>3, <2>5
    <3>2. ASSUME NEW x \in 1..i PROVE k[x] = h[k[x - 1]]
      <4>1. k[x - 1] = g[x - 1]
        BY <2>2
      <4>2. CASE x = i
        BY <2>2, <4>1, <4>2
      <4>3. CASE x # i
        BY <2>2, <2>5, <4>1, <4>3
      <4> QED BY <4>2, <4>3
    <3> QED BY <3>1, <3>2
  <2> QED
    BY <2>2, <2>6, <2>7
<1>2. ASSUME NEW n \in Nat, NEW m \in Nat, n <= m, NEW g \in Upto(n), NEW k \in Upto(m)
      PROVE  \A i \in 0..n : g[i] = k[i]
  <2> DEFINE S == {i \in 0..n : g[i] # k[i]}
  <2> SUFFICES ASSUME S # {} PROVE FALSE
    OBVIOUS
  <2>1. PICK i \in S : \A j \in S : i <= j
    <3>1. S \in SUBSET Nat
      OBVIOUS
    <3> HIDE DEF S
    <3> QED BY <3>1, LeastNat
  <2>2. i \in 0..n /\ g[i] # k[i] /\ i # 0
    OBVIOUS
  <2>3. i - 1 \in 0..n /\ ~(i <= i - 1)
    BY <2>2
  <2>4. g[i - 1] = k[i - 1]
    BY <2>1, <2>3
  <2>5. g[i] = h[g[i - 1]] /\ k[i] = h[k[i - 1]]
    BY <1>2, <2>2
  <2> QED
    BY <2>2, <2>4, <2>5
<1> DEFINE G(n) == CHOOSE g : g \in Upto(n)
           f == [n \in Nat |-> G(n)[n]]
<1>3. \A n \in Nat : G(n) \in Upto(n)
  BY <1>1
<1> HIDE DEF G
<1>4. \A n \in Nat : G(n)[n] \in V
  BY <1>3
<1>5. f[0] = a
  BY <1>3
<1>6. ASSUME NEW n \in Nat \ {0} PROVE f[n] = h[f[n - 1]]
  <2>1. n - 1 \in Nat /\ n - 1 <= n /\ n - 1 \in 0..(n - 1)
    OBVIOUS
  <2>2. G(n - 1)[n - 1] = G(n)[n - 1]
    <3> HIDE DEF Upto
    <3>1. n \in Nat /\ G(n - 1) \in Upto(n - 1) /\ G(n) \in Upto(n)
      BY <1>3, <2>1
    <3>2. \A i \in 0..(n - 1) : G(n - 1)[i] = G(n)[i]
      BY <1>2, <2>1, <3>1
    <3> QED BY <2>1, <3>2
  <2>3. G(n)[n] = h[G(n)[n - 1]]
    BY <1>3
  <2> QED
    BY <2>1, <2>2, <2>3
<1> QED
  BY <1>4, <1>5, <1>6 DEF Iterates

(* What follows from the members of lower rank holds for all. *)
LEMMA RankInduction ==
  ASSUME NEW C, NEW r \in [C -> Nat], NEW S \in SUBSET C,
         \A c \in C : (\A d \in C : r[d] < r[c] => d \in S) => c \in S
  PROVE  \A c \in C : c \in S
<1> SUFFICES ASSUME NEW x \in C, x \notin S PROVE FALSE
  OBVIOUS
<1> DEFINE N == {r[c] : c \in C \ S}
<1>1. N \in SUBSET Nat /\ N # {}
  OBVIOUS
<1>2. PICK i \in N : \A j \in N : i <= j
  <2> HIDE DEF N
  <2> QED BY <1>1, LeastNat
<1>3. PICK c \in C \ S : r[c] = i
  BY <1>2
<1>4. ASSUME NEW d \in C, r[d] < r[c] PROVE d \in S
  <2> SUFFICES ASSUME d \notin S PROVE FALSE
    OBVIOUS
  <2>1. r[d] \in N
    OBVIOUS
  <2>2. i <= r[d]
    BY <1>2, <2>1
  <2>3. r[d] \in Nat /\ r[c] \in Nat
    OBVIOUS
  <2> QED
    BY <1>3, <1>4, <2>2, <2>3
<1> QED
  BY <1>3, <1>4

(* A recursion that asks for values of lower rank only has a solution. *)
AsksBelow(h, C, T, r) ==
  \A g, k \in [C -> T] : \A c \in C :
     (\A d \in C : r[d] < r[c] => g[d] = k[d]) => h[g][c] = h[k][c]

Solves(g, h) == g = h[g]

LEMMA Recursion ==
  ASSUME NEW C, NEW T, NEW t \in T, NEW r \in [C -> Nat], NEW h \in [[C -> T] -> [C -> T]],
         AsksBelow(h, C, T, r)
  PROVE  \E g \in [C -> T] : Solves(g, h)
<1> DEFINE V == [C -> T]
           a == [c \in C |-> t]
<1>1. PICK f \in [Nat -> V] : f[0] = a /\ \A n \in Nat \ {0} : f[n] = h[f[n - 1]]
  <2>1. a \in V /\ h \in [V -> V]
    OBVIOUS
  <2>2. \E f \in [Nat -> V] : Iterates(f, a, h)
    <3> HIDE DEF V, a
    <3> QED BY <2>1, Iterate
  <2> QED
    BY <2>2 DEF Iterates
<1>2. ASSUME NEW n \in Nat PROVE f[n] \in [C -> T] /\ f[n + 1] = h[f[n]]
  <2>1. f[n] \in V
    BY <1>1
  <2>2. n + 1 \in Nat \ {0} /\ (n + 1) - 1 = n
    OBVIOUS
  <2> HIDE DEF V, a
  <2>3. f[n + 1] = h[f[n]]
    BY <1>1, <2>2
  <2> QED
    BY <2>1, <2>3 DEF V
<1>3. \A c \in C : r[c] \in Nat
  OBVIOUS
<1>4. \A n \in Nat : \A c \in C : r[c] < n => f[n + 1][c] = f[n][c]
  <2> DEFINE S == {n \in Nat : ~(\A c \in C : r[c] < n => f[n + 1][c] = f[n][c])}
  <2> SUFFICES ASSUME S # {} PROVE FALSE
    OBVIOUS
  <2>1. PICK n \in S : \A j \in S : n <= j
    <3>1. S \in SUBSET Nat
      OBVIOUS
    <3> HIDE DEF S
    <3> QED BY <3>1, LeastNat
  <2>2. PICK c \in C : r[c] < n /\ f[n + 1][c] # f[n][c]
    BY <2>1
  <2>3. n \in Nat /\ n # 0 /\ n - 1 \in Nat /\ (n - 1) + 1 = n /\ ~(n <= n - 1)
    BY <1>3, <2>1, <2>2
  <2>4. n - 1 \notin S
    <3> HIDE DEF S
    <3> QED BY <2>1, <2>3
  <2>5. ASSUME NEW d \in C, r[d] < r[c] PROVE f[n][d] = f[n - 1][d]
    <3>1. r[d] < n - 1
      BY <1>3, <2>2, <2>3, <2>5
    <3> QED
      BY <2>3, <2>4, <3>1
  <2>6. h[f[n]][c] = h[f[n - 1]][c]
    BY <1>2, <2>3, <2>5 DEF AsksBelow
  <2> QED
    BY <1>2, <2>2, <2>3, <2>6
<1>5. \A n \in Nat : \A c \in C : r[c] < n => f[n][c] = f[r[c] + 1][c]
  <2> DEFINE S == {n \in Nat : ~(\A c \in C : r[c] < n => f[n][c] = f[r[c] + 1][c])}
  <2> SUFFICES ASSUME S # {} PROVE FALSE
    OBVIOUS
  <2>1. PICK n \in S : \A j \in S : n <= j
    <3>1. S \in SUBSET Nat
      OBVIOUS
    <3> HIDE DEF S
    <3> QED BY <3>1, LeastNat
  <2>2. PICK c \in C : r[c] < n /\ f[n][c] # f[r[c] + 1][c]
    BY <2>1
  <2>3. /\ n \in Nat /\ n - 1 \in Nat /\ (n - 1) + 1 = n /\ ~(n <= n - 1)
        /\ r[c] < n - 1
    <3>1. n # r[c] + 1
      BY <2>2
    <3>2. n \in Nat /\ r[c] \in Nat /\ r[c] < n
      BY <1>3, <2>1, <2>2
    <3> QED
      BY ONLY <3>1, <3>2
  <2>4. n - 1 \notin S
    <3> HIDE DEF S
    <3> QED BY <2>1, <2>3
  <2>5. f[n - 1][c] = f[r[c] + 1][c]
    BY <2>3, <2>4
  <2>6. f[n][c] = f[n - 1][c]
    BY <1>4, <2>3
  <2> QED
    BY <2>2, <2>5, <2>6
<1> DEFINE g == [c \in C |-> f[r[c] + 1][c]]
<1>6. g \in [C -> T]
  BY <1>2, <1>3
<1>7. ASSUME NEW c \in C PROVE g[c] = h[g][c]
  <2>1. ASSUME NEW d \in C, r[d] < r[c] PROVE g[d] = f[r[c]][d]
    BY <1>3, <1>5, <2>1
  <2>2. f[r[c]] \in [C -> T] /\ f[r[c] + 1] = h[f[r[c]]]
    BY <1>2, <1>3
  <2>3. h[g][c] = h[f[r[c]]][c]
    <3> HIDE DEF g
    <3> QED BY <1>6, <2>1, <2>2 DEF AsksBelow
  <2> QED
    BY <2>2, <2>3
<1>8. h[g] \in [C -> T]
  BY <1>6
<1>9. g = h[g]
  <2> HIDE DEF g
  <2> QED BY <1>6, <1>7, <1>8
<1> QED
  BY <1>6, <1>9 DEF Solves

-----------------------------------------------------------------------------
(* The inductive invariant *)

OrNone(S) == S \cup {None}

CtxType ==
    [use : Uses, parent : OrNone(Ctxs), next : OrNone(Ctxs), child : OrNone(Ctxs),
     loc : OrNone(Dirs), root : OrNone(Dirs), search : Seq(Dirs), level : Int,
     open : BOOLEAN, count : Nat, own : Nat]

Typed == cgi \in BOOLEAN /\ ctx \in [Ctxs -> CtxType] /\ file \in SUBSET Dirs

(* Links of contexts that are in use lead to others, within their family. *)
Linked ==
    /\ Main \in Used /\ ctx[Main].parent = None
    /\ \A c \in Ctxs \ Used : ctx[c].parent = None /\ ctx[c].next = None /\ ctx[c].child = None
    /\ \A c \in Used \ {Main} : ctx[c].parent \in Used
    /\ \A c \in Used : ctx[c].next # None =>
          c # Main /\ ctx[c].next \in Used /\ ctx[ctx[c].next].parent = ctx[c].parent
    /\ \A c \in Used : ctx[c].child # None => ctx[c].child \in Used /\ ctx[ctx[c].child].parent = c

(* Every context but the main one is linked from exactly one other. *)
LinkedFrom(y, c) == y \in Used /\ (ctx[y].next = c \/ ctx[y].child = c)

LinkedOnce ==
    /\ \A c \in Used \ {Main} : \E y \in Used : LinkedFrom(y, c)
    /\ \A c \in Used : \A y, z \in Used : LinkedFrom(y, c) /\ LinkedFrom(z, c) => y = z
    /\ \A y \in Used : ctx[y].next # None => ctx[y].next # ctx[y].child

(* Contexts can be numbered in the order in which they were made: all links  *)
(* lead on, and parents come first.                                          *)
Births(b) ==
    \A c \in Used :
        /\ c # Main => b[ctx[c].parent] < b[c]
        /\ ctx[c].next # None => b[c] < b[ctx[c].next]
        /\ ctx[c].child # None => b[c] < b[ctx[c].child]

Born == \E n \in Nat : \E b \in [Ctxs -> 0..n] : Births(b)

Tree == Linked /\ LinkedOnce /\ Born

(* The parent of a context that is open is open. *)
Nested == ctx[Main].open /\ \A c \in Used \ {Main} : ctx[c].open => ctx[ctx[c].parent].open

(* What contexts have of their own. *)
Values ==
    /\ ctx[Main].loc # None /\ ctx[Main].root = IF cgi THEN Root ELSE None
    /\ \A c \in Ctxs \ {Main} : ctx[c].root = None
    /\ cgi => \A c \in Ctxs : ctx[c].search \in {<<>>, ctx[Main].search}

-----------------------------------------------------------------------------
(* The lists of ancestors and siblings *)

LEMMA ConsFacts ==
    ASSUME NEW S, NEW x \in S, NEW t \in Seq(S)
    PROVE  /\ <<x>> \o t \in Seq(S) /\ Len(<<x>> \o t) = Len(t) + 1 /\ Len(t) \in Nat
           /\ (<<x>> \o t)[1] = x /\ \A i \in 1..Len(t) : (<<x>> \o t)[i + 1] = t[i]
           /\ <<x>> \in Seq(S) /\ Len(<<x>>) = 1 /\ <<x>>[1] = x
<1>1. <<x>> \in Seq(S) /\ Len(<<x>>) = 1 /\ <<x>>[1] = x
  OBVIOUS
<1>2. Len(t) \in Nat
  OBVIOUS
<1>3. <<x>> \o t \in Seq(S) /\ Len(<<x>> \o t) = 1 + Len(t)
      /\ \A i \in 1..(1 + Len(t)) : (<<x>> \o t)[i] = IF i <= 1 THEN <<x>>[i] ELSE t[i - 1]
  BY <1>1, ConcatProperties
<1> QED
  BY <1>1, <1>2, <1>3

(* Up[c] leads from c to the main context. *)
LeadsUp(s, c) == s \in Seq(Used) /\ Len(s) \in Nat \ {0} /\ s[1] = c /\ s[Len(s)] = Main

LEMMA UpIs ==
    ASSUME Typed, Tree
    PROVE  \A c \in Ctxs : Up[c] = IF ctx[c].parent = None THEN <<c>> ELSE <<c>> \o Up[ctx[c].parent]
<1> DEFINE F(f) == [c \in Ctxs |-> IF ctx[c].parent = None THEN <<c>> ELSE <<c>> \o f[ctx[c].parent]]
           T == Seq(Ctxs)
           h == [f \in [Ctxs -> T] |-> F(f)]
<1>0. PICK n \in Nat : \E b \in [Ctxs -> 0..n] : Births(b)
  BY DEF Tree, Born
<1>1. PICK b \in [Ctxs -> 0..n] : Births(b)
  BY <1>0
<1>2. \A c \in Ctxs : ctx[c].parent # None => ctx[c].parent \in Ctxs /\ b[ctx[c].parent] < b[c]
  BY <1>1 DEF Tree, Linked, Births, Used
<1>3. h \in [[Ctxs -> T] -> [Ctxs -> T]]
  <2>1. ASSUME NEW f \in [Ctxs -> T], NEW c \in Ctxs PROVE F(f)[c] \in T
    <3>1. CASE ctx[c].parent = None
      BY <3>1
    <3>2. CASE ctx[c].parent # None
      <4>1. f[ctx[c].parent] \in Seq(Ctxs)
        BY <1>2, <3>2
      <4> QED BY <3>2, <4>1, ConsFacts
    <3> QED BY <3>1, <3>2
  <2> QED BY <2>1
<1>4. ASSUME NEW g \in [Ctxs -> T], NEW k \in [Ctxs -> T], NEW c \in Ctxs,
             \A d \in Ctxs : b[d] < b[c] => g[d] = k[d]
      PROVE  h[g][c] = h[k][c]
  <2>1. h[g][c] = F(g)[c] /\ h[k][c] = F(k)[c]
    OBVIOUS
  <2> QED
    BY <1>2, <1>4, <2>1
<1>5. PICK f \in [Ctxs -> T] : f = h[f]
  <2>1. <<>> \in T /\ b \in [Ctxs -> Nat]
    BY <1>1
  <2>2. AsksBelow(h, Ctxs, T, b)
    BY <1>4 DEF AsksBelow
  <2>3. \E f \in [Ctxs -> T] : Solves(f, h)
    <3> HIDE DEF T, h
    <3> QED BY <1>3, <2>1, <2>2, Recursion
  <2> QED BY <2>3 DEF Solves
<1>6. \E g : g = F(g)
  BY <1>5
<1>7. Up = CHOOSE g : g = F(g)
  BY DEF Up
<1>8. Up = F(Up)
  <2> HIDE DEF F
  <2> QED BY <1>6, <1>7
<1> QED
  BY <1>8

LEMMA UpLeads ==
    ASSUME Typed, Tree
    PROVE  \A c \in Used : LeadsUp(Up[c], c)
<1>0. PICK n \in Nat : \E b \in [Ctxs -> 0..n] : Births(b)
  BY DEF Tree, Born
<1>1. PICK b \in [Ctxs -> 0..n] : Births(b)
  BY <1>0
<1> DEFINE S == {c \in Ctxs : c \in Used => LeadsUp(Up[c], c)}
<1>2. ASSUME NEW c \in Ctxs, \A d \in Ctxs : b[d] < b[c] => d \in S PROVE c \in S
  <2> SUFFICES ASSUME c \in Used PROVE LeadsUp(Up[c], c)
    OBVIOUS
  <2>1. CASE c = Main
    <3>1. Up[c] = <<c>>
      BY <2>1, UpIs DEF Tree, Linked
    <3> QED
      BY <2>1, <3>1, ConsFacts DEF LeadsUp
  <2>2. CASE c # Main
    <3> DEFINE d == ctx[c].parent
    <3>1. d \in Used /\ d \in Ctxs /\ d # None /\ b[d] < b[c]
      BY <1>1, <2>2, CtxAssumption DEF Tree, Linked, Births, Used
    <3>2. LeadsUp(Up[d], d)
      BY <1>2, <3>1
    <3>3. Up[c] = <<c>> \o Up[d]
      BY <3>1, UpIs
    <3> HIDE DEF d
    <3>4. /\ Up[c] \in Seq(Used) /\ Len(Up[c]) = Len(Up[d]) + 1 /\ Up[c][1] = c
          /\ \A i \in 1..Len(Up[d]) : Up[c][i + 1] = Up[d][i]
      BY <3>2, <3>3, ConsFacts DEF LeadsUp
    <3> QED
      BY <3>2, <3>4 DEF LeadsUp
  <2> QED BY <2>1, <2>2
<1>3. \A c \in Ctxs : c \in S
  <2>1. S \in SUBSET Ctxs /\ b \in [Ctxs -> Nat]
    BY <1>1
  <2> HIDE DEF S
  <2> QED BY <1>2, <2>1, RankInduction
<1> QED
  BY <1>3 DEF Used

LEMMA SiblingsIs ==
    ASSUME Typed, Tree
    PROVE  \A c \in Ctxs : Siblings[c] = IF ctx[c].next = None THEN <<c>> ELSE <<c>> \o Siblings[ctx[c].next]
<1> DEFINE F(f) == [c \in Ctxs |-> IF ctx[c].next = None THEN <<c>> ELSE <<c>> \o f[ctx[c].next]]
           T == Seq(Ctxs)
           h == [f \in [Ctxs -> T] |-> F(f)]
<1>0. PICK n \in Nat : \E b \in [Ctxs -> 0..n] : Births(b)
  BY DEF Tree, Born
<1>1. PICK b \in [Ctxs -> 0..n] : Births(b)
  BY <1>0
<1> DEFINE r == [c \in Ctxs |-> n - b[c]]
<1>r. r \in [Ctxs -> Nat]
  BY <1>1
<1>2. \A c \in Ctxs : ctx[c].next # None => ctx[c].next \in Ctxs /\ r[ctx[c].next] < r[c]
  <2>1. \A c \in Ctxs : ctx[c].next # None => c \in Ctxs /\ ctx[c].next \in Ctxs /\ b[c] < b[ctx[c].next]
    BY <1>1 DEF Tree, Linked, Births, Used
  <2> QED
    BY <1>1, <2>1
<1>3. h \in [[Ctxs -> T] -> [Ctxs -> T]]
  <2>1. ASSUME NEW f \in [Ctxs -> T], NEW c \in Ctxs PROVE F(f)[c] \in T
    <3>1. CASE ctx[c].next = None
      BY <3>1
    <3>2. CASE ctx[c].next # None
      <4>1. f[ctx[c].next] \in Seq(Ctxs)
        BY <1>2, <3>2
      <4> QED BY <3>2, <4>1, ConsFacts
    <3> QED BY <3>1, <3>2
  <2> QED BY <2>1
<1>4. ASSUME NEW g \in [Ctxs -> T], NEW k \in [Ctxs -> T], NEW c \in Ctxs,
             \A d \in Ctxs : r[d] < r[c] => g[d] = k[d]
      PROVE  h[g][c] = h[k][c]
  <2>1. h[g][c] = F(g)[c] /\ h[k][c] = F(k)[c]
    OBVIOUS
  <2> HIDE DEF r
  <2> QED
    BY <1>2, <1>4, <2>1
<1>5. PICK f \in [Ctxs -> T] : f = h[f]
  <2>1. <<>> \in T
    OBVIOUS
  <2>2. AsksBelow(h, Ctxs, T, r)
    <3> HIDE DEF T, h, r
    <3> QED BY <1>4 DEF AsksBelow
  <2>3. \E f \in [Ctxs -> T] : Solves(f, h)
    <3> HIDE DEF T, h, r
    <3> QED BY <1>3, <1>r, <2>1, <2>2, Recursion
  <2> QED BY <2>3 DEF Solves
<1>6. \E g : g = F(g)
  BY <1>5
<1>7. Siblings = CHOOSE g : g = F(g)
  BY DEF Siblings
<1>8. Siblings = F(Siblings)
  <2> HIDE DEF F
  <2> QED BY <1>6, <1>7
<1> QED
  BY <1>8

\* s is the list of the siblings from c on
Lists(s, c) ==
    /\ s \in Seq(Used) /\ Len(s) \in Nat \ {0} /\ s[1] = c
    /\ \A i \in 1..Len(s) - 1 : ctx[s[i]].next = s[i + 1]
    /\ ctx[s[Len(s)]].next = None
    /\ \A i \in 1..Len(s) : ctx[s[i]].parent = ctx[c].parent

LEMMA SiblingsListed ==
    ASSUME Typed, Tree
    PROVE  \A c \in Used : Lists(Siblings[c], c)
<1>0. PICK n \in Nat : \E b \in [Ctxs -> 0..n] : Births(b)
  BY DEF Tree, Born
<1>1. PICK b \in [Ctxs -> 0..n] : Births(b)
  BY <1>0
<1> DEFINE r == [c \in Ctxs |-> n - b[c]]
           S == {c \in Ctxs : c \in Used => Lists(Siblings[c], c)}
<1>r. r \in [Ctxs -> Nat]
  BY <1>1
<1>2. ASSUME NEW c \in Ctxs, \A d \in Ctxs : r[d] < r[c] => d \in S PROVE c \in S
  <2> SUFFICES ASSUME c \in Used PROVE Lists(Siblings[c], c)
    OBVIOUS
  <2>1. CASE ctx[c].next = None
    <3>1. Siblings[c] = <<c>>
      BY <2>1, SiblingsIs
    <3> QED
      BY <2>1, <3>1, ConsFacts DEF Lists
  <2>2. CASE ctx[c].next # None
    <3> DEFINE d == ctx[c].next
               t == Siblings[d]
               s == Siblings[c]
    <3>1. d \in Used /\ d \in Ctxs /\ b[c] < b[d] /\ ctx[d].parent = ctx[c].parent
      BY <1>1, <2>2 DEF Tree, Linked, Births, Used
    <3>2. r[d] < r[c]
      BY <1>1, <3>1
    <3>3. Lists(t, d)
      <4> HIDE DEF r
      <4> QED BY <1>2, <3>1, <3>2
    <3>4. s = <<c>> \o t
      BY <2>2, SiblingsIs
    <3>5. ctx[c].next = d
      OBVIOUS
    <3> HIDE DEF d, s, t
    <3>6. /\ s \in Seq(Used) /\ Len(t) \in Nat \ {0} /\ Len(s) = Len(t) + 1 /\ s[1] = c
          /\ \A i \in 1..Len(t) : s[i + 1] = t[i]
      BY <3>3, <3>4, ConsFacts DEF Lists
    <3>7. ASSUME NEW i \in 1..Len(s) - 1 PROVE ctx[s[i]].next = s[i + 1]
      <4>1. CASE i = 1
        BY <3>3, <3>5, <3>6, <4>1 DEF Lists
      <4>2. CASE i # 1
        <5>1. i - 1 \in 1..Len(t) - 1 /\ i - 1 \in 1..Len(t) /\ i \in 1..Len(t) /\ (i - 1) + 1 = i
          BY <3>6, <4>2
        <5>2. s[i] = t[i - 1] /\ s[i + 1] = t[i] /\ ctx[t[i - 1]].next = t[i]
          BY <3>3, <3>6, <5>1 DEF Lists
        <5> QED BY <5>2
      <4> QED BY <4>1, <4>2
    <3>8. ctx[s[Len(s)]].next = None
      BY <3>3, <3>6 DEF Lists
    <3>9. ASSUME NEW i \in 1..Len(s) PROVE ctx[s[i]].parent = ctx[c].parent
      <4>1. CASE i = 1
        BY <3>6, <4>1
      <4>2. CASE i # 1
        <5>1. i - 1 \in 1..Len(t) /\ (i - 1) + 1 = i
          BY <3>6, <4>2
        <5>2. s[i] = t[i - 1]
          BY <3>6, <5>1
        <5> QED BY <3>1, <3>3, <5>1, <5>2 DEF Lists
      <4> QED BY <4>1, <4>2
    <3>10. Lists(s, c)
      BY <3>6, <3>7, <3>8, <3>9 DEF Lists
    <3> QED BY <3>10 DEF s
  <2> QED BY <2>1, <2>2
<1>3. \A c \in Ctxs : c \in S
  <2>1. S \in SUBSET Ctxs
    BY <1>1
  <2> HIDE DEF S, r
  <2> QED BY <1>2, <1>r, <2>1, RankInduction
<1> QED
  BY <1>3 DEF Used

-----------------------------------------------------------------------------
(* What a context inherits *)

LEMMA UsedFacts == Used \in SUBSET Ctxs /\ None \notin Used /\ (Typed => \A c \in Used : ctx[c] \in CtxType)
BY CtxAssumption DEF Used, Typed

\* The nearest of the contexts K up from c is one of them, and there is one if
\* the main context is in K
Hits(c, K) == {i \in 1..Len(Up[c]) : Up[c][i] \in K}
HitOf(c, H) == IF H = {} THEN None ELSE Up[c][CHOOSE i \in H : \A j \in H : i <= j]

LEMMA NearestIs ==
    ASSUME Typed, Tree, NEW c \in Used, NEW K \in SUBSET Ctxs, NEW H, H = Hits(c, K)
    PROVE  /\ HitOf(c, H) = None \/ (HitOf(c, H) \in Used /\ HitOf(c, H) \in K)
           /\ Main \in K => HitOf(c, H) # None
<1> DEFINE n == HitOf(c, H)
<1>1. LeadsUp(Up[c], c)
  BY UpLeads
<1>2. H \in SUBSET Nat /\ \A i \in H : Up[c][i] \in K /\ Up[c][i] \in Used
  BY <1>1 DEF LeadsUp, Hits
<1>3. Main \in K => H # {}
  BY <1>1 DEF LeadsUp, Hits
<1>4. H # {} => (CHOOSE i \in H : \A j \in H : i <= j) \in H
  BY <1>2, LeastNat
<1>5. H # {} => n \in Used /\ n \in K
  BY <1>2, <1>4 DEF HitOf
<1>6. H = {} => n = None
  BY DEF HitOf
<1> HIDE DEF n
<1> QED
  BY <1>3, <1>5, <1>6, UsedFacts DEF n

LEMMA LocationIs ==
    ASSUME Typed, Tree, Values, NEW c \in Used
    PROVE  LocationGet(c) \in Dirs
<1> DEFINE K == {x \in Ctxs : ctx[x].loc # None}
           H == {i \in 1..Len(Up[c]) : ctx[Up[c][i]].loc # None}
           n == IF H = {} THEN None ELSE Up[c][CHOOSE i \in H : \A j \in H : i <= j]
<1>1. H = Hits(c, K)
  BY UpLeads, UsedFacts DEF LeadsUp, Hits
<1>n. n = HitOf(c, H)
  BY DEF HitOf
<1>2. LocationGet(c) = IF n = None THEN None ELSE ctx[n].loc
  BY DEF LocationGet, Nearest
<1>3. Main \in K /\ K \in SUBSET Ctxs
  BY CtxAssumption DEF Values
<1>4. n \in Used /\ n \in K /\ n # None
  <2> HIDE DEF K, H, n
  <2>1. (n = None \/ (n \in Used /\ n \in K)) /\ (Main \in K => n # None)
    BY <1>1, <1>n, <1>3, NearestIs
  <2> QED BY <1>3, <2>1
<1>5. ctx[n].loc \in OrNone(Dirs) /\ ctx[n].loc # None
  BY <1>4, UsedFacts DEF CtxType
<1> QED
  BY <1>2, <1>4, <1>5 DEF OrNone

LEMMA RootIs ==
    ASSUME Typed, Tree, Values, NEW c \in Used
    PROVE  RootGet(c) = ctx[Main].root
<1> DEFINE K == {x \in Ctxs : ctx[x].root # None}
           H == {i \in 1..Len(Up[c]) : ctx[Up[c][i]].root # None}
           n == IF H = {} THEN None ELSE Up[c][CHOOSE i \in H : \A j \in H : i <= j]
<1>1. H = Hits(c, K)
  BY UpLeads, UsedFacts DEF LeadsUp, Hits
<1>n. n = HitOf(c, H)
  BY DEF HitOf
<1>2. RootGet(c) = IF n = None THEN None ELSE ctx[n].root
  BY DEF RootGet, Nearest
<1>3. K \in SUBSET {Main} /\ K \in SUBSET Ctxs /\ (ctx[Main].root # None => Main \in K) /\ Main # None
  BY CtxAssumption DEF Values
<1>4. (n = None \/ (n \in Used /\ n \in K)) /\ (Main \in K => n # None)
  <2> HIDE DEF K, H, n
  <2> QED BY <1>1, <1>n, <1>3, NearestIs
<1> HIDE DEF K, n, H
<1> QED
  BY <1>2, <1>3, <1>4

LEMMA SearchIs ==
    ASSUME Typed, Tree, Values, NEW c \in Used
    PROVE  /\ SearchGet(c) \in Seq(Dirs)
           /\ cgi => SearchGet(c) \in {<<>>, ctx[Main].search}
           /\ cgi => SearchGet(Main) = ctx[Main].search
<1>1. ASSUME NEW d \in Used
      PROVE  /\ SearchGet(d) = <<>> \/ \E x \in Used : SearchGet(d) = ctx[x].search
             /\ ctx[Main].search # <<>> => SearchGet(d) # <<>>
  <2> DEFINE K == {x \in Ctxs : ctx[x].search # <<>>}
             H == {i \in 1..Len(Up[d]) : ctx[Up[d][i]].search # <<>>}
             n == IF H = {} THEN None ELSE Up[d][CHOOSE i \in H : \A j \in H : i <= j]
  <2>1. H = Hits(d, K)
    BY UpLeads, UsedFacts DEF LeadsUp, Hits
  <2>n. n = HitOf(d, H)
    BY DEF HitOf
  <2>2. SearchGet(d) = IF n = None THEN <<>> ELSE ctx[n].search
    BY DEF SearchGet, Nearest
  <2>3. K \in SUBSET Ctxs /\ (ctx[Main].search # <<>> => Main \in K) /\ \A x \in K : ctx[x].search # <<>>
    BY CtxAssumption
  <2>4. (n = None \/ (n \in Used /\ n \in K)) /\ (Main \in K => n # None)
    <3> HIDE DEF K, H, n
    <3> QED BY <2>1, <2>n, <2>3, NearestIs
  <2> HIDE DEF K, n, H
  <2> QED
    BY <2>2, <2>3, <2>4
<1>2. \A x \in Used : ctx[x].search \in Seq(Dirs) /\ (cgi => ctx[x].search \in {<<>>, ctx[Main].search})
  BY UsedFacts DEF CtxType, Values
<1>3. SearchGet(c) \in Seq(Dirs)
  <2>1. <<>> \in Seq(Dirs)
    OBVIOUS
  <2> QED BY <1>1, <1>2, <2>1
<1>4. Main \in Used
  BY DEF Tree, Linked
<1>5. \A d \in Used : cgi => SearchGet(d) \in {<<>>, ctx[Main].search}
  BY <1>1, <1>2
<1> QED
  BY <1>1, <1>3, <1>4, <1>5

LEMMA LevelIs ==
    ASSUME Typed, Tree, NEW c \in Used
    PROVE  LevelGet(c) \in Int
<1> DEFINE K == {x \in Ctxs : ctx[x].level > -1}
           H == {i \in 1..Len(Up[c]) : ctx[Up[c][i]].level > -1}
           n == IF H = {} THEN None ELSE Up[c][CHOOSE i \in H : \A j \in H : i <= j]
<1>1. H = Hits(c, K)
  BY UpLeads, UsedFacts DEF LeadsUp, Hits
<1>n. n = HitOf(c, H)
  BY DEF HitOf
<1>2. LevelGet(c) = IF n = None THEN -1 ELSE ctx[n].level
  BY DEF LevelGet, Nearest
<1>3. K \in SUBSET Ctxs
  OBVIOUS
<1>4. n = None \/ n \in Used
  <2> HIDE DEF K, H, n
  <2> QED BY <1>1, <1>n, <1>3, NearestIs
<1> HIDE DEF K, n, H
<1> QED
  BY <1>2, <1>4, UsedFacts DEF CtxType

LEMMA Permissions == ASSUME Typed, Tree, Values PROVE PermittedInMain
<1> SUFFICES ASSUME cgi, NEW c \in Used, NEW d \in Dirs, AccessIsPermitted(c, d)
             PROVE  AccessIsPermitted(Main, d)
  BY DEF PermittedInMain
<1>1. Main \in Used /\ RootGet(c) = RootGet(Main)
  BY RootIs DEF Tree, Linked
<1>2. CASE RootGet(c) # None /\ d \in Below[RootGet(c)]
  BY <1>1, <1>2 DEF AccessIsPermitted
<1>3. CASE \E i \in 1..Len(Up[c]) : \E s \in {SearchGet(Up[c][i])[k] : k \in 1..Len(SearchGet(Up[c][i]))} :
             d \in Below[s]
  <2>1. PICK i \in 1..Len(Up[c]) : \E s \in {SearchGet(Up[c][i])[k] : k \in 1..Len(SearchGet(Up[c][i]))} :
             d \in Below[s]
    BY <1>3
  <2> DEFINE x == Up[c][i]
  <2>2. x \in Used
    BY UpLeads DEF LeadsUp
  <2>3. SearchGet(x) \in {<<>>, ctx[Main].search} /\ SearchGet(Main) = ctx[Main].search
    BY <2>2, SearchIs
  <2>4. PICK s \in {SearchGet(x)[k] : k \in 1..Len(SearchGet(x))} : d \in Below[s]
    BY <2>1
  <2>5. SearchGet(x) = SearchGet(Main)
    BY <2>3, <2>4
  <2>6. 1 \in 1..Len(Up[Main]) /\ Up[Main][1] = Main
    BY <1>1, UpLeads DEF LeadsUp
  <2>7. s \in {SearchGet(Up[Main][1])[k] : k \in 1..Len(SearchGet(Up[Main][1]))}
    BY <2>4, <2>5, <2>6
  <2> QED
    BY <2>4, <2>6, <2>7 DEF AccessIsPermitted
<1> QED
  BY <1>2, <1>3 DEF AccessIsPermitted

\* What reading tries and gets when it searches, too
Tried(c, u) == Candidates(c, u, TRUE)
Got(c, u) == ResolveRead(c, u, TRUE)

\* The first candidate that has the file is the i-th
LEMMA FirstCandidate ==
    ASSUME NEW c, NEW u, NEW i \in 1..4, Tried(c, u)[i] \in file,
           \A j \in 1..4 : j < i => Tried(c, u)[j] \notin file
    PROVE  Got(c, u) = IF AccessIsPermitted(c, Tried(c, u)[i]) THEN Tried(c, u)[i] ELSE None
<1> DEFINE tried == Tried(c, u)
           hits == {k \in DOMAIN tried : tried[k] \in file}
           first == tried[CHOOSE k \in hits : \A j \in hits : k <= j]
<1>1. DOMAIN tried = 1..4
  BY DEF Tried, Candidates
<1>2. i \in hits /\ hits \in SUBSET (1..4) /\ \A j \in hits : i <= j
  <2> HIDE DEF tried
  <2>1. tried[i] \in file /\ \A j \in 1..4 : j < i => tried[j] \notin file
    BY DEF tried
  <2> QED BY <1>1, <2>1
<1>3. (CHOOSE k \in hits : \A j \in hits : k <= j) = i
  <2> HIDE DEF hits
  <2>1. \A k \in hits : (\A j \in hits : k <= j) => k = i
    BY <1>2
  <2> QED BY <1>2, <2>1
<1>4. Got(c, u) = IF hits = {} \/ ~AccessIsPermitted(c, first) THEN None ELSE first
  BY DEF Got, ResolveRead, Tried
<1>5. first = tried[i]
  BY <1>3
<1> HIDE DEF hits, first
<1> QED
  BY <1>2, <1>4, <1>5

LEMMA ReadingBack == ASSUME Typed, Tree, Values PROVE ReadsBack
<1> SUFFICES ASSUME NEW c \in Used, NEW u \in Locs \cup {None},
                    ResolveWrite(c, u) \in file, AccessIsPermitted(c, ResolveWrite(c, u))
             PROVE  Got(c, u) =
                        IF ~cgi \/ LocationGet(c) \notin file \ {ResolveWrite(c, u)}
                        THEN ResolveWrite(c, u)
                        ELSE IF AccessIsPermitted(c, LocationGet(c)) THEN LocationGet(c) ELSE None
  BY DEF ReadsBack, Got
<1> DEFINE w == ResolveWrite(c, u)
           tried == Tried(c, u)
<1>1. tried[1] = LocationGet(c) /\ tried[2] = u /\ tried[3] = RootGet(c)
  BY DEF Tried, Candidates
<1>2. RootGet(c) = IF cgi THEN Root ELSE None
  BY RootIs DEF Values
<1>3. None \notin file /\ Root # None
  BY CtxAssumption, DirAssumption DEF Typed
<1>4. CASE LocationGet(c) \in file
  <2>1. Got(c, u) = IF AccessIsPermitted(c, tried[1]) THEN tried[1] ELSE None
    BY <1>1, <1>4, FirstCandidate
  <2>2. ~cgi => w = LocationGet(c)
    BY DEF ResolveWrite
  <2> QED
    BY <1>1, <1>4, <2>1, <2>2
<1>5. CASE LocationGet(c) \notin file
  <2>1. cgi
    BY <1>5 DEF ResolveWrite
  <2>2. CASE u # None
    <3>1. w = u
      BY <2>1, <2>2 DEF ResolveWrite
    <3>2. Got(c, u) = IF AccessIsPermitted(c, tried[2]) THEN tried[2] ELSE None
      <4>1. \A j \in 1..4 : j < 2 => j = 1
        OBVIOUS
      <4> QED BY <1>1, <1>5, <3>1, <4>1, FirstCandidate
    <3> QED BY <1>1, <1>5, <3>1, <3>2
  <2>3. CASE u = None
    <3>1. w = RootGet(c)
      BY <1>2, <1>3, <2>1, <2>3 DEF ResolveWrite
    <3>2. Got(c, u) = IF AccessIsPermitted(c, tried[3]) THEN tried[3] ELSE None
      <4>1. \A j \in 1..4 : j < 3 => j = 1 \/ j = 2
        OBVIOUS
      <4> QED BY <1>1, <1>3, <1>5, <2>3, <3>1, <4>1, FirstCandidate
    <3> QED BY <1>1, <1>5, <3>1, <3>2
  <2> QED BY <2>2, <2>3
<1> QED
  BY <1>4, <1>5

-----------------------------------------------------------------------------
(* A context is added to the tree *)

\* The contexts n are those of now and c, a new child of p that is linked from
\* l: from p itself if it is the first, or else from the last child
Attached(n, p, c, l) ==
    /\ n \in [Ctxs -> CtxType]
    /\ n[c].use # "unused" /\ n[c].parent = p /\ n[c].next = None /\ n[c].child = None
    /\ n[c].root = None /\ n[c].open /\ n[c].count = 0 /\ n[c].own = 0
    /\ \A x \in Ctxs \ {c} :
          /\ n[x].use = ctx[x].use /\ n[x].parent = ctx[x].parent /\ n[x].loc = ctx[x].loc
          /\ n[x].root = ctx[x].root /\ n[x].open = ctx[x].open
          /\ n[x].count = ctx[x].count /\ n[x].own = ctx[x].own
    /\ \A x \in Ctxs \ {c, l} : n[x].next = ctx[x].next /\ n[x].child = ctx[x].child
    /\ \/ /\ l = p /\ ctx[p].child = None
          /\ n[p].child = c /\ n[p].next = ctx[p].next
       \/ /\ l \in Used \ {Main} /\ ctx[l].parent = p /\ ctx[l].next = None
          /\ n[l].next = c /\ n[l].child = ctx[l].child

LEMMA NewIs ==
    \A use \in Uses : /\ New(use) \in CtxType /\ New(use).use = use /\ New(use).open
                      /\ New(use).next = None /\ New(use).child = None /\ New(use).root = None
                      /\ New(use).count = 0 /\ New(use).own = 0 /\ New(use).search = <<>>
<1>1. Blank \in CtxType
  BY DEF Blank, CtxType, OrNone, Uses
<1> QED
  BY <1>1 DEF New, Blank, CtxType

LEMMA AddChildIs ==
    ASSUME Typed, Tree, NEW p \in Used, NEW c \in Ctxs \ Used, NEW rec \in CtxType,
           rec.use # "unused", rec.next = None, rec.child = None, rec.root = None, rec.open,
           rec.count = 0, rec.own = 0
    PROVE  /\ \E l \in Used : Attached(AddChild(p, c, rec), p, c, l)
           /\ \A x \in Ctxs : AddChild(p, c, rec)[x].search = IF x = c THEN rec.search ELSE ctx[x].search
<1> DEFINE r == [rec EXCEPT !.parent = p]
           added == [ctx EXCEPT ![c] = r]
           n == AddChild(p, c, rec)
<1>1. ctx \in [Ctxs -> CtxType] /\ p \in Ctxs /\ c \in Ctxs /\ p # c
  BY UsedFacts DEF Typed
<1>2. /\ r \in CtxType /\ r.parent = p /\ r.use = rec.use /\ r.next = None /\ r.child = None /\ r.root = None
      /\ r.open /\ r.count = 0 /\ r.own = 0 /\ r.search = rec.search
  BY <1>1 DEF CtxType, OrNone
<1>3. CASE ctx[p].child = None
  <2> DEFINE q == [ctx[p] EXCEPT !.child = c]
  <2>1. /\ q \in CtxType /\ q.child = c /\ q.next = ctx[p].next /\ q.search = ctx[p].search
        /\ q.use = ctx[p].use /\ q.parent = ctx[p].parent /\ q.loc = ctx[p].loc
        /\ q.root = ctx[p].root /\ q.open = ctx[p].open /\ q.count = ctx[p].count /\ q.own = ctx[p].own
    BY <1>1 DEF CtxType, OrNone
  <2>2. n = [added EXCEPT ![p].child = c]
    BY <1>3 DEF AddChild, Children
  <2>3. n = [x \in Ctxs |-> IF x = c THEN r ELSE IF x = p THEN q ELSE ctx[x]]
    <3> HIDE DEF r
    <3> QED BY <1>1, <2>2
  <2> HIDE DEF n, r, q
  <2>4. n \in [Ctxs -> CtxType] /\ n[c] = r /\ n[p] = q /\ \A x \in Ctxs \ {c, p} : n[x] = ctx[x]
    BY <1>1, <1>2, <2>1, <2>3
  <2>5. Attached(n, p, c, p)
    BY <1>1, <1>2, <1>3, <2>1, <2>4 DEF Attached
  <2>6. \A x \in Ctxs : n[x].search = IF x = c THEN rec.search ELSE ctx[x].search
    BY <1>1, <1>2, <2>1, <2>4
  <2> QED
    BY <2>5, <2>6 DEF n
<1>4. CASE ctx[p].child # None
  <2> DEFINE d == ctx[p].child
             s == Siblings[d]
             l == s[Len(s)]
             q == [ctx[l] EXCEPT !.next = c]
  <2>1. d \in Used /\ ctx[d].parent = p
    BY <1>4 DEF Tree, Linked
  <2>2. Lists(s, d)
    BY <2>1, SiblingsListed
  <2>3. l \in Used /\ l \in Ctxs /\ ctx[l].next = None /\ ctx[l].parent = p /\ l # c /\ s # <<>>
    BY <2>1, <2>2, UsedFacts DEF Lists
  <2>4. l # Main
    BY <2>3, UsedFacts DEF Tree, Linked
  <2>5. /\ q \in CtxType /\ q.next = c /\ q.child = ctx[l].child /\ q.search = ctx[l].search
        /\ q.use = ctx[l].use /\ q.parent = ctx[l].parent /\ q.loc = ctx[l].loc
        /\ q.root = ctx[l].root /\ q.open = ctx[l].open /\ q.count = ctx[l].count /\ q.own = ctx[l].own
    <3> HIDE DEF l
    <3> QED BY <1>1, <2>3 DEF CtxType, OrNone
  <2>6. n = [added EXCEPT ![l].next = c]
    BY <1>4, <2>3 DEF AddChild, Children
  <2>7. n = [x \in Ctxs |-> IF x = c THEN r ELSE IF x = l THEN q ELSE ctx[x]]
    <3> HIDE DEF r, l
    <3> QED BY <1>1, <2>3, <2>6
  <2> HIDE DEF n, r, q, l, s, d
  <2>8. n \in [Ctxs -> CtxType] /\ n[c] = r /\ n[l] = q /\ \A x \in Ctxs \ {c, l} : n[x] = ctx[x]
    BY <1>1, <1>2, <2>3, <2>5, <2>7
  <2>9. Attached(n, p, c, l)
    BY <1>1, <1>2, <2>3, <2>4, <2>5, <2>8 DEF Attached
  <2>10. \A x \in Ctxs : n[x].search = IF x = c THEN rec.search ELSE ctx[x].search
    BY <1>1, <1>2, <2>3, <2>5, <2>8
  <2> QED
    BY <2>3, <2>9, <2>10 DEF n
<1> QED
  BY <1>3, <1>4

\* The tree stays one
LEMMA AttachTree ==
    ASSUME Typed, Tree, NEW p \in Used, NEW c \in Ctxs \ Used, NEW l \in Used, Attached(ctx', p, c, l)
    PROVE  Tree' /\ Used' = Used \cup {c}
<1>1. Used' = Used \cup {c} /\ p \in Ctxs /\ c # p /\ c # l /\ l \in Ctxs /\ c \in Ctxs /\ c # Main /\ Main \in Used
      /\ c # None /\ p # None
  BY UsedFacts, CtxAssumption DEF Used, Attached, Tree, Linked
<1>2. /\ ctx'[c].parent = p /\ ctx'[c].next = None /\ ctx'[c].child = None
      /\ \A x \in Ctxs \ {c} : ctx'[x].parent = ctx[x].parent
      /\ \A x \in Ctxs \ {c, l} : ctx'[x].next = ctx[x].next /\ ctx'[x].child = ctx[x].child
  BY DEF Attached
<1>3. \/ /\ l = p /\ ctx[p].child = None
         /\ ctx'[l].child = c /\ ctx'[l].next = ctx[l].next
      \/ /\ l # Main /\ ctx[l].parent = p /\ ctx[l].next = None
         /\ ctx'[l].next = c /\ ctx'[l].child = ctx[l].child
  BY DEF Attached
<1>4. \A x \in Used : x \in Ctxs \ {c}
  BY UsedFacts
<1>5. Linked'
  <2>1. Main \in Used' /\ ctx'[Main].parent = None
    BY <1>1, <1>2, <1>4 DEF Tree, Linked
  <2>2. \A x \in Ctxs \ Used' : ctx'[x].parent = None /\ ctx'[x].next = None /\ ctx'[x].child = None
    BY <1>1, <1>2 DEF Tree, Linked
  <2>3. \A x \in Used' \ {Main} : ctx'[x].parent \in Used'
    BY <1>1, <1>2, <1>4 DEF Tree, Linked
  <2>4. ASSUME NEW x \in Used', ctx'[x].next # None
        PROVE  x # Main /\ ctx'[x].next \in Used' /\ ctx'[ctx'[x].next].parent = ctx'[x].parent
    <3>1. x \in Used
      BY <1>1, <1>2, <2>4
    <3>2. CASE ctx'[x].next = ctx[x].next
      BY <1>1, <1>2, <1>4, <2>4, <3>1, <3>2 DEF Tree, Linked
    <3>3. CASE ctx'[x].next # ctx[x].next
      <4>1. x = l /\ l # Main /\ ctx[l].parent = p /\ ctx'[l].next = c
        BY <1>2, <1>3, <1>4, <3>1, <3>3
      <4> QED
        BY <1>1, <1>2, <1>4, <4>1
    <3> QED BY <3>2, <3>3
  <2>5. ASSUME NEW x \in Used', ctx'[x].child # None
        PROVE  ctx'[x].child \in Used' /\ ctx'[ctx'[x].child].parent = x
    <3>1. x \in Used
      BY <1>1, <1>2, <2>5
    <3>2. CASE ctx'[x].child = ctx[x].child
      BY <1>1, <1>2, <1>4, <2>5, <3>1, <3>2 DEF Tree, Linked
    <3>3. CASE ctx'[x].child # ctx[x].child
      <4>1. x = l /\ l = p /\ ctx'[l].child = c
        BY <1>2, <1>3, <1>4, <3>1, <3>3
      <4> QED
        BY <1>1, <1>2, <4>1
    <3> QED BY <3>2, <3>3
  <2> QED
    BY <2>1, <2>2, <2>3, <2>4, <2>5 DEF Linked
<1>6. \A y \in Used : ctx[y].next # c /\ ctx[y].child # c
  BY <1>1 DEF Tree, Linked
<1>7. \A y \in Used', x \in Used : LinkedFrom(y, x)' <=> LinkedFrom(y, x)
  <2>1. ASSUME NEW y \in Used', NEW x \in Used PROVE LinkedFrom(y, x)' <=> LinkedFrom(y, x)
    <3>1. CASE y = c
      BY <1>1, <1>2, <3>1, UsedFacts DEF LinkedFrom
    <3>2. CASE y # c /\ y # l
      BY <1>1, <1>2, <1>4, <3>2 DEF LinkedFrom
    <3>3. CASE y = l
      BY <1>1, <1>3, <3>3, UsedFacts DEF LinkedFrom
    <3> QED BY <3>1, <3>2, <3>3
  <2> QED BY <2>1
<1>8. \A y \in Used' : LinkedFrom(y, c)' <=> y = l
  <2>1. ASSUME NEW y \in Used' PROVE LinkedFrom(y, c)' <=> y = l
    <3>1. CASE y = c
      BY <1>1, <1>2, <3>1 DEF LinkedFrom
    <3>2. CASE y # c /\ y # l
      BY <1>1, <1>2, <1>4, <1>6, <3>2 DEF LinkedFrom
    <3>3. CASE y = l
      BY <1>1, <1>3, <3>3 DEF LinkedFrom
    <3> QED BY <3>1, <3>2, <3>3
  <2> QED BY <2>1
<1>9. LinkedOnce'
  <2>1. \A x \in Used' \ {Main} : \E y \in Used' : LinkedFrom(y, x)'
    BY <1>1, <1>7, <1>8 DEF Tree, LinkedOnce
  <2>2. \A x \in Used', y \in Used', z \in Used' : LinkedFrom(y, x)' /\ LinkedFrom(z, x)' => y = z
    <3>1. ASSUME NEW x \in Used', NEW y \in Used', NEW z \in Used', LinkedFrom(y, x)', LinkedFrom(z, x)' PROVE y = z
      <4>1. CASE x = c
        BY <1>8, <3>1, <4>1
      <4>2. CASE x # c
        <5>1. x \in Used /\ LinkedFrom(y, x) /\ LinkedFrom(z, x)
          BY <1>1, <1>7, <3>1, <4>2
        <5>2. y \in Used /\ z \in Used
          BY <5>1 DEF LinkedFrom
        <5> QED
          BY <5>1, <5>2 DEF Tree, LinkedOnce
      <4> QED BY <4>1, <4>2
    <3> QED BY <3>1
  <2>3. \A y \in Used' : ctx'[y].next # None => ctx'[y].next # ctx'[y].child
    <3>1. ASSUME NEW y \in Used', ctx'[y].next # None PROVE ctx'[y].next # ctx'[y].child
      <4>1. CASE y = c
        BY <1>2, <3>1, <4>1
      <4>2. CASE y # c /\ y # l
        BY <1>1, <1>2, <1>4, <3>1, <4>2 DEF Tree, LinkedOnce
      <4>3. CASE y = l
        BY <1>3, <1>6, <3>1, <4>3
      <4> QED BY <4>1, <4>2, <4>3
    <3> QED BY <3>1
  <2> QED
    BY <2>1, <2>2, <2>3 DEF LinkedOnce
<1>10. Born'
  <2>0. PICK m \in Nat : \E b \in [Ctxs -> 0..m] : Births(b)
    BY DEF Tree, Born
  <2>1. PICK b \in [Ctxs -> 0..m] : Births(b)
    BY <2>0
  <2> DEFINE e == [b EXCEPT ![c] = m + 1]
  <2>2. m + 1 \in Nat /\ e \in [Ctxs -> 0..m + 1] /\ e[c] = m + 1
        /\ \A x \in Used : e[x] = b[x] /\ b[x] < m + 1 /\ b[x] \in Nat
    BY <1>1, <1>4, <2>1
  <2> HIDE DEF e
  <2>3. Births(e)'
    <3>1. ASSUME NEW x \in Used', x # Main PROVE e[ctx'[x].parent] < e[x]
      <4>1. CASE x = c
        BY <1>1, <1>2, <2>2, <4>1
      <4>2. CASE x # c
        <5>1. x \in Used /\ ctx'[x].parent = ctx[x].parent /\ ctx[x].parent \in Used
          BY <1>1, <1>2, <1>4, <3>1, <4>2 DEF Tree, Linked
        <5> QED
          BY <2>1, <2>2, <3>1, <5>1 DEF Births
      <4> QED BY <4>1, <4>2
    <3>2. ASSUME NEW x \in Used', ctx'[x].next # None PROVE e[x] < e[ctx'[x].next]
      <4>1. x \in Used
        BY <1>1, <1>2, <3>2
      <4>2. CASE ctx'[x].next = ctx[x].next
        <5>1. ctx[x].next \in Used
          BY <3>2, <4>1, <4>2 DEF Tree, Linked
        <5> QED
          BY <2>1, <2>2, <3>2, <4>1, <4>2, <5>1 DEF Births
      <4>3. CASE ctx'[x].next # ctx[x].next
        <5>1. ctx'[x].next = c
          BY <1>2, <1>3, <1>4, <4>1, <4>3
        <5> QED BY <2>2, <4>1, <5>1
      <4> QED BY <4>2, <4>3
    <3>3. ASSUME NEW x \in Used', ctx'[x].child # None PROVE e[x] < e[ctx'[x].child]
      <4>1. x \in Used
        BY <1>1, <1>2, <3>3
      <4>2. CASE ctx'[x].child = ctx[x].child
        <5>1. ctx[x].child \in Used
          BY <3>3, <4>1, <4>2 DEF Tree, Linked
        <5> QED
          BY <2>1, <2>2, <3>3, <4>1, <4>2, <5>1 DEF Births
      <4>3. CASE ctx'[x].child # ctx[x].child
        <5>1. ctx'[x].child = c
          BY <1>2, <1>3, <1>4, <4>1, <4>3
        <5> QED BY <2>2, <4>1, <5>1
      <4> QED BY <4>2, <4>3
    <3> QED
      BY <3>1, <3>2, <3>3 DEF Births
  <2> QED
    BY <2>2, <2>3 DEF Born
<1> QED
  BY <1>1, <1>5, <1>9, <1>10 DEF Tree

-----------------------------------------------------------------------------
(* Sums over finite sets *)

\* g has the sums of f over the subsets of S
Sums(g, f, S) ==
    g = [X \in SUBSET S |-> IF X = {} THEN 0 ELSE LET d == CHOOSE x \in X : TRUE IN f[d] + g[X \ {d}]]

Total(f, S, v) == \E g : Sums(g, f, S) /\ v = g[S]

LEMMA SumsAre ==
    ASSUME NEW f, NEW S, NEW g, Sums(g, f, S), NEW X \in SUBSET S
    PROVE  /\ X = {} => g[X] = 0
           /\ X # {} => \E d \in X : d = (CHOOSE x \in X : TRUE) /\ g[X] = f[d] + g[X \ {d}]
<1> DEFINE F == [Y \in SUBSET S |-> IF Y = {} THEN 0 ELSE LET d == CHOOSE x \in Y : TRUE IN f[d] + g[Y \ {d}]]
<1>1. g = F
  BY DEF Sums
<1>2. g[X] = F[X]
  <2> HIDE DEF F
  <2> QED BY <1>1
<1>3. F[X] = IF X = {} THEN 0 ELSE f[CHOOSE x \in X : TRUE] + g[X \ {CHOOSE x \in X : TRUE}]
  OBVIOUS
<1>4. X # {} => (CHOOSE x \in X : TRUE) \in X
  OBVIOUS
<1> QED
  BY <1>2, <1>3, <1>4

\* Finite sets can be ranked by their size
LEMMA SizeRanks ==
    ASSUME NEW S, IsFiniteSet(S)
    PROVE  /\ [X \in SUBSET S |-> Cardinality(X)] \in [SUBSET S -> Nat]
           /\ \A X \in SUBSET S : \A d \in X :
                 X \ {d} \in SUBSET S /\ Cardinality(X \ {d}) < Cardinality(X)
<1>1. \A X \in SUBSET S : IsFiniteSet(X) /\ Cardinality(X) \in Nat
  BY FS_Subset, FS_CardinalityType
<1>2. ASSUME NEW X \in SUBSET S, NEW d \in X
      PROVE  X \ {d} \in SUBSET S /\ Cardinality(X \ {d}) < Cardinality(X)
  <2>1. Cardinality(X \ {d}) = Cardinality(X) - 1
    BY <1>1, FS_RemoveElement
  <2> QED
    BY <1>1, <2>1
<1> QED
  BY <1>1, <1>2

LEMMA SumsExist ==
    ASSUME NEW S, IsFiniteSet(S), NEW f, \A d \in S : f[d] \in Nat
    PROVE  \E g \in [SUBSET S -> Nat] : Sums(g, f, S)
<1> DEFINE C == SUBSET S
           F(g) == [X \in SUBSET S |-> IF X = {} THEN 0 ELSE LET d == CHOOSE x \in X : TRUE IN f[d] + g[X \ {d}]]
           h == [g \in [C -> Nat] |-> F(g)]
           r == [X \in C |-> Cardinality(X)]
<1>1. r \in [C -> Nat] /\ \A X \in C : \A d \in X : X \ {d} \in C /\ r[X \ {d}] < r[X]
  BY SizeRanks
<1>2. h \in [[C -> Nat] -> [C -> Nat]]
  <2>1. ASSUME NEW g \in [C -> Nat], NEW X \in C PROVE F(g)[X] \in Nat
    <3>1. CASE X = {}
      BY <3>1
    <3>2. CASE X # {}
      <4> DEFINE d == CHOOSE x \in X : TRUE
      <4>1. d \in X
        BY <3>2
      <4>2. f[d] \in Nat /\ g[X \ {d}] \in Nat
        BY <4>1
      <4>3. F(g)[X] = f[d] + g[X \ {d}]
        BY <3>2
      <4> HIDE DEF d
      <4> QED BY <4>2, <4>3
    <3> QED BY <3>1, <3>2
  <2> QED BY <2>1
<1>3. AsksBelow(h, C, Nat, r)
  <2>1. ASSUME NEW g \in [C -> Nat], NEW k \in [C -> Nat], NEW X \in C, \A Y \in C : r[Y] < r[X] => g[Y] = k[Y]
        PROVE  h[g][X] = h[k][X]
    <3>1. h[g][X] = F(g)[X] /\ h[k][X] = F(k)[X]
      OBVIOUS
    <3>2. CASE X = {}
      BY <3>1, <3>2
    <3>3. CASE X # {}
      <4> DEFINE d == CHOOSE x \in X : TRUE
      <4>1. d \in X
        BY <3>3
      <4>2. g[X \ {d}] = k[X \ {d}]
        <5> HIDE DEF d, r
        <5> QED BY <1>1, <2>1, <4>1
      <4>3. F(g)[X] = f[d] + g[X \ {d}] /\ F(k)[X] = f[d] + k[X \ {d}]
        BY <3>3
      <4> HIDE DEF d, F
      <4> QED BY <3>1, <4>2, <4>3
    <3> QED BY <3>2, <3>3
  <2> HIDE DEF h, r, C
  <2> QED BY <2>1 DEF AsksBelow
<1>4. \E g \in [C -> Nat] : Solves(g, h)
  <2>1. 0 \in Nat
    OBVIOUS
  <2> HIDE DEF C, h, r
  <2> QED BY <1>1, <1>2, <1>3, <2>1, Recursion
<1>5. PICK g \in [C -> Nat] : Solves(g, h)
  BY <1>4
<1>6. g = F(g)
  <2>1. h[g] = F(g)
    OBVIOUS
  <2> HIDE DEF h, F
  <2> QED BY <1>5, <2>1 DEF Solves
<1> QED
  BY <1>6 DEF Sums

\* Sums are unique
LEMMA SumsAgree ==
    ASSUME NEW S, IsFiniteSet(S), NEW R, NEW f, NEW g, NEW k, Sums(g, f, S), Sums(k, f, R),
           NEW X \in SUBSET S, X \in SUBSET R
    PROVE  g[X] = k[X]
<1> DEFINE C == SUBSET S
           r == [Y \in C |-> Cardinality(Y)]
           A == {Y \in C : Y \in SUBSET R => g[Y] = k[Y]}
<1>1. r \in [C -> Nat] /\ \A Y \in C : \A d \in Y : Y \ {d} \in C /\ r[Y \ {d}] < r[Y]
  BY SizeRanks
<1>2. ASSUME NEW Y \in C, \A Z \in C : r[Z] < r[Y] => Z \in A PROVE Y \in A
  <2> SUFFICES ASSUME Y \in SUBSET R PROVE g[Y] = k[Y]
    OBVIOUS
  <2>1. CASE Y = {}
    BY <2>1, SumsAre
  <2>2. CASE Y # {}
    <3>1. PICK d \in Y : d = (CHOOSE x \in Y : TRUE) /\ g[Y] = f[d] + g[Y \ {d}]
      BY <2>2, SumsAre
    <3>2. PICK e \in Y : e = (CHOOSE x \in Y : TRUE) /\ k[Y] = f[e] + k[Y \ {e}]
      BY <2>2, SumsAre
    <3>3. Y \ {d} \in A
      <4> HIDE DEF A, r
      <4> QED BY <1>1, <1>2
    <3>4. g[Y \ {d}] = k[Y \ {d}]
      BY <3>3
    <3> QED
      BY <3>1, <3>2, <3>4
  <2> QED BY <2>1, <2>2
<1>3. A \in SUBSET C /\ X \in C
  OBVIOUS
<1>4. X \in A
  <2> HIDE DEF A, r, C
  <2> QED BY <1>1, <1>2, <1>3, RankInduction
<1> QED
  BY <1>4

\* The order does not matter
AddsUp(g, f, X, d) == g[X \cup {d}] = f[d] + g[X]

LEMMA SumsAdd ==
    ASSUME NEW S, IsFiniteSet(S), NEW f, \A e \in S : f[e] \in Nat, NEW g \in [SUBSET S -> Nat], Sums(g, f, S),
           NEW X \in SUBSET S, NEW d \in S, d \notin X
    PROVE  AddsUp(g, f, X, d)
<1> DEFINE C == SUBSET S
           r == [Y \in C |-> Cardinality(Y)]
           A == {Y \in C : \A e \in S \ Y : g[Y \cup {e}] = f[e] + g[Y]}
<1>1. r \in [C -> Nat] /\ \A Y \in C : \A e \in Y : Y \ {e} \in C /\ r[Y \ {e}] < r[Y]
  BY SizeRanks
<1>2. ASSUME NEW Y \in C, \A Z \in C : r[Z] < r[Y] => Z \in A PROVE Y \in A
  <2> SUFFICES ASSUME NEW e \in S \ Y PROVE g[Y \cup {e}] = f[e] + g[Y]
    OBVIOUS
  <2> DEFINE W == Y \cup {e}
  <2>1. W \in SUBSET S /\ W # {}
    OBVIOUS
  <2>a. \E c \in W : c = (CHOOSE x \in W : TRUE) /\ g[W] = f[c] + g[W \ {c}]
    <3> HIDE DEF W
    <3> QED BY <2>1, SumsAre
  <2>2. PICK c \in W : c = (CHOOSE x \in W : TRUE) /\ g[W] = f[c] + g[W \ {c}]
    BY <2>a
  <2>3. CASE c = e
    <3>1. W \ {c} = Y
      BY <2>3
    <3> QED BY <2>2, <2>3, <3>1
  <2>4. CASE c # e
    <3>1. c \in Y /\ Y \ {c} \in C /\ e \in S \ (Y \ {c}) /\ c \in S \ (Y \ {c})
          /\ W \ {c} = (Y \ {c}) \cup {e} /\ Y = (Y \ {c}) \cup {c}
      BY <2>2, <2>4
    <3>2. Y \ {c} \in A
      <4> HIDE DEF A, r
      <4> QED BY <1>1, <1>2, <3>1
    <3>3. g[(Y \ {c}) \cup {e}] = f[e] + g[Y \ {c}] /\ g[(Y \ {c}) \cup {c}] = f[c] + g[Y \ {c}]
      BY <3>1, <3>2
    <3>4. g[W] = f[c] + g[W \ {c}] /\ g[W \ {c}] = f[e] + g[Y \ {c}] /\ g[Y] = f[c] + g[Y \ {c}]
      BY <2>2, <3>1, <3>3
    <3>5. f[c] \in Nat /\ f[e] \in Nat /\ g[Y \ {c}] \in Nat
      BY <3>1
    <3> HIDE DEF W
    <3> QED BY <3>4, <3>5 DEF W
  <2> QED BY <2>3, <2>4
<1>3. A \in SUBSET C /\ X \in C
  OBVIOUS
<1>4. X \in A
  <2> HIDE DEF A, r, C
  <2> QED BY <1>1, <1>2, <1>3, RankInduction
<1> QED
  BY <1>4 DEF AddsUp

LEMMA TotalNone == \A f : Total(f, {}, 0)
<1> SUFFICES ASSUME NEW f PROVE Total(f, {}, 0)
  OBVIOUS
<1>1. PICK g \in [SUBSET {} -> Nat] : Sums(g, f, {})
  BY SumsExist, FS_EmptySet
<1>2. g[{}] = 0
  BY <1>1, SumsAre
<1> QED
  BY <1>1, <1>2 DEF Total

LEMMA TotalSame ==
    ASSUME NEW f, NEW k, NEW S, NEW v, Total(f, S, v), \A d \in S : f[d] = k[d]
    PROVE  Total(k, S, v)
<1>1. PICK g : Sums(g, f, S) /\ v = g[S]
  BY DEF Total
<1> DEFINE F(q) == [X \in SUBSET S |-> IF X = {} THEN 0 ELSE LET d == CHOOSE x \in X : TRUE IN q[d] + g[X \ {d}]]
<1>2. F(f) = F(k)
  <2>1. ASSUME NEW X \in SUBSET S PROVE F(f)[X] = F(k)[X]
    <3>1. CASE X = {}
      BY <3>1
    <3>2. CASE X # {}
      <4> DEFINE d == CHOOSE x \in X : TRUE
      <4>1. d \in S
        BY <3>2
      <4>2. F(f)[X] = f[d] + g[X \ {d}] /\ F(k)[X] = k[d] + g[X \ {d}]
        BY <3>2
      <4>3. f[d] = k[d]
        BY <4>1
      <4> HIDE DEF d, F
      <4> QED BY <4>2, <4>3
    <3> QED BY <3>1, <3>2
  <2> QED BY <2>1
<1>3. g = F(f)
  BY <1>1 DEF Sums
<1>4. g = F(k)
  <2> HIDE DEF F
  <2> QED BY <1>2, <1>3
<1> QED
  BY <1>1, <1>4 DEF Total, Sums

LEMMA TotalAdd ==
    ASSUME NEW S, IsFiniteSet(S), NEW f, NEW d, d \notin S, \A e \in S \cup {d} : f[e] \in Nat,
           NEW v, Total(f, S, v)
    PROVE  Total(f, S \cup {d}, f[d] + v)
<1>1. PICK k : Sums(k, f, S) /\ v = k[S]
  BY DEF Total
<1>2. IsFiniteSet(S \cup {d})
  BY FS_AddElement
<1>3. PICK g \in [SUBSET (S \cup {d}) -> Nat] : Sums(g, f, S \cup {d})
  BY <1>2, SumsExist
<1>4. g[S] = k[S]
  BY <1>1, <1>3, SumsAgree
<1> DEFINE R == S \cup {d}
<1>a. /\ IsFiniteSet(R) /\ (\A e \in R : f[e] \in Nat) /\ g \in [SUBSET R -> Nat] /\ Sums(g, f, R)
      /\ S \in SUBSET R /\ d \in R
  BY <1>2, <1>3
<1>b. AddsUp(g, f, S, d)
  <2> HIDE DEF R
  <2> QED BY <1>a, SumsAdd
<1>5. g[S \cup {d}] = f[d] + g[S]
  BY <1>b DEF AddsUp
<1> QED
  BY <1>1, <1>3, <1>4, <1>5 DEF Total

-----------------------------------------------------------------------------
(* The steps *)

Counted == [d \in Ctxs |-> ctx[d].count]
Carried(c) == {d \in Used : ctx[d].parent = c /\ ~ctx[d].open /\ ctx[d].use \in Propagating}

\* The count of a context is its own errors and those carried to it
Counts ==
    /\ IsFiniteSet(Used)
    /\ \A c \in Used : \E v \in Nat : Total(Counted, Carried(c), v) /\ ctx[c].count = ctx[c].own + v

IInv == Typed /\ Tree /\ Nested /\ Values /\ Counts

LEMMA AttachCounts ==
    ASSUME IInv, NEW p \in Used, NEW c \in Ctxs \ Used, NEW l \in Used, Attached(ctx', p, c, l)
    PROVE  Counts'
<1>1. Used' = Used \cup {c} /\ Used \in SUBSET Ctxs /\ None \notin Used /\ c # None /\ p # c
  BY AttachTree, UsedFacts, CtxAssumption DEF IInv
<1>2. /\ ctx'[c].parent = p /\ ctx'[c].open /\ ctx'[c].count = 0 /\ ctx'[c].own = 0
      /\ \A x \in Used : /\ ctx'[x].use = ctx[x].use /\ ctx'[x].parent = ctx[x].parent
                         /\ ctx'[x].open = ctx[x].open
                         /\ ctx'[x].count = ctx[x].count /\ ctx'[x].own = ctx[x].own
  BY <1>1 DEF Attached
<1>3. IsFiniteSet(Used')
  BY <1>1, FS_AddElement DEF IInv, Counts
<1>4. \A x \in Used : Carried(x)' = Carried(x)
  BY <1>1, <1>2 DEF Carried
<1>5. Carried(c)' = {}
  <2>1. \A d \in Used : ctx[d].parent # c
    BY <1>1 DEF IInv, Tree, Linked
  <2> QED
    BY <1>1, <1>2, <2>1 DEF Carried
<1>6. ASSUME NEW x \in Used, NEW v, Total(Counted, Carried(x), v) PROVE Total(Counted', Carried(x), v)
  <2>1. \A d \in Carried(x) : Counted[d] = Counted'[d]
    BY <1>1, <1>2 DEF Carried, Counted
  <2> QED
    BY <1>6, <2>1, TotalSame
<1>7. ASSUME NEW x \in Used'
      PROVE  \E v \in Nat : Total(Counted', Carried(x)', v) /\ ctx'[x].count = ctx'[x].own + v
  <2>1. CASE x \in Used
    <3>1. PICK v \in Nat : Total(Counted, Carried(x), v) /\ ctx[x].count = ctx[x].own + v
      BY <2>1 DEF IInv, Counts
    <3>2. Total(Counted', Carried(x)', v)
      BY <1>4, <1>6, <2>1, <3>1
    <3> QED
      BY <1>2, <2>1, <3>1, <3>2
  <2>2. CASE x = c
    <3>1. Total(Counted', {}, 0)
      BY TotalNone
    <3>2. Total(Counted', Carried(x)', 0)
      BY <1>5, <2>2, <3>1
    <3>3. ctx'[x].count = ctx'[x].own + 0 /\ 0 \in Nat
      BY <1>2, <2>2
    <3> QED
      BY <3>2, <3>3
  <2> QED BY <1>1, <2>1, <2>2
<1> QED
  BY <1>3, <1>7 DEF Counts

LEMMA AttachStep ==
    ASSUME IInv, NEW p \in Used, ctx[p].open, NEW c \in Ctxs \ Used, NEW l \in Used, Attached(ctx', p, c, l),
           UNCHANGED <<cgi, file>>,
           cgi => /\ \A x \in Ctxs \ {c} : ctx'[x].search = ctx[x].search
                  /\ ctx'[c].search \in {<<>>, ctx[Main].search}
    PROVE  IInv'
<1>1. Tree' /\ Used' = Used \cup {c} /\ Counts'
  BY AttachTree, AttachCounts DEF IInv
<1>2. Typed'
  BY DEF IInv, Typed, Attached
<1>3. Main \in Used /\ Main # c /\ Main \in Ctxs
  BY UsedFacts DEF IInv, Tree, Linked
<1>4. Nested'
  <2>1. \A x \in Used \ {Main} : ctx[x].parent \in Used
    BY DEF IInv, Tree, Linked
  <2>2. \A x \in Used : ctx'[x].open = ctx[x].open /\ ctx'[x].parent = ctx[x].parent
    BY UsedFacts DEF Attached
  <2>3. ctx'[c].parent = p
    BY DEF Attached
  <2> QED
    BY <1>1, <1>3, <2>1, <2>2, <2>3 DEF IInv, Nested
<1>5. Values'
  <2>1. ctx'[Main].loc = ctx[Main].loc /\ \A x \in Ctxs \ {c} : ctx'[x].root = ctx[x].root
    BY <1>3 DEF Attached
  <2>2. ctx'[c].root = None
    BY DEF Attached
  <2>3. cgi' => \A x \in Ctxs : ctx'[x].search \in {<<>>, ctx'[Main].search}
    BY <1>3 DEF IInv, Values
  <2> QED
    BY <1>3, <2>1, <2>2, <2>3 DEF IInv, Values
<1> QED
  BY <1>1, <1>2, <1>4, <1>5 DEF IInv

LEMMA AllocIs == ASSUME Fresh PROVE Alloc \in Ctxs \ Used
BY DEF Fresh, Alloc, Used

SearchOf(m, n, p, s) == \A x \in Ctxs : m[x].search = IF x = p THEN s ELSE n[x].search

LEMMA SearchSet ==
    ASSUME Typed, NEW n, NEW p \in Used, NEW c \in Ctxs \ Used, NEW l \in Used, Attached(n, p, c, l), NEW s \in Seq(Dirs),
           NEW m, m = [n EXCEPT ![p].search = s]
    PROVE  Attached(m, p, c, l) /\ SearchOf(m, n, p, s)
<1> DEFINE q == [n[p] EXCEPT !.search = s]
<1>1. n \in [Ctxs -> CtxType] /\ p \in Ctxs /\ p # c
  BY UsedFacts DEF Attached
<1>2. /\ q \in CtxType /\ q.child = n[p].child /\ q.next = n[p].next /\ q.search = s
      /\ q.use = n[p].use /\ q.parent = n[p].parent /\ q.loc = n[p].loc
      /\ q.root = n[p].root /\ q.open = n[p].open /\ q.count = n[p].count /\ q.own = n[p].own
  BY <1>1 DEF CtxType
<1>3. m = [n EXCEPT ![p] = q]
  BY <1>1
<1> HIDE DEF q
<1>4. m \in [Ctxs -> CtxType] /\ m[p] = q /\ \A x \in Ctxs \ {p} : m[x] = n[x]
  BY <1>1, <1>2, <1>3
<1>5. \A x \in Ctxs : /\ m[x].use = n[x].use /\ m[x].parent = n[x].parent /\ m[x].loc = n[x].loc
                      /\ m[x].root = n[x].root /\ m[x].open = n[x].open /\ m[x].count = n[x].count
                      /\ m[x].own = n[x].own /\ m[x].next = n[x].next /\ m[x].child = n[x].child
  BY <1>1, <1>2, <1>4
<1>6. Attached(m, p, c, l)
  BY <1>1, <1>4, <1>5, UsedFacts DEF Attached
<1>7. \A x \in Ctxs : m[x].search = IF x = p THEN s ELSE n[x].search
  BY <1>1, <1>2, <1>4
<1> QED
  BY <1>6, <1>7 DEF SearchOf

\* The links stay as they are
Rooted(x) == ctx'[x].use = ctx[x].use /\ ctx'[x].parent = ctx[x].parent
             /\ ctx'[x].next = ctx[x].next /\ ctx'[x].child = ctx[x].child

LEMMA SameTree ==
    ASSUME Typed, Tree, \A x \in Ctxs : Rooted(x)
    PROVE  Tree' /\ Used' = Used
<1>1. Used' = Used
  BY DEF Rooted, Used
<1>2. \A x \in Ctxs : ctx'[x].parent = ctx[x].parent /\ ctx'[x].next = ctx[x].next /\ ctx'[x].child = ctx[x].child
  BY DEF Rooted
<1>3. Used \in SUBSET Ctxs /\ Main \in Used
  BY UsedFacts DEF Tree, Linked
<1>4. Linked'
  BY <1>1, <1>2, <1>3 DEF Tree, Linked
<1>5. \A y, c \in Used : LinkedFrom(y, c)' <=> LinkedFrom(y, c)
  BY <1>1, <1>2, <1>3 DEF LinkedFrom
<1>6. LinkedOnce'
  BY <1>1, <1>2, <1>3, <1>5 DEF Tree, LinkedOnce
<1>7. Born'
  BY <1>1, <1>2, <1>3 DEF Tree, Born, Births
<1> QED
  BY <1>1, <1>4, <1>6, <1>7 DEF Tree

LEMMA FromAttrStep ==
    ASSUME IInv, NEW p \in Used, NEW use \in {"make", "eval", "pie"}, NEW loc \in Locs \cup {None},
           NEW level \in Levels \cup {None}, NEW search \in Searches, FromAttr(p, use, loc, level, search)
    PROVE  IInv'
<1> DEFINE newLoc == loc # None /\ loc # LocationGet(p)
           newLevel == level # None /\ level # LevelGet(p)
           parent == IF cgi \/ search = <<>> THEN ctx[p] ELSE [ctx[p] EXCEPT !.search = search]
           rec == [New(use) EXCEPT !.loc = IF newLoc THEN loc ELSE None,
                                   !.level = IF newLevel THEN LevelSet(level) ELSE -1]
           n == AddChild(p, Alloc, rec)
<1>1. ctx \in [Ctxs -> CtxType] /\ p \in Ctxs /\ ctx[p].open /\ UNCHANGED <<cgi, file>> /\ Typed /\ Tree
  BY UsedFacts DEF FromAttr, Running, IInv, Typed
<1>2. /\ parent \in CtxType /\ parent.use = ctx[p].use /\ parent.parent = ctx[p].parent
      /\ parent.next = ctx[p].next /\ parent.child = ctx[p].child /\ parent.loc = ctx[p].loc
      /\ parent.root = ctx[p].root /\ parent.open = ctx[p].open /\ parent.count = ctx[p].count
      /\ parent.own = ctx[p].own /\ (cgi => parent.search = ctx[p].search) /\ parent.search \in Seq(Dirs)
  <2>1. ctx[p] \in CtxType /\ search \in Seq(Dirs)
    BY <1>1, DirAssumption
  <2> QED
    BY <2>1 DEF CtxType
<1>3. CASE newLoc \/ newLevel
  <2>1. Alloc \in Ctxs \ Used /\ ctx' = [n EXCEPT ![p].search = parent.search]
    <3>1. Fresh /\ ctx' = [n EXCEPT ![p].search = parent.search]
      BY <1>3 DEF FromAttr
    <3> QED BY <3>1, AllocIs
  <2>2. /\ rec \in CtxType /\ rec.use = use /\ rec.next = None /\ rec.child = None /\ rec.root = None /\ rec.open
        /\ rec.count = 0 /\ rec.own = 0 /\ rec.search = <<>> /\ rec.use # "unused"
    <3>1. /\ New(use) \in CtxType /\ New(use).use = use /\ New(use).open
          /\ New(use).next = None /\ New(use).child = None /\ New(use).root = None
          /\ New(use).count = 0 /\ New(use).own = 0 /\ New(use).search = <<>>
      BY NewIs DEF Uses
    <3>2. (IF newLoc THEN loc ELSE None) \in OrNone(Dirs)
      BY DirAssumption DEF OrNone
    <3>3. (IF newLevel THEN LevelSet(level) ELSE -1) \in Int
      BY BoundAssumption DEF LevelSet, LevelMax
    <3> HIDE DEF newLoc, newLevel
    <3> QED
      BY <3>1, <3>2, <3>3 DEF CtxType
  <2>3. /\ \E l \in Used : Attached(n, p, Alloc, l)
        /\ \A x \in Ctxs : n[x].search = IF x = Alloc THEN rec.search ELSE ctx[x].search
    <3> HIDE DEF rec
    <3> QED
      BY <1>1, <2>1, <2>2, AddChildIs
  <2>4. PICK l \in Used : Attached(n, p, Alloc, l)
    BY <2>3
  <2>5. /\ Attached(ctx', p, Alloc, l)
        /\ \A x \in Ctxs : ctx'[x].search = IF x = p THEN parent.search ELSE n[x].search
    <3> DEFINE s == parent.search
    <3>1. s \in Seq(Dirs) /\ ctx' = [n EXCEPT ![p].search = s]
      BY <1>2, <2>1
    <3> HIDE DEF n, parent, s
    <3>2. Attached(ctx', p, Alloc, l) /\ SearchOf(ctx', n, p, s)
      BY <1>1, <2>1, <2>4, <3>1, SearchSet
    <3> QED
      BY <3>1, <3>2 DEF s, SearchOf
  <2>6. cgi => /\ \A x \in Ctxs \ {Alloc} : ctx'[x].search = ctx[x].search
               /\ ctx'[Alloc].search \in {<<>>, ctx[Main].search}
    <3> HIDE DEF n, parent, rec
    <3> QED
      BY <1>1, <1>2, <2>1, <2>2, <2>3, <2>5
  <2> QED
    BY <1>1, <2>1, <2>5, <2>6, AttachStep
<1>4. CASE ~(newLoc \/ newLevel)
  <2>1. ctx' = [ctx EXCEPT ![p] = parent]
    BY <1>4 DEF FromAttr
  <2> HIDE DEF parent
  <2>2. ctx' \in [Ctxs -> CtxType] /\ ctx'[p] = parent /\ \A x \in Ctxs \ {p} : ctx'[x] = ctx[x]
    BY <1>1, <1>2, <2>1
  <2>3. \A x \in Ctxs : /\ Rooted(x) /\ ctx'[x].loc = ctx[x].loc /\ ctx'[x].root = ctx[x].root
                        /\ ctx'[x].open = ctx[x].open /\ ctx'[x].count = ctx[x].count
                        /\ ctx'[x].own = ctx[x].own /\ (cgi => ctx'[x].search = ctx[x].search)
    BY <1>1, <1>2, <2>2 DEF Rooted
  <2>4. Tree' /\ Used' = Used
    BY <1>1, <2>3, SameTree
  <2>5. Main \in Ctxs /\ Main \in Used /\ \A x \in Used \ {Main} : ctx[x].parent \in Ctxs
    BY UsedFacts DEF IInv, Tree, Linked
  <2>6. Typed'
    BY <1>1, <2>2 DEF IInv, Typed
  <2>7. Nested'
    BY <2>3, <2>4, <2>5, UsedFacts DEF IInv, Nested, Rooted
  <2>8. Values'
    BY <1>1, <2>3, <2>5 DEF IInv, Values
  <2>9. Counts'
    <3>1. Counted' = Counted
      BY <2>3 DEF Counted
    <3>2. \A x \in Used : Carried(x)' = Carried(x)
      BY <2>3, <2>4, UsedFacts DEF Carried, Rooted
    <3>3. \A x \in Used : ctx'[x].count = ctx[x].count /\ ctx'[x].own = ctx[x].own
      BY <2>3, UsedFacts
    <3> QED
      BY <2>4, <3>1, <3>2, <3>3 DEF IInv, Counts
  <2> QED
    BY <2>4, <2>6, <2>7, <2>8, <2>9 DEF IInv
<1> QED
  BY <1>3, <1>4

LEMMA MadeStep ==
    ASSUME IInv, NEW p \in Used, Running(p), NEW rec \in CtxType, Fresh,
           rec.use # "unused", rec.next = None, rec.child = None, rec.root = None, rec.open,
           rec.count = 0, rec.own = 0, cgi => rec.search \in {<<>>, ctx[Main].search},
           ctx' = AddChild(p, Alloc, rec), UNCHANGED <<cgi, file>>
    PROVE  IInv'
<1>1. Typed /\ Tree /\ ctx[p].open /\ Alloc \in Ctxs \ Used
  BY AllocIs DEF IInv, Running
<1>2. /\ \E l \in Used : Attached(ctx', p, Alloc, l)
      /\ \A x \in Ctxs : ctx'[x].search = IF x = Alloc THEN rec.search ELSE ctx[x].search
  BY <1>1, AddChildIs
<1>3. PICK l \in Used : Attached(ctx', p, Alloc, l)
  BY <1>2
<1> QED
  BY <1>1, <1>2, <1>3, AttachStep

LEMMA ThreadStep == ASSUME IInv, NEW p \in Used, Thread(p) PROVE IInv'
<1> DEFINE rec == [New("thread") EXCEPT !.loc = LocationGet(p),
                                        !.search = SearchGet(p),
                                        !.level = LevelSet(LevelGet(p))]
<1>1. /\ New("thread") \in CtxType /\ New("thread").use = "thread" /\ New("thread").open
      /\ New("thread").next = None /\ New("thread").child = None /\ New("thread").root = None
      /\ New("thread").count = 0 /\ New("thread").own = 0
  BY NewIs DEF Uses
<1>2. LocationGet(p) \in Dirs /\ SearchGet(p) \in Seq(Dirs) /\ LevelSet(LevelGet(p)) \in Int
  BY LocationIs, SearchIs, LevelIs DEF IInv, LevelSet, LevelMax
<1>3. /\ rec \in CtxType /\ rec.use # "unused" /\ rec.next = None /\ rec.child = None /\ rec.root = None /\ rec.open
      /\ rec.count = 0 /\ rec.own = 0 /\ rec.search = SearchGet(p)
  BY <1>1, <1>2 DEF CtxType, OrNone
<1>4. cgi => rec.search \in {<<>>, ctx[Main].search}
  BY <1>3, SearchIs DEF IInv
<1>5. Running(p) /\ Fresh /\ ctx' = AddChild(p, Alloc, rec) /\ UNCHANGED <<cgi, file>>
  BY DEF Thread
<1> HIDE DEF rec
<1> QED
  BY <1>3, <1>4, <1>5, MadeStep

LEMMA ImportStep == ASSUME IInv, NEW p \in Used, NEW dir \in Locs, Import(p, dir) PROVE IInv'
<1> DEFINE rec == [New("import") EXCEPT !.loc = dir, !.level = LevelSet(2)]
<1>1. /\ New("import") \in CtxType /\ New("import").use = "import" /\ New("import").open
      /\ New("import").next = None /\ New("import").child = None /\ New("import").root = None
      /\ New("import").count = 0 /\ New("import").own = 0 /\ New("import").search = <<>>
  BY NewIs DEF Uses
<1>2. dir \in Dirs /\ LevelSet(2) \in Int
  BY DirAssumption DEF LevelSet, LevelMax
<1>3. /\ rec \in CtxType /\ rec.use # "unused" /\ rec.next = None /\ rec.child = None /\ rec.root = None /\ rec.open
      /\ rec.count = 0 /\ rec.own = 0 /\ rec.search = <<>>
  BY <1>1, <1>2 DEF CtxType, OrNone
<1>4. Running(p) /\ Fresh /\ ctx' = AddChild(p, Alloc, rec) /\ UNCHANGED <<cgi, file>>
  BY DEF Import
<1> HIDE DEF rec
<1> QED
  BY <1>3, <1>4, MadeStep

\* Steps that leave every context as it is
LEMMA ContextsKept == ASSUME IInv, UNCHANGED <<cgi, ctx>>, file' \in SUBSET Dirs PROVE IInv'
<1>1. \A x \in Ctxs : Rooted(x) /\ ctx'[x].next = ctx[x].next /\ ctx'[x].child = ctx[x].child
  BY DEF Rooted
<1>2. Tree' /\ Used' = Used
  BY <1>1, SameTree DEF IInv
<1>3. Typed'
  BY DEF IInv, Typed
<1>4. Nested'
  BY <1>2 DEF IInv, Nested
<1>5. Values'
  BY DEF IInv, Values
<1>6. Counts'
  <2>1. Counted' = Counted
    BY DEF Counted
  <2>2. \A x \in Used : Carried(x)' = Carried(x)
    BY <1>2 DEF Carried
  <2> QED
    BY <1>2, <2>1, <2>2 DEF IInv, Counts
<1> QED
  BY <1>2, <1>3, <1>4, <1>5, <1>6 DEF IInv

\* A file is written to a directory
LEMMA SaveStep == ASSUME IInv, NEW c \in Used, NEW dir \in Locs \cup {None}, Save(c, dir) PROVE IInv'
<1>1. ResolveWrite(c, dir) \in Dirs
  <2>1. LocationGet(c) \in Dirs
    BY LocationIs DEF IInv
  <2>2. RootGet(c) \in OrNone(Dirs)
    BY RootIs, DirAssumption DEF IInv, Values, OrNone
  <2> QED
    BY <2>1, <2>2, DirAssumption DEF ResolveWrite, OrNone
<1>2. file' = file \cup {ResolveWrite(c, dir)} /\ UNCHANGED <<cgi, ctx>>
  BY DEF Save
<1>3. file' \in SUBSET Dirs
  BY <1>1, <1>2 DEF IInv, Typed
<1> QED
  BY <1>2, <1>3, ContextsKept

\* Steps that keep the links, and what contexts have of their own but their
\* state and their counts
Kept(x) ==
    /\ Rooted(x) /\ ctx'[x].loc = ctx[x].loc /\ ctx'[x].root = ctx[x].root /\ ctx'[x].search = ctx[x].search

LEMMA KeptStep ==
    ASSUME IInv, ctx' \in [Ctxs -> CtxType], \A x \in Ctxs : Kept(x), UNCHANGED <<cgi, file>>
    PROVE  Typed' /\ Tree' /\ Values' /\ Used' = Used
<1>1. Tree' /\ Used' = Used
  BY SameTree DEF IInv, Kept
<1>2. Main \in Ctxs
  BY CtxAssumption
<1>3. Values'
  BY <1>2 DEF IInv, Values, Kept
<1>4. Typed'
  BY DEF IInv, Typed
<1> QED
  BY <1>1, <1>3, <1>4

LEMMA LogErrorStep == ASSUME IInv, NEW c \in Used, LogError(c) PROVE IInv'
<1> DEFINE q == [ctx[c] EXCEPT !.count = ctx[c].count + 1, !.own = ctx[c].own + 1]
<1>1. ctx \in [Ctxs -> CtxType] /\ c \in Ctxs /\ UNCHANGED <<cgi, file>> /\ ctx[c].open /\ Used \in SUBSET Ctxs
  BY UsedFacts DEF IInv, Typed, LogError, Running
<1>2. /\ q \in CtxType /\ q.use = ctx[c].use /\ q.parent = ctx[c].parent /\ q.next = ctx[c].next
      /\ q.child = ctx[c].child /\ q.loc = ctx[c].loc /\ q.root = ctx[c].root /\ q.search = ctx[c].search
      /\ q.open = ctx[c].open /\ q.count = ctx[c].count + 1 /\ q.own = ctx[c].own + 1
  <2>1. ctx[c] \in CtxType
    BY <1>1
  <2>2. ctx[c].count + 1 \in Nat /\ ctx[c].own + 1 \in Nat
    BY <2>1 DEF CtxType
  <2> DEFINE i == ctx[c].count + 1
             j == ctx[c].own + 1
             half == [ctx[c] EXCEPT !.count = i]
  <2>3. q = [half EXCEPT !.own = j] /\ i \in Nat /\ j \in Nat
    BY <2>1, <2>2 DEF CtxType
  <2> HIDE DEF i, j, q
  <2>4. /\ half \in CtxType /\ half.use = ctx[c].use /\ half.parent = ctx[c].parent /\ half.next = ctx[c].next
        /\ half.child = ctx[c].child /\ half.loc = ctx[c].loc /\ half.root = ctx[c].root
        /\ half.search = ctx[c].search /\ half.open = ctx[c].open /\ half.count = i
    BY <2>1, <2>3 DEF CtxType
  <2> HIDE DEF half
  <2>5. /\ q \in CtxType /\ q.use = half.use /\ q.parent = half.parent /\ q.next = half.next
        /\ q.child = half.child /\ q.loc = half.loc /\ q.root = half.root
        /\ q.search = half.search /\ q.open = half.open /\ q.count = half.count /\ q.own = j
    BY <2>3, <2>4 DEF CtxType
  <2> QED
    BY <2>4, <2>5 DEF i, j
<1>3. ctx' = [ctx EXCEPT ![c] = q]
  <2>1. ctx' = [ctx EXCEPT ![c].count = @ + 1, ![c].own = @ + 1]
    BY DEF LogError
  <2> QED
    BY <1>1, <2>1 DEF CtxType
<1> HIDE DEF q
<1>4. ctx' \in [Ctxs -> CtxType] /\ ctx'[c] = q /\ \A x \in Ctxs \ {c} : ctx'[x] = ctx[x]
  BY <1>1, <1>2, <1>3
<1>5. \A x \in Ctxs : Kept(x) /\ ctx'[x].open = ctx[x].open
  BY <1>2, <1>4 DEF Kept, Rooted
<1>6. Typed' /\ Tree' /\ Values' /\ Used' = Used
  BY <1>1, <1>4, <1>5, KeptStep
<1>7. Nested'
  <2>1. Main \in Used /\ \A x \in Used \ {Main} : ctx[x].parent \in Used
    BY DEF IInv, Tree, Linked
  <2> QED
    BY <1>1, <1>5, <1>6, <2>1 DEF IInv, Nested, Kept, Rooted
<1>8. Counts'
  <2>1. \A x \in Used : Carried(x)' = Carried(x) /\ c \notin Carried(x)
    BY <1>1, <1>5, <1>6 DEF Carried, Kept, Rooted
  <2>2. ASSUME NEW x \in Used PROVE \E v \in Nat : Total(Counted', Carried(x)', v) /\ ctx'[x].count = ctx'[x].own + v
    <3>1. PICK v \in Nat : Total(Counted, Carried(x), v) /\ ctx[x].count = ctx[x].own + v
      BY DEF IInv, Counts
    <3>2. \A d \in Carried(x) : Counted[d] = Counted'[d]
      BY <1>1, <1>4, <2>1 DEF Counted, Carried
    <3>3. Total(Counted', Carried(x), v)
      BY <3>1, <3>2, TotalSame
    <3>4. ctx'[x].count = ctx'[x].own + v
      <4>1. CASE x = c
        <5>1. ctx[c].count \in Nat /\ ctx[c].own \in Nat
          BY <1>1 DEF CtxType
        <5> QED BY <1>2, <1>4, <3>1, <4>1, <5>1
      <4>2. CASE x # c
        BY <1>1, <1>4, <3>1, <4>2
      <4> QED BY <4>1, <4>2
    <3> QED
      BY <2>1, <3>3, <3>4
  <2> QED
    BY <1>6, <2>2 DEF IInv, Counts
<1> QED
  BY <1>6, <1>7, <1>8 DEF IInv

LEMMA LeaveStep == ASSUME IInv, NEW c \in Used, Leave(c) PROVE IInv'
<1> DEFINE p == ctx[c].parent
           more == IF ctx[c].use \in Propagating THEN ctx[c].count ELSE 0
           q == [ctx[c] EXCEPT !.open = FALSE]
           u == [ctx[p] EXCEPT !.count = ctx[p].count + more]
<1>1. ctx \in [Ctxs -> CtxType] /\ c \in Ctxs /\ UNCHANGED <<cgi, file>> /\ ctx[c].open /\ c # Main /\ Used \in SUBSET Ctxs
  BY UsedFacts DEF IInv, Typed, Leave, Running
<1>2. p \in Used /\ p \in Ctxs /\ ctx[p].open
  BY <1>1 DEF IInv, Tree, Linked, Nested
<1>3. p # c
  <2>0. PICK m \in Nat : \E b \in [Ctxs -> 0..m] : Births(b)
    BY DEF IInv, Tree, Born
  <2>1. PICK b \in [Ctxs -> 0..m] : Births(b)
    BY <2>0
  <2>2. b[p] < b[c]
    BY <1>1, <2>1 DEF Births
  <2>3. b[c] \in Nat
    BY <1>1, <2>1
  <2> QED BY <2>2, <2>3
<1>4. ctx[c].count \in Nat /\ ctx[p].count \in Nat /\ more \in Nat
  BY <1>1, <1>2 DEF CtxType
<1>5. /\ q \in CtxType /\ q.use = ctx[c].use /\ q.parent = ctx[c].parent /\ q.next = ctx[c].next
      /\ q.child = ctx[c].child /\ q.loc = ctx[c].loc /\ q.root = ctx[c].root /\ q.search = ctx[c].search
      /\ ~q.open /\ q.count = ctx[c].count /\ q.own = ctx[c].own
  <2>1. ctx[c] \in CtxType
    BY <1>1
  <2> QED
    BY <2>1 DEF CtxType
<1>6. /\ u \in CtxType /\ u.use = ctx[p].use /\ u.parent = ctx[p].parent /\ u.next = ctx[p].next
      /\ u.child = ctx[p].child /\ u.loc = ctx[p].loc /\ u.root = ctx[p].root /\ u.search = ctx[p].search
      /\ u.open = ctx[p].open /\ u.count = ctx[p].count + more /\ u.own = ctx[p].own
  <2>1. ctx[p] \in CtxType
    BY <1>1, <1>2
  <2> HIDE DEF p, more
  <2> QED
    BY <1>4, <2>1 DEF CtxType
<1>7. ctx' = [x \in Ctxs |-> IF x = c THEN q ELSE IF x = p THEN u ELSE ctx[x]]
  <2>1. ctx' = [ctx EXCEPT ![c].open = FALSE, ![p].count = @ + more]
    BY DEF Leave
  <2> HIDE DEF p, more
  <2> QED
    BY <1>1, <1>2, <1>3, <2>1 DEF CtxType
<1>8. \A d \in Used : ctx[d].parent = c => ~ctx[d].open
  BY DEF Leave
<1>p. ctx[c].parent = p
  OBVIOUS
<1>m. more = IF ctx[c].use \in Propagating THEN ctx[c].count ELSE 0
  OBVIOUS
<1> HIDE DEF p, more, q, u
<1>9. ctx' \in [Ctxs -> CtxType] /\ ctx'[c] = q /\ ctx'[p] = u /\ \A x \in Ctxs \ {c, p} : ctx'[x] = ctx[x]
  BY <1>1, <1>2, <1>3, <1>5, <1>6, <1>7
<1>10. \A x \in Ctxs : /\ Kept(x) /\ (ctx'[x].open <=> ctx[x].open /\ x # c) /\ ctx'[x].own = ctx[x].own
                       /\ (x # p => ctx'[x].count = ctx[x].count)
  BY <1>1, <1>2, <1>3, <1>5, <1>6, <1>9 DEF Kept, Rooted
<1>11. Typed' /\ Tree' /\ Values' /\ Used' = Used
  BY <1>1, <1>9, <1>10, KeptStep
<1>12. Nested'
  <2>1. Main \in Used /\ \A x \in Used \ {Main} : ctx[x].parent \in Used
    BY DEF IInv, Tree, Linked
  <2> QED
    BY <1>1, <1>8, <1>10, <1>11, <2>1 DEF IInv, Nested, Kept, Rooted
<1>13. \A x \in Used : /\ Carried(x)' = IF x = p /\ ctx[c].use \in Propagating THEN Carried(x) \cup {c} ELSE Carried(x)
                       /\ c \notin Carried(x) /\ p \notin Carried(x) /\ Carried(x) \in SUBSET Used
  BY <1>1, <1>2, <1>p, <1>10, <1>11 DEF Carried, Kept, Rooted
<1>14. \A d \in Ctxs : Counted[d] = ctx[d].count /\ Counted'[d] = ctx'[d].count /\ Counted'[d] \in Nat
  BY <1>9 DEF Counted, CtxType
<1>15. ASSUME NEW x \in Used
       PROVE  \E v \in Nat : Total(Counted', Carried(x)', v) /\ ctx'[x].count = ctx'[x].own + v
  <2>1. PICK v \in Nat : Total(Counted, Carried(x), v) /\ ctx[x].count = ctx[x].own + v
    BY DEF IInv, Counts
  <2>2. Total(Counted', Carried(x), v)
    <3>1. \A d \in Carried(x) : Counted[d] = Counted'[d]
      BY <1>1, <1>10, <1>13, <1>14
    <3> QED BY <2>1, <3>1, TotalSame
  <2>3. CASE x # p
    BY <1>1, <1>10, <1>13, <2>1, <2>2, <2>3
  <2>4. CASE x = p /\ ctx[c].use \notin Propagating
    <3>1. more = 0 /\ ctx'[x].count = ctx[x].count
      BY <1>4, <1>6, <1>9, <1>m, <2>4
    <3> QED
      BY <1>1, <1>10, <1>13, <2>1, <2>2, <2>4, <3>1
  <2>5. CASE x = p /\ ctx[c].use \in Propagating
    <3>1. IsFiniteSet(Carried(x)) /\ c \notin Carried(x) /\ \A e \in Carried(x) \cup {c} : Counted'[e] \in Nat
      <4>1. IsFiniteSet(Carried(x))
        BY <1>13, FS_Subset DEF IInv, Counts
      <4> QED BY <1>1, <1>13, <1>14, <4>1
    <3>2. Total(Counted', Carried(x) \cup {c}, Counted'[c] + v)
      <4> DEFINE S == Carried(x)
                 k == Counted'
      <4>1. IsFiniteSet(S) /\ c \notin S /\ (\A e \in S \cup {c} : k[e] \in Nat) /\ Total(k, S, v)
        BY <2>2, <3>1
      <4> HIDE DEF S, k
      <4>2. Total(k, S \cup {c}, k[c] + v)
        BY <4>1, TotalAdd
      <4> QED BY <4>2 DEF S, k
    <3>3. more = ctx[c].count /\ Counted'[c] = ctx[c].count
      BY <1>1, <1>3, <1>10, <1>14, <1>m, <2>5
    <3>4. ctx'[x].count = ctx[x].count + ctx[c].count /\ ctx'[x].own = ctx[x].own /\ ctx[x].own \in Nat
      BY <1>1, <1>2, <1>6, <1>9, <1>10, <2>5, <3>3 DEF CtxType
    <3>5. ctx'[x].count = ctx'[x].own + (Counted'[c] + v) /\ Counted'[c] + v \in Nat
      BY <1>4, <2>1, <3>3, <3>4
    <3> QED
      BY <1>13, <2>5, <3>2, <3>5
  <2> QED BY <2>3, <2>4, <2>5
<1>16. Counts'
  BY <1>11, <1>15 DEF IInv, Counts
<1> QED
  BY <1>11, <1>12, <1>16 DEF IInv

LEMMA ExitStep == ASSUME IInv, Exit PROVE IInv'
<1>1. UNCHANGED <<cgi, ctx, file>>
  BY DEF Exit
<1>2. file' \in SUBSET Dirs
  BY <1>1 DEF IInv, Typed
<1> QED
  BY <1>1, <1>2, ContextsKept

LEMMA StepIInv == IInv /\ [Next]_vars => IInv'
<1> SUFFICES ASSUME IInv, [Next]_vars PROVE IInv'
  OBVIOUS
<1>1. ASSUME NEW p \in Used, NEW use \in {"make", "eval", "pie"}, NEW loc \in Locs \cup {None},
             NEW level \in Levels \cup {None}, NEW search \in Searches, FromAttr(p, use, loc, level, search)
      PROVE  IInv'
  BY <1>1, FromAttrStep
<1>2. ASSUME NEW p \in Used, Thread(p) PROVE IInv'
  BY <1>2, ThreadStep
<1>3. ASSUME NEW p \in Used, NEW dir \in Locs, Import(p, dir) PROVE IInv'
  BY <1>3, ImportStep
<1>4. ASSUME NEW c \in Used, LogError(c) PROVE IInv'
  BY <1>4, LogErrorStep
<1>5. ASSUME NEW c \in Used, Leave(c) PROVE IInv'
  BY <1>5, LeaveStep
<1>6. ASSUME NEW c \in Used, NEW dir \in Locs \cup {None}, Save(c, dir) PROVE IInv'
  BY <1>6, SaveStep
<1>7. CASE Exit
  BY <1>7, ExitStep
<1>8. CASE UNCHANGED vars
  <2>1. UNCHANGED <<cgi, ctx, file>>
    BY <1>8 DEF vars
  <2>2. file' \in SUBSET Dirs
    BY <2>1 DEF IInv, Typed
  <2> QED
    BY <2>1, <2>2, ContextsKept
<1> QED
  BY <1>1, <1>2, <1>3, <1>4, <1>5, <1>6, <1>7, <1>8 DEF Next

LEMMA InitIInv == Init => IInv
<1> SUFFICES ASSUME Init PROVE IInv
  OBVIOUS
<1>1. PICK path \in Searches :
         ctx = [c \in Ctxs |->
                   IF c # Main THEN Blank
                   ELSE [New("main") EXCEPT !.loc = IF cgi THEN Root ELSE Cwd,
                                            !.root = IF cgi THEN Root ELSE None,
                                            !.search = path, !.level = 1]]
  BY DEF Init
<1> DEFINE loc == IF cgi THEN Root ELSE Cwd
           root == IF cgi THEN Root ELSE None
           m == [New("main") EXCEPT !.loc = loc, !.root = root, !.search = path, !.level = 1]
<1>2. path \in Seq(Dirs) /\ loc \in Dirs /\ root \in OrNone(Dirs) /\ loc # None
  BY DirAssumption, CtxAssumption DEF OrNone
<1>3. /\ Blank \in CtxType /\ Blank.use = "unused" /\ Blank.parent = None /\ Blank.next = None /\ Blank.child = None
      /\ Blank.root = None /\ Blank.search = <<>> /\ Blank.count = 0 /\ Blank.own = 0
  BY DEF Blank, CtxType, OrNone, Uses
<1>4. New("main") \in CtxType /\ New("main").parent = None
  BY <1>3, NewIs DEF New, Uses, CtxType
<1>5. /\ m \in CtxType /\ m.use = "main" /\ m.parent = None /\ m.next = None /\ m.child = None
      /\ m.loc = loc /\ m.root = root /\ m.search = path /\ m.open /\ m.count = 0 /\ m.own = 0
  <2>1. /\ New("main").use = "main" /\ New("main").open
        /\ New("main").next = None /\ New("main").child = None /\ New("main").count = 0 /\ New("main").own = 0
    BY NewIs DEF Uses
  <2> DEFINE m1 == [New("main") EXCEPT !.loc = loc]
             m2 == [m1 EXCEPT !.root = root]
             m3 == [m2 EXCEPT !.search = path]
  <2> HIDE DEF loc, root
  <2>2. m = [m3 EXCEPT !.level = 1]
    BY <1>4 DEF CtxType
  <2> HIDE DEF m, m3
  <2>3. /\ m1 \in CtxType /\ m1.use = "main" /\ m1.parent = None /\ m1.next = None /\ m1.child = None
        /\ m1.loc = loc /\ m1.open /\ m1.count = 0 /\ m1.own = 0
    BY <1>2, <1>4, <2>1 DEF CtxType, OrNone
  <2> HIDE DEF m1
  <2>4. /\ m2 \in CtxType /\ m2.use = "main" /\ m2.parent = None /\ m2.next = None /\ m2.child = None
        /\ m2.loc = loc /\ m2.root = root /\ m2.open /\ m2.count = 0 /\ m2.own = 0
    BY <1>2, <2>3 DEF CtxType
  <2> HIDE DEF m2
  <2>5. /\ m3 \in CtxType /\ m3.use = "main" /\ m3.parent = None /\ m3.next = None /\ m3.child = None
        /\ m3.loc = loc /\ m3.root = root /\ m3.search = path /\ m3.open /\ m3.count = 0 /\ m3.own = 0
    BY <1>2, <2>4 DEF CtxType, m3
  <2> QED
    BY <2>2, <2>5 DEF CtxType
<1>6. /\ ctx \in [Ctxs -> CtxType] /\ ctx[Main] = m /\ \A c \in Ctxs \ {Main} : ctx[c] = Blank
  <2>1. ctx = [c \in Ctxs |-> IF c # Main THEN Blank ELSE m]
    BY <1>1
  <2> HIDE DEF m
  <2> QED
    BY <1>3, <1>5, <2>1, CtxAssumption
<1>r. root = (IF cgi THEN Root ELSE None)
  OBVIOUS
<1> HIDE DEF m, loc, root
<1>7. Used = {Main}
  BY <1>3, <1>5, <1>6, CtxAssumption DEF Used
<1>8. Typed
  BY <1>6 DEF Init, Typed
<1>9. Tree
  <2>1. Linked
    BY <1>3, <1>5, <1>6, <1>7 DEF Linked
  <2>2. LinkedOnce
    BY <1>5, <1>6, <1>7 DEF LinkedOnce, LinkedFrom
  <2>3. Born
    <3>1. Births([c \in Ctxs |-> 0])
      BY <1>5, <1>6, <1>7 DEF Births
    <3>2. [c \in Ctxs |-> 0] \in [Ctxs -> 0..0] /\ 0 \in Nat
      OBVIOUS
    <3> QED
      BY <3>1, <3>2 DEF Born
  <2> QED
    BY <2>1, <2>2, <2>3 DEF Tree
<1>10. Nested
  BY <1>5, <1>6, <1>7 DEF Nested
<1>11. Values
  BY <1>2, <1>3, <1>5, <1>6, <1>r DEF Values
<1>12. Counts
  <2>1. IsFiniteSet(Used)
    BY <1>7, FS_Singleton
  <2>2. Carried(Main) = {}
    BY <1>5, <1>6, <1>7, CtxAssumption DEF Carried
  <2>3. Total(Counted, Carried(Main), 0)
    BY <2>2, TotalNone
  <2> QED
    BY <1>5, <1>6, <1>7, <2>1, <2>3 DEF Counts
<1> QED
  BY <1>8, <1>9, <1>10, <1>11, <1>12 DEF IInv

THEOREM Invariance == Spec => []IInv
<1>1. Init => IInv
  BY InitIInv
<1>2. IInv /\ [Next]_vars => IInv'
  BY StepIInv
<1> QED
  BY <1>1, <1>2, PTL DEF Spec

\* With CGI no context that elements, threads or imports make may touch what
\* the main context may not.
THEOREM Confinement == Spec => []PermittedInMain
<1>1. IInv => PermittedInMain
  BY Permissions DEF IInv
<1> QED
  BY <1>1, Invariance, PTL

\* What an instruction has written under a relative name is what reading by
\* that name gets in the same context, unless, with CGI, the location of the
\* context holds a file of that name, too.
THEOREM Rereading == Spec => []ReadsBack
<1>1. IInv => ReadsBack
  BY ReadingBack DEF IInv
<1> QED
  BY <1>1, Invariance, PTL

LEMMA CountsAre == ASSUME IInv PROVE CountsExact
<1> SUFFICES ASSUME NEW c \in Used
             PROVE  LET carried == {d \in Used : ctx[d].parent = c /\ ~ctx[d].open /\ ctx[d].use \in Propagating}
                        sum[S \in SUBSET carried] ==
                            IF S = {} THEN 0
                            ELSE LET d == CHOOSE x \in S : TRUE IN ctx[d].count + sum[S \ {d}]
                    IN  ctx[c].count = ctx[c].own + sum[carried]
  BY DEF CountsExact
<1> DEFINE K == Carried(c)
           F(g) == [S \in SUBSET K |->
                       IF S = {} THEN 0 ELSE LET d == CHOOSE x \in S : TRUE IN ctx[d].count + g[S \ {d}]]
           sum == CHOOSE g : g = F(g)
<1>1. Used \in SUBSET Ctxs /\ ctx \in [Ctxs -> CtxType] /\ K \in SUBSET Used
  BY UsedFacts DEF IInv, Typed, Carried
<1>2. \A g : Sums(g, Counted, K) <=> g = F(g)
  <2> SUFFICES ASSUME NEW g PROVE Sums(g, Counted, K) <=> g = F(g)
    OBVIOUS
  <2> DEFINE G == [X \in SUBSET K |->
                      IF X = {} THEN 0 ELSE LET d == CHOOSE x \in X : TRUE IN Counted[d] + g[X \ {d}]]
  <2>1. G = F(g)
    <3>1. ASSUME NEW X \in SUBSET K PROVE G[X] = F(g)[X]
      <4>1. CASE X = {}
        BY <4>1
      <4>2. CASE X # {}
        <5> DEFINE d == CHOOSE x \in X : TRUE
        <5>1. d \in Ctxs
          BY <1>1, <4>2
        <5>2. G[X] = Counted[d] + g[X \ {d}] /\ F(g)[X] = ctx[d].count + g[X \ {d}]
          BY <4>2
        <5>3. Counted[d] = ctx[d].count
          <6> HIDE DEF d
          <6> QED BY <5>1 DEF Counted
        <5> HIDE DEF d, F, G
        <5> QED BY <5>2, <5>3
      <4> QED BY <4>1, <4>2
    <3> QED BY <3>1
  <2> QED
    BY <2>1 DEF Sums
<1>3. PICK v \in Nat : Total(Counted, K, v) /\ ctx[c].count = ctx[c].own + v
  BY DEF IInv, Counts
<1>4. PICK k : Sums(k, Counted, K) /\ v = k[K]
  BY <1>3 DEF Total
<1>5. sum = F(sum)
  <2>1. k = F(k)
    BY <1>2, <1>4
  <2> HIDE DEF F, K
  <2> QED BY <2>1
<1>6. sum[K] = v
  <2>1. IsFiniteSet(K) /\ K \in SUBSET K
    BY <1>1, FS_Subset DEF IInv, Counts
  <2>2. Sums(sum, Counted, K)
    BY <1>2, <1>5
  <2> HIDE DEF sum, K
  <2> QED BY <1>4, <2>1, <2>2, SumsAgree
<1>7. ctx[c].count = ctx[c].own + sum[K]
  BY <1>3, <1>6
<1> QED
  BY <1>7 DEF Carried

\* Errors are counted where they are logged, and carried over once to the
\* parent by archives and structured text alone.
THEOREM Counting == Spec => []CountsExact
<1>1. IInv => CountsExact
  BY CountsAre
<1> QED
  BY <1>1, Invariance, PTL

-----------------------------------------------------------------------------
(* The tree at the end of main() *)

InList(c) == \E i \in 1..Len(Children(ctx[c].parent)) : Children(ctx[c].parent)[i] = c

LEMMA ListedByParent == ASSUME Typed, Tree PROVE \A c \in Used \ {Main} : InList(c)
<1>0. PICK n \in Nat : \E b \in [Ctxs -> 0..n] : Births(b)
  BY DEF Tree, Born
<1>1. PICK b \in [Ctxs -> 0..n] : Births(b)
  BY <1>0
<1> DEFINE S == {c \in Ctxs : c \in Used \ {Main} => InList(c)}
<1>r. b \in [Ctxs -> Nat] /\ S \in SUBSET Ctxs
  BY <1>1
<1>2. ASSUME NEW c \in Ctxs, \A d \in Ctxs : b[d] < b[c] => d \in S PROVE c \in S
  <2> SUFFICES ASSUME c \in Used \ {Main} PROVE InList(c)
    OBVIOUS
  <2>1. PICK y \in Used : LinkedFrom(y, c)
    BY DEF Tree, LinkedOnce
  <2>2. y \in Ctxs /\ c # None /\ Main \in Used
    BY UsedFacts DEF Tree, Linked
  <2>3. CASE ctx[y].child = c
    <3>1. ctx[c].parent = y
      BY <2>2, <2>3 DEF Tree, Linked
    <3>2. Children(ctx[c].parent) = Siblings[c]
      BY <2>2, <2>3, <3>1 DEF Children
    <3>3. Siblings[c][1] = c /\ Len(Siblings[c]) \in Nat \ {0}
      BY SiblingsListed DEF Lists
    <3>4. 1 \in 1..Len(Siblings[c])
      BY <3>3
    <3> QED
      BY <3>2, <3>3, <3>4 DEF InList
  <2>4. CASE ctx[y].next = c
    <3> DEFINE p == ctx[c].parent
               s == Children(p)
    <3>1. y # Main /\ ctx[y].parent = p /\ b[y] < b[c] /\ p \in Used
      BY <1>1, <2>2, <2>4 DEF Tree, Linked, Births
    <3>2. InList(y)
      BY <1>2, <2>2, <3>1
    <3>3. PICK i \in 1..Len(s) : s[i] = y
      BY <3>1, <3>2 DEF InList
    <3>4. ctx[p].child \in Used /\ s = Siblings[ctx[p].child]
      <4>1. CASE ctx[p].child = None
        <5>1. s = <<>>
          BY <4>1 DEF Children
        <5>2. Len(s) = 0
          <6> HIDE DEF s
          <6> QED BY <5>1
        <5> QED BY <3>3, <5>2
      <4>2. CASE ctx[p].child # None
        BY <3>1, <4>2 DEF Children, Tree, Linked
      <4> QED BY <4>1, <4>2
    <3>5. Lists(s, ctx[p].child)
      BY <3>4, SiblingsListed
    <3>6. s = Children(ctx[c].parent)
      OBVIOUS
    <3> HIDE DEF s, p
    <3>7. i # Len(s) /\ Len(s) \in Nat
      BY <2>2, <2>4, <3>3, <3>5 DEF Lists
    <3>8. i \in 1..Len(s) - 1 /\ i + 1 \in 1..Len(s)
      BY <3>3, <3>7
    <3>9. s[i + 1] = c
      BY <2>4, <3>3, <3>5, <3>8 DEF Lists
    <3> QED
      BY <3>6, <3>8, <3>9 DEF InList
  <2> QED
    BY <2>1, <2>3, <2>4 DEF LinkedFrom
<1>3. \A c \in Ctxs : c \in S
  <2> HIDE DEF S
  <2> QED BY <1>2, <1>r, RankInduction
<1> QED
  BY <1>3, UsedFacts

LEMMA FreeTreeIs ==
    ASSUME Typed, Tree
    PROVE  \A c \in Ctxs :
              FreeTree[c] = (IF ctx[c].next = None THEN <<>> ELSE FreeTree[ctx[c].next])
                            \o (IF ctx[c].child = None THEN <<>> ELSE FreeTree[ctx[c].child]) \o <<c>>
<1> DEFINE F(f) == [c \in Ctxs |->
                       (IF ctx[c].next = None THEN <<>> ELSE f[ctx[c].next])
                       \o (IF ctx[c].child = None THEN <<>> ELSE f[ctx[c].child]) \o <<c>>]
           T == Seq(Ctxs)
           h == [f \in [Ctxs -> T] |-> F(f)]
<1>0. PICK n \in Nat : \E b \in [Ctxs -> 0..n] : Births(b)
  BY DEF Tree, Born
<1>1. PICK b \in [Ctxs -> 0..n] : Births(b)
  BY <1>0
<1> DEFINE r == [c \in Ctxs |-> n - b[c]]
<1>r. r \in [Ctxs -> Nat]
  BY <1>1
<1>2. \A c \in Ctxs : /\ ctx[c].next # None => ctx[c].next \in Ctxs /\ r[ctx[c].next] < r[c]
                      /\ ctx[c].child # None => ctx[c].child \in Ctxs /\ r[ctx[c].child] < r[c]
  <2>1. \A c \in Ctxs : /\ ctx[c].next # None => ctx[c].next \in Ctxs /\ b[c] < b[ctx[c].next]
                        /\ ctx[c].child # None => ctx[c].child \in Ctxs /\ b[c] < b[ctx[c].child]
    BY <1>1 DEF Tree, Linked, Births, Used
  <2> QED
    BY <1>1, <2>1
<1>3. h \in [[Ctxs -> T] -> [Ctxs -> T]]
  <2>1. ASSUME NEW f \in [Ctxs -> T], NEW c \in Ctxs PROVE F(f)[c] \in T
    <3> DEFINE s == IF ctx[c].next = None THEN <<>> ELSE f[ctx[c].next]
               t == IF ctx[c].child = None THEN <<>> ELSE f[ctx[c].child]
    <3>1. s \in Seq(Ctxs) /\ t \in Seq(Ctxs)
      <4>1. <<>> \in Seq(Ctxs)
        OBVIOUS
      <4>2. /\ ctx[c].next # None => f[ctx[c].next] \in Seq(Ctxs)
            /\ ctx[c].child # None => f[ctx[c].child] \in Seq(Ctxs)
        <5> HIDE DEF r, F, h
        <5> QED BY <1>2
      <4> QED BY <4>1, <4>2
    <3>2. F(f)[c] = s \o t \o <<c>>
      OBVIOUS
    <3>3. <<c>> \in Seq(Ctxs)
      OBVIOUS
    <3> HIDE DEF s, t, F
    <3> QED BY <3>1, <3>2, <3>3, ConcatProperties
  <2> QED BY <2>1
<1>4. ASSUME NEW g \in [Ctxs -> T], NEW k \in [Ctxs -> T], NEW c \in Ctxs,
             \A d \in Ctxs : r[d] < r[c] => g[d] = k[d]
      PROVE  h[g][c] = h[k][c]
  <2>1. h[g][c] = F(g)[c] /\ h[k][c] = F(k)[c]
    OBVIOUS
  <2>2. /\ ctx[c].next # None => g[ctx[c].next] = k[ctx[c].next]
        /\ ctx[c].child # None => g[ctx[c].child] = k[ctx[c].child]
    <3> HIDE DEF r, h
    <3> QED BY <1>2, <1>4
  <2> HIDE DEF r, h
  <2> QED
    BY <2>1, <2>2
<1>5. PICK f \in [Ctxs -> T] : f = h[f]
  <2>1. <<>> \in T
    OBVIOUS
  <2>2. AsksBelow(h, Ctxs, T, r)
    <3> HIDE DEF T, h, r
    <3> QED BY <1>4 DEF AsksBelow
  <2>3. \E f \in [Ctxs -> T] : Solves(f, h)
    <3> HIDE DEF T, h, r
    <3> QED BY <1>3, <1>r, <2>1, <2>2, Recursion
  <2> QED BY <2>3 DEF Solves
<1>6. \E g : g = F(g)
  BY <1>5
<1>7. FreeTree = CHOOSE g : g = F(g)
  BY DEF FreeTree
<1>8. FreeTree = F(FreeTree)
  <2> HIDE DEF F
  <2> QED BY <1>6, <1>7
<1> QED
  BY <1>8

Elements(s) == {s[i] : i \in 1..Len(s)}
Distinct(s) == \A i, j \in 1..Len(s) : s[i] = s[j] => i = j

LEMMA JoinIs ==
    ASSUME NEW S, NEW s \in Seq(S), NEW t \in Seq(S)
    PROVE  /\ s \o t \in Seq(S) /\ Elements(s \o t) = Elements(s) \cup Elements(t)
           /\ Distinct(s) /\ Distinct(t) /\ Elements(s) \cap Elements(t) = {} => Distinct(s \o t)
<1> DEFINE u == s \o t
<1>1. /\ u \in Seq(S) /\ Len(u) = Len(s) + Len(t) /\ Len(s) \in Nat /\ Len(t) \in Nat
      /\ \A i \in 1..(Len(s) + Len(t)) : u[i] = IF i <= Len(s) THEN s[i] ELSE t[i - Len(s)]
  BY ConcatProperties
<1> HIDE DEF u
<1>2. \A i \in 1..Len(s) : i \in 1..Len(u) /\ u[i] = s[i]
  BY <1>1
<1>3. \A i \in 1..Len(t) : i + Len(s) \in 1..Len(u) /\ u[i + Len(s)] = t[i]
  <2> SUFFICES ASSUME NEW i \in 1..Len(t) PROVE i + Len(s) \in 1..Len(u) /\ u[i + Len(s)] = t[i]
    OBVIOUS
  <2>1. i + Len(s) \in 1..(Len(s) + Len(t)) /\ ~(i + Len(s) <= Len(s)) /\ (i + Len(s)) - Len(s) = i
    BY <1>1
  <2> QED BY <1>1, <2>1
<1>4. \A i \in 1..Len(u) : \/ i \in 1..Len(s) /\ u[i] = s[i]
                           \/ i - Len(s) \in 1..Len(t) /\ u[i] = t[i - Len(s)] /\ ~(i <= Len(s))
  BY <1>1
<1>5. Elements(u) = Elements(s) \cup Elements(t)
  <2>1. ASSUME NEW i \in 1..Len(u) PROVE u[i] \in Elements(s) \cup Elements(t)
    BY <1>4 DEF Elements
  <2>2. ASSUME NEW i \in 1..Len(s) PROVE s[i] \in Elements(u)
    BY <1>2 DEF Elements
  <2>3. ASSUME NEW i \in 1..Len(t) PROVE t[i] \in Elements(u)
    BY <1>3 DEF Elements
  <2> QED BY <2>1, <2>2, <2>3 DEF Elements
<1>6. ASSUME Distinct(s), Distinct(t), Elements(s) \cap Elements(t) = {} PROVE Distinct(u)
  <2> SUFFICES ASSUME NEW i \in 1..Len(u), NEW j \in 1..Len(u), u[i] = u[j] PROVE i = j
    BY DEF Distinct
  <2>1. CASE i \in 1..Len(s) /\ j \in 1..Len(s)
    BY <1>2, <1>6, <2>1 DEF Distinct
  <2>2. CASE i \notin 1..Len(s) /\ j \notin 1..Len(s)
    <3>1. i - Len(s) = j - Len(s)
      BY <1>4, <1>6, <2>2 DEF Distinct
    <3> QED BY <1>1, <3>1
  <2>3. CASE i \in 1..Len(s) /\ j \notin 1..Len(s)
    <3>1. u[i] \in Elements(s) /\ u[j] \in Elements(t)
      BY <1>2, <1>4, <2>3 DEF Elements
    <3> QED BY <1>6, <3>1
  <2>4. CASE i \notin 1..Len(s) /\ j \in 1..Len(s)
    <3>1. u[j] \in Elements(s) /\ u[i] \in Elements(t)
      BY <1>2, <1>4, <2>4 DEF Elements
    <3> QED BY <1>6, <3>1
  <2> QED BY <2>1, <2>2, <2>3, <2>4
<1> QED
  BY <1>1, <1>5, <1>6 DEF u

\* What is released with a context: itself and all that is linked from it
Released(c) == Elements(FreeTree[c])
Onward(c) == {d \in {ctx[c].next, ctx[c].child} : d # None}

LEMMA ReleasedIs ==
    ASSUME Typed, Tree
    PROVE  \A c \in Used :
              /\ FreeTree[c] \in Seq(Used)
              /\ Released(c) = {c} \cup UNION {Released(d) : d \in Onward(c)}
              /\ /\ \A d \in Onward(c) : Distinct(FreeTree[d]) /\ c \notin Released(d)
                 /\ \A d, e \in Onward(c) : d # e => Released(d) \cap Released(e) = {}
                 => Distinct(FreeTree[c])
<1>0. PICK n \in Nat : \E b \in [Ctxs -> 0..n] : Births(b)
  BY DEF Tree, Born
<1>1. PICK b \in [Ctxs -> 0..n] : Births(b)
  BY <1>0
<1> DEFINE r == [c \in Ctxs |-> n - b[c]]
           S == {c \in Ctxs : c \in Used => FreeTree[c] \in Seq(Used)}
           s(c) == IF ctx[c].next = None THEN <<>> ELSE FreeTree[ctx[c].next]
           t(c) == IF ctx[c].child = None THEN <<>> ELSE FreeTree[ctx[c].child]
<1>r. r \in [Ctxs -> Nat] /\ S \in SUBSET Ctxs
  BY <1>1
<1>2. \A c \in Used : \A d \in Onward(c) : d \in Used /\ d \in Ctxs /\ r[d] < r[c]
  <2>1. \A c \in Used : \A d \in Onward(c) : c \in Ctxs /\ d \in Used /\ d \in Ctxs /\ b[c] < b[d]
    BY <1>1, UsedFacts DEF Tree, Linked, Births, Onward
  <2> QED
    BY <1>1, <2>1
<1>3. \A c \in Ctxs : FreeTree[c] = s(c) \o t(c) \o <<c>>
  BY FreeTreeIs
<1>4. ASSUME NEW c \in Used, \A d \in Onward(c) : FreeTree[d] \in Seq(Used)
      PROVE  s(c) \in Seq(Used) /\ t(c) \in Seq(Used)
  <2>1. <<>> \in Seq(Used)
    OBVIOUS
  <2>2. ctx[c].next # None => ctx[c].next \in Onward(c)
    BY DEF Onward
  <2>3. ctx[c].child # None => ctx[c].child \in Onward(c)
    BY DEF Onward
  <2> QED
    BY <1>4, <2>1, <2>2, <2>3
<1>5. ASSUME NEW c \in Ctxs, \A d \in Ctxs : r[d] < r[c] => d \in S PROVE c \in S
  <2> SUFFICES ASSUME c \in Used PROVE FreeTree[c] \in Seq(Used)
    OBVIOUS
  <2>1. \A d \in Onward(c) : FreeTree[d] \in Seq(Used)
    <3> HIDE DEF r
    <3> QED BY <1>2, <1>5
  <2>2. s(c) \in Seq(Used) /\ t(c) \in Seq(Used) /\ <<c>> \in Seq(Used)
    <3>1. <<c>> \in Seq(Used)
      OBVIOUS
    <3> QED BY <1>4, <2>1, <3>1
  <2>3. FreeTree[c] = s(c) \o t(c) \o <<c>>
    BY <1>3
  <2> HIDE DEF s, t
  <2>4. s(c) \o t(c) \in Seq(Used)
    BY <2>2, ConcatProperties
  <2> QED BY <2>2, <2>3, <2>4, ConcatProperties
<1>6. \A c \in Used : FreeTree[c] \in Seq(Used)
  <2>1. \A c \in Ctxs : c \in S
    <3> HIDE DEF S, r
    <3> QED BY <1>5, <1>r, RankInduction
  <2> QED BY <2>1, UsedFacts
<1> SUFFICES ASSUME NEW c \in Used
             PROVE  /\ Released(c) = {c} \cup UNION {Released(d) : d \in Onward(c)}
                    /\ /\ \A d \in Onward(c) : Distinct(FreeTree[d]) /\ c \notin Released(d)
                       /\ \A d, e \in Onward(c) : d # e => Released(d) \cap Released(e) = {}
                       => Distinct(FreeTree[c])
  BY <1>6
<1>7. s(c) \in Seq(Used) /\ t(c) \in Seq(Used)
  BY <1>2, <1>4, <1>6
<1>8. <<c>> \in Seq(Used) /\ Elements(<<c>>) = {c} /\ Distinct(<<c>>)
  <2>1. <<c>> \in Seq(Used) /\ Len(<<c>>) = 1 /\ <<c>>[1] = c
    OBVIOUS
  <2>2. \A i \in 1..1 : i = 1
    OBVIOUS
  <2> QED BY <2>1, <2>2 DEF Elements, Distinct
<1>9. FreeTree[c] = s(c) \o t(c) \o <<c>>
  BY <1>3, UsedFacts
<1>10. Elements(<<>>) = {} /\ Distinct(<<>>)
  BY DEF Elements, Distinct
<1>11. /\ ctx[c].next = None => s(c) = <<>>
       /\ ctx[c].next # None => s(c) = FreeTree[ctx[c].next] /\ ctx[c].next \in Onward(c)
       /\ ctx[c].child = None => t(c) = <<>>
       /\ ctx[c].child # None => t(c) = FreeTree[ctx[c].child] /\ ctx[c].child \in Onward(c)
  BY DEF Onward
<1>12. /\ Elements(s(c)) = IF ctx[c].next = None THEN {} ELSE Released(ctx[c].next)
       /\ Elements(t(c)) = IF ctx[c].child = None THEN {} ELSE Released(ctx[c].child)
  BY <1>10 DEF Released
<1> HIDE DEF s, t
<1>13. /\ s(c) \o t(c) \in Seq(Used) /\ Elements(s(c) \o t(c)) = Elements(s(c)) \cup Elements(t(c))
       /\ Distinct(s(c)) /\ Distinct(t(c)) /\ Elements(s(c)) \cap Elements(t(c)) = {} => Distinct(s(c) \o t(c))
  BY <1>7, JoinIs
<1>14. /\ Elements(FreeTree[c]) = Elements(s(c) \o t(c)) \cup {c}
       /\ Distinct(s(c) \o t(c)) /\ c \notin Elements(s(c) \o t(c)) => Distinct(FreeTree[c])
  <2> DEFINE u == s(c) \o t(c)
             w == <<c>>
  <2>1. u \in Seq(Used) /\ w \in Seq(Used) /\ FreeTree[c] = u \o w /\ Elements(w) = {c} /\ Distinct(w)
    BY <1>8, <1>9, <1>13
  <2> HIDE DEF u, w
  <2>2. /\ Elements(u \o w) = Elements(u) \cup Elements(w)
        /\ Distinct(u) /\ Distinct(w) /\ Elements(u) \cap Elements(w) = {} => Distinct(u \o w)
    BY <2>1, JoinIs
  <2>3. Elements(FreeTree[c]) = Elements(u) \cup {c} /\ (Distinct(u) /\ c \notin Elements(u) => Distinct(FreeTree[c]))
    BY <2>1, <2>2
  <2> QED BY <2>3 DEF u
<1>15. Released(c) = {c} \cup UNION {Released(d) : d \in Onward(c)}
  BY <1>12, <1>13, <1>14 DEF Released, Onward
<1>16. ASSUME \A d \in Onward(c) : Distinct(FreeTree[d]) /\ c \notin Released(d),
              \A d, e \in Onward(c) : d # e => Released(d) \cap Released(e) = {}
       PROVE  Distinct(FreeTree[c])
  <2>1. Distinct(s(c)) /\ Distinct(t(c))
    BY <1>10, <1>11, <1>16
  <2>2. c \notin Elements(s(c)) /\ c \notin Elements(t(c))
    BY <1>11, <1>12, <1>16
  <2>3. ctx[c].next # None => ctx[c].next # ctx[c].child
    BY DEF Tree, LinkedOnce
  <2>4. Elements(s(c)) \cap Elements(t(c)) = {}
    BY <1>11, <1>12, <1>16, <2>3
  <2> QED
    BY <1>13, <1>14, <2>1, <2>2, <2>4
<1> QED
  BY <1>15, <1>16

LEMMA OnwardIs ==
    ASSUME Typed, Tree, NEW n \in Nat, NEW b \in [Ctxs -> 0..n], Births(b)
    PROVE  /\ \A y \in Used : \A x \in Onward(y) : x \in Used /\ b[y] < b[x]
           /\ \A y, z \in Used : \A x \in Onward(y) \cap Onward(z) : y = z
           /\ \A x \in Used \ {Main} : \E y \in Used : x \in Onward(y)
<1>1. \A y \in Used : \A x \in Onward(y) : x \in Used /\ b[y] < b[x]
  BY UsedFacts DEF Tree, Linked, Births, Onward
<1>2. \A y \in Used : \A x \in Used : x \in Onward(y) <=> LinkedFrom(y, x)
  BY UsedFacts DEF Onward, LinkedFrom
<1>3. \A y, z \in Used : \A x \in Onward(y) \cap Onward(z) : y = z
  BY <1>1, <1>2 DEF Tree, LinkedOnce
<1>4. \A x \in Used \ {Main} : \E y \in Used : x \in Onward(y)
  BY <1>2 DEF Tree, LinkedOnce
<1> QED
  BY <1>1, <1>3, <1>4

\* What is released with c is linked from c, directly or not
LEMMA ReleasedFrom ==
    ASSUME Typed, Tree, NEW n \in Nat, NEW b \in [Ctxs -> 0..n], Births(b), NEW c \in Used
    PROVE  /\ c \in Released(c) /\ Released(c) \in SUBSET Used
           /\ \A x \in Released(c) : b[c] <= b[x] /\ (x # c => \E y \in Released(c) : x \in Onward(y))
           /\ \A y \in Released(c) : \A x \in Onward(y) : x \in Released(c)
<1> DEFINE P(d) == /\ d \in Released(d) /\ Released(d) \in SUBSET Used
                   /\ \A x \in Released(d) : b[d] <= b[x] /\ (x # d => \E y \in Released(d) : x \in Onward(y))
                   /\ \A y \in Released(d) : \A x \in Onward(y) : x \in Released(d)
           r == [d \in Ctxs |-> n - b[d]]
           S == {d \in Ctxs : d \in Used => P(d)}
<1>1. r \in [Ctxs -> Nat] /\ S \in SUBSET Ctxs
  OBVIOUS
<1>2. ASSUME NEW d \in Ctxs, \A e \in Ctxs : r[e] < r[d] => e \in S PROVE d \in S
  <2> SUFFICES ASSUME d \in Used PROVE P(d)
    OBVIOUS
  <2>1. \A e \in Onward(d) : e \in Used /\ e \in Ctxs /\ b[d] < b[e]
    BY OnwardIs, UsedFacts
  <2>2. \A e \in Onward(d) : r[e] < r[d]
    BY <2>1
  <2>3. \A e \in Onward(d) : P(e)
    <3> HIDE DEF r, P
    <3> QED BY <1>2, <2>1, <2>2
  <2>4. Released(d) = {d} \cup UNION {Released(e) : e \in Onward(d)}
    BY ReleasedIs
  <2>5. d \in Released(d) /\ Released(d) \in SUBSET Used
    BY <2>3, <2>4
  <2>6. ASSUME NEW x \in Released(d)
        PROVE  b[d] <= b[x] /\ (x # d => \E y \in Released(d) : x \in Onward(y))
    <3>1. CASE x = d
      BY <3>1
    <3>2. CASE x # d
      <4>1. PICK e \in Onward(d) : x \in Released(e)
        BY <2>4, <3>2
      <4>2. b[e] <= b[x] /\ (x # e => \E y \in Released(e) : x \in Onward(y)) /\ x \in Ctxs
        BY <2>3, <4>1, UsedFacts
      <4>3. b[d] <= b[x]
        <5>1. b[d] < b[e] /\ b[d] \in Int /\ b[e] \in Int /\ b[x] \in Int
          BY <2>1, <4>1, <4>2
        <5> QED BY <4>2, <5>1
      <4>4. \E y \in Released(d) : x \in Onward(y)
        BY <2>4, <2>5, <4>1, <4>2
      <4> QED BY <4>3, <4>4
    <3> QED BY <3>1, <3>2
  <2>7. ASSUME NEW y \in Released(d), NEW x \in Onward(y) PROVE x \in Released(d)
    <3>1. CASE y = d
      BY <2>3, <2>4, <3>1
    <3>2. CASE y # d
      BY <2>3, <2>4, <3>2
    <3> QED BY <3>1, <3>2
  <2> QED BY <2>5, <2>6, <2>7
<1>3. c \in S
  <2> HIDE DEF S, r
  <2> QED BY <1>1, <1>2, UsedFacts, RankInduction
<1> QED
  BY <1>3

\* No context is released with two contexts that are linked from one
LEMMA ReleasedApart ==
    ASSUME Typed, Tree, NEW n \in Nat, NEW b \in [Ctxs -> 0..n], Births(b),
           NEW c \in Used, NEW d \in Onward(c), NEW e \in Onward(c), d # e
    PROVE  Released(d) \cap Released(e) = {}
<1> DEFINE S == {x \in Ctxs : x \notin Released(d) \cap Released(e)}
<1>1. b \in [Ctxs -> Nat] /\ S \in SUBSET Ctxs
  OBVIOUS
<1>2. d \in Used /\ e \in Used /\ d \in Ctxs /\ e \in Ctxs /\ c \in Ctxs /\ b[c] < b[d] /\ b[c] < b[e]
  BY OnwardIs, UsedFacts
<1>3. ASSUME NEW f \in {d, e}, c \in Released(f) PROVE FALSE
  <2>1. b[f] <= b[c] /\ b[c] < b[f] /\ b[f] \in Int /\ b[c] \in Int
    BY <1>2, <1>3, ReleasedFrom
  <2> QED BY <2>1
<1>4. ASSUME NEW x \in Ctxs, \A y \in Ctxs : b[y] < b[x] => y \in S PROVE x \in S
  <2> SUFFICES ASSUME x \in Released(d), x \in Released(e) PROVE FALSE
    OBVIOUS
  <2>1. x # d => \E y \in Released(d) : x \in Onward(y) /\ y \in Used
    BY <1>2, ReleasedFrom
  <2>2. x # e => \E y \in Released(e) : x \in Onward(y) /\ y \in Used
    BY <1>2, ReleasedFrom
  <2>3. CASE x = d
    <3>1. PICK y \in Released(e) : x \in Onward(y) /\ y \in Used
      BY <2>2, <2>3
    <3>2. y = c
      BY <2>3, <3>1, OnwardIs
    <3> QED BY <1>3, <3>1, <3>2
  <2>4. CASE x = e
    <3>1. PICK y \in Released(d) : x \in Onward(y) /\ y \in Used
      BY <2>1, <2>4
    <3>2. y = c
      BY <2>4, <3>1, OnwardIs
    <3> QED BY <1>3, <3>1, <3>2
  <2>5. CASE x # d /\ x # e
    <3>1. PICK y \in Released(d) : x \in Onward(y) /\ y \in Used
      BY <2>1, <2>5
    <3>2. PICK z \in Released(e) : x \in Onward(z) /\ z \in Used
      BY <2>2, <2>5
    <3>3. y = z /\ b[y] < b[x] /\ y \in Ctxs
      BY <3>1, <3>2, OnwardIs, UsedFacts
    <3> QED BY <1>4, <3>1, <3>2, <3>3
  <2> QED BY <2>3, <2>4, <2>5
<1>5. \A x \in Ctxs : x \in S
  <2> HIDE DEF S
  <2> QED BY <1>1, <1>4, RankInduction
<1>6. Released(d) \in SUBSET Ctxs
  BY <1>2, ReleasedFrom, UsedFacts
<1> QED
  BY <1>5, <1>6

LEMMA ReleasedOnce == ASSUME Typed, Tree PROVE Distinct(FreeTree[Main]) /\ Released(Main) = Used
<1>0. PICK n \in Nat : \E b \in [Ctxs -> 0..n] : Births(b)
  BY DEF Tree, Born
<1>1. PICK b \in [Ctxs -> 0..n] : Births(b)
  BY <1>0
<1> DEFINE r == [c \in Ctxs |-> n - b[c]]
           D == {c \in Ctxs : c \in Used => Distinct(FreeTree[c])}
           M == {c \in Ctxs : c \in Used => c \in Released(Main)}
<1>2. r \in [Ctxs -> Nat] /\ b \in [Ctxs -> Nat] /\ D \in SUBSET Ctxs /\ M \in SUBSET Ctxs
  BY <1>1
<1>3. Main \in Used /\ Used \in SUBSET Ctxs
  BY UsedFacts DEF Tree, Linked
<1>4. ASSUME NEW c \in Ctxs, \A d \in Ctxs : r[d] < r[c] => d \in D PROVE c \in D
  <2> SUFFICES ASSUME c \in Used PROVE Distinct(FreeTree[c])
    OBVIOUS
  <2>1. \A d \in Onward(c) : d \in Used /\ d \in Ctxs /\ b[c] < b[d]
    BY <1>1, <1>3, OnwardIs
  <2>2. \A d \in Onward(c) : r[d] < r[c]
    BY <1>1, <2>1
  <2>3. \A d \in Onward(c) : Distinct(FreeTree[d])
    <3> HIDE DEF r
    <3> QED BY <1>4, <2>1, <2>2
  <2>4. \A d \in Onward(c) : c \notin Released(d)
    <3> SUFFICES ASSUME NEW d \in Onward(c), c \in Released(d) PROVE FALSE
      OBVIOUS
    <3>1. b[d] <= b[c]
      BY <1>1, <2>1, ReleasedFrom
    <3>2. b[c] < b[d] /\ b[c] \in Int /\ b[d] \in Int
      BY <1>1, <2>1
    <3> QED BY <3>1, <3>2
  <2>5. \A d, e \in Onward(c) : d # e => Released(d) \cap Released(e) = {}
    BY <1>1, ReleasedApart
  <2> QED BY <2>3, <2>4, <2>5, ReleasedIs
<1>5. Main \in D
  <2> HIDE DEF D, r
  <2> QED BY <1>2, <1>3, <1>4, RankInduction
<1>6. ASSUME NEW c \in Ctxs, \A d \in Ctxs : b[d] < b[c] => d \in M PROVE c \in M
  <2> SUFFICES ASSUME c \in Used PROVE c \in Released(Main)
    OBVIOUS
  <2>1. CASE c = Main
    BY <1>1, <1>3, <2>1, ReleasedFrom
  <2>2. CASE c # Main
    <3>1. PICK y \in Used : c \in Onward(y)
      BY <1>1, <2>2, OnwardIs
    <3>2. b[y] < b[c] /\ y \in Ctxs
      BY <1>1, <1>3, <3>1, OnwardIs
    <3>3. y \in Released(Main)
      BY <1>6, <3>2
    <3> QED BY <1>1, <1>3, <3>1, <3>3, ReleasedFrom
  <2> QED BY <2>1, <2>2
<1>7. \A c \in Ctxs : c \in M
  <2> HIDE DEF M
  <2> QED BY <1>2, <1>6, RankInduction
<1>8. Released(Main) \in SUBSET Used
  BY <1>1, <1>3, ReleasedFrom
<1> QED
  BY <1>3, <1>5, <1>7, <1>8

\* When the program has ended, each context in use was released once
Settled == exit # None => \A c \in Ctxs : freed[c] = IF c \in Used THEN 1 ELSE 0

LEMMA ExitSettles == ASSUME IInv, Exit PROVE Settled'
<1> DEFINE s == FreeTree[Main]
           At(c) == {i \in 1..Len(s) : s[i] = c}
<1>1. freed' = [c \in Ctxs |-> Cardinality(At(c))] /\ UNCHANGED ctx
  BY DEF Exit
<1>2. Distinct(s) /\ Elements(s) = Used
  BY ReleasedOnce DEF IInv, Released
<1> HIDE DEF s
<1>3. ASSUME NEW c \in Ctxs PROVE Cardinality(At(c)) = IF c \in Used THEN 1 ELSE 0
  <2>1. CASE c \in Used
    <3>1. PICK i \in 1..Len(s) : s[i] = c
      BY <1>2, <2>1 DEF Elements
    <3>2. At(c) = {i}
      BY <1>2, <3>1 DEF Distinct
    <3>3. Cardinality(At(c)) = 1
      BY <3>2, FS_Singleton
    <3> QED BY <2>1, <3>3
  <2>2. CASE c \notin Used
    <3>1. At(c) = {}
      BY <1>2, <2>2 DEF Elements
    <3>2. Cardinality(At(c)) = 0
      BY <3>1, FS_EmptySet
    <3> QED BY <2>2, <3>2
  <2> QED BY <2>1, <2>2
<1> HIDE DEF At
<1>4. \A c \in Ctxs : freed'[c] = IF c \in Used THEN 1 ELSE 0
  BY <1>1, <1>3
<1>5. Used' = Used
  BY <1>1 DEF Used
<1> QED
  BY <1>4, <1>5 DEF Settled

LEMMA StepSettled == IInv /\ Settled /\ [Next]_vars => Settled'
<1> SUFFICES ASSUME IInv, Settled, [Next]_vars PROVE Settled'
  OBVIOUS
<1>1. CASE Exit
  BY <1>1, ExitSettles
<1>2. CASE exit = None /\ exit' = exit
  BY <1>2 DEF Settled
<1>3. CASE UNCHANGED vars
  <2>1. UNCHANGED <<ctx, freed, exit>>
    BY <1>3 DEF vars
  <2>2. Used' = Used
    BY <2>1 DEF Used
  <2> QED BY <2>1, <2>2 DEF Settled
<1>4. ASSUME NEW p \in Used, NEW use \in {"make", "eval", "pie"}, NEW loc \in Locs \cup {None},
             NEW level \in Levels \cup {None}, NEW search \in Searches, FromAttr(p, use, loc, level, search)
      PROVE  exit = None /\ exit' = exit
  BY <1>4 DEF FromAttr, Running
<1>5. ASSUME NEW p \in Used, Thread(p) PROVE exit = None /\ exit' = exit
  BY <1>5 DEF Thread, Running
<1>6. ASSUME NEW p \in Used, NEW dir \in Locs, Import(p, dir) PROVE exit = None /\ exit' = exit
  BY <1>6 DEF Import, Running
<1>7. ASSUME NEW c \in Used, LogError(c) PROVE exit = None /\ exit' = exit
  BY <1>7 DEF LogError, Running
<1>8. ASSUME NEW c \in Used, Leave(c) PROVE exit = None /\ exit' = exit
  BY <1>8 DEF Leave, Running
<1>9. ASSUME NEW c \in Used, NEW dir \in Locs \cup {None}, Save(c, dir) PROVE exit = None /\ exit' = exit
  BY <1>9 DEF Save, Running
<1> QED
  BY <1>1, <1>2, <1>3, <1>4, <1>5, <1>6, <1>7, <1>8, <1>9 DEF Next

\* Every context is in the list of its parent, and at the end of main() each
\* context that was made is released, once.
THEOREM Wholeness == Spec => []TreeWhole
<1>1. Init => Settled
  BY DEF Init, Settled
<1>2. IInv /\ Settled => TreeWhole
  <2> SUFFICES ASSUME IInv, Settled PROVE TreeWhole
    OBVIOUS
  <2>1. ASSUME NEW c \in Used \ {Main}
        PROVE  \E p \in Used : ctx[c].parent = p /\ \E i \in 1..Len(Children(p)) : Children(p)[i] = c
    <3>1. InList(c) /\ ctx[c].parent \in Used
      BY ListedByParent DEF IInv, Tree, Linked
    <3> QED BY <3>1 DEF InList
  <2> QED
    BY <2>1 DEF TreeWhole, Settled
<1>3. IInv /\ Settled /\ [Next]_vars => Settled'
  BY StepSettled
<1> QED
  BY <1>1, <1>2, <1>3, Invariance, PTL DEF Spec
=============================================================================
