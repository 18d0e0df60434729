---------------------------- MODULE CxpCache_proofs ----------------------------
(***************************************************************************)
(* The content cache keeps every name and every text apart, for any        *)
(* contexts, files and names.  Whatever the instructions do to the lists,  *)
(* they do it in steps of two kinds: an entry found by its name gets       *)
(* another content, or an entry of a name that is not found is appended.   *)
(* Both kinds are proved once, on arbitrary lists; every function of the   *)
(* cache is then one of them, and saving is two.                           *)
(***************************************************************************)
EXTENDS CxpCache, TLAPS, SequenceTheorems, FiniteSetTheorems, WellFoundedInduction

Entry ==
  [alias : Name \cup {NULL}, path : File \cup {NULL}, text : Nat \cup {NULL}, doc : Nat \cup {NULL}]

Cache == [Ctx -> Seq(Entry)]

(* An entry is of a file or an alias, and its contents were read from or     *)
(* stored under its name.                                                    *)
Named(e) == e.alias = NULL <=> e.path # NULL
From(e, st) == \A v \in {e.text, e.doc} \ {NULL} : <<BaseOf(KeyOf(e)), v>> \in st
Known(e, st) == e \in Entry /\ Named(e) /\ From(e, st)

Unhidden(k) ==
  \A c \in Ctx : \A i, j \in DOMAIN k[c] : i < j => ~Matches(KeyOf(k[c][j]), k[c][i])

Good(k, st) ==
  /\ k \in Cache
  /\ \A c \in Ctx : \A i \in DOMAIN k[c] : Known(k[c][i], st)
  /\ Unhidden(k)

(* What is found under n changes from the contents of a to those of b: only  *)
(* to a text of T and a DOM of D, sets of base names with versions.          *)
Turns(text, doc, newText, newDoc, base, T, D) ==
  /\ newText = text \/ <<base, newText>> \in T
  /\ \/ newDoc = doc
     \/ <<base, newDoc>> \in D
     \/ newDoc = NULL /\ <<base, newText>> \in T

Alters(k, l, T, D) ==
  \A c \in Ctx, n \in Name :
    Turns(GetBuffer(k, c, n), GetDoc(k, c, n), GetBuffer(l, c, n), GetDoc(l, c, n), BaseOf(n), T, D)

(* What a change of the lists from k to l is to do.                          *)
Sound(k, l, st, T, D) == Good(l, st) /\ Alters(k, l, T, D)

(* What a file holds is stored under its base name.                          *)
DiskStored == \A f \in File : <<f, disk[f]>> \in stored /\ <<Base[f], disk[f]>> \in stored

IInv ==
  /\ Good(cache, stored)
  /\ DiskStored
  /\ disk \in [File -> Nat] /\ clock \in Nat
  /\ caching \in Caching

--------------------------------------------------------------------------------
(* Lookups *)

(* The first of the matches exists. *)
LEMMA LeastIs ==
  ASSUME NEW S \in SUBSET Nat, S # {}
  PROVE  Least(S) \in S /\ \A j \in S : Least(S) <= j
<1>1. PICK i \in S : \A j \in S : ~(<<j, i>> \in OpToRel(<, Nat))
  BY NatLessThanWellFounded, WFMin
<1>2. ASSUME NEW j \in S
      PROVE  i <= j
  <2>1. i \in Nat /\ j \in Nat
    OBVIOUS
  <2>2. ~(j < i)
    BY <1>1, <2>1 DEF OpToRel
  <2> QED BY <2>1, <2>2
<1> QED
  BY <1>2 DEF Least

(* The chain of a context goes through contexts, and ends like the chain of  *)
(* each of them.                                                             *)
LEMMA ChainFacts ==
  ASSUME NEW c \in Ctx
  PROVE  /\ DOMAIN Chain[c] \subseteq Nat /\ 1 \in DOMAIN Chain[c] /\ Chain[c][1] = c
         /\ \A l \in DOMAIN Chain[c] : l >= 1 /\ Chain[c][l] \in Ctx
         /\ \A l, m \in DOMAIN Chain[c] : l <= m =>
              \E j \in DOMAIN Chain[Chain[c][l]] : Chain[Chain[c][l]][j] = Chain[c][m]
<1>1. Chain[c] \in Seq(Ctx) /\ Chain[c] # <<>> /\ Chain[c][1] = c
  BY ChainAssumption
<1>2. Len(Chain[c]) \in Nat \ {0} /\ DOMAIN Chain[c] = 1..Len(Chain[c])
  BY <1>1, EmptySeq, LenProperties
<1>3. \A l \in DOMAIN Chain[c] : Chain[c][l] \in Ctx
  BY <1>1, <1>2, ElementOfSeq
<1>4. ASSUME NEW l \in DOMAIN Chain[c], NEW m \in DOMAIN Chain[c], l <= m
      PROVE  \E j \in DOMAIN Chain[Chain[c][l]] : Chain[Chain[c][l]][j] = Chain[c][m]
  <2> DEFINE t == SubSeq(Chain[c], l, Len(Chain[c]))
  <2>1. Chain[Chain[c][l]] = t
    BY ChainAssumption
  <2>2. l \in Int /\ Len(Chain[c]) \in Int /\ \A i \in l..Len(Chain[c]) : Chain[c][i] \in Ctx
    BY <1>2, <1>3
  <2>3. /\ t \in Seq(Ctx) /\ Len(t) = Len(Chain[c]) - l + 1
        /\ \A i \in 1..(Len(Chain[c]) - l + 1) : t[i] = Chain[c][l + i - 1]
    BY <1>2, <2>2, SubSeqProperties
  <2>4. m - l + 1 \in 1..(Len(Chain[c]) - l + 1) /\ l + (m - l + 1) - 1 = m
    BY <1>2, <1>4
  <2>5. t[m - l + 1] = Chain[c][m] /\ m - l + 1 \in DOMAIN t
    BY <2>3, <2>4, LenProperties
  <2> QED
    BY <2>1, <2>5
<1> QED
  BY <1>1, <1>2, <1>3, <1>4

(* The lists that a lookup walks. *)
LEMMA ListFacts ==
  ASSUME NEW k \in Cache, NEW c \in Ctx
  PROVE  /\ k[c] \in Seq(Entry) /\ Len(k[c]) \in Nat /\ DOMAIN k[c] = 1..Len(k[c])
         /\ \A i \in DOMAIN k[c] : k[c][i] \in Entry
BY LenProperties, ElementOfSeq DEF Cache

LEMMA HitsNat ==
  ASSUME NEW k \in Cache, NEW c \in Ctx, NEW n, NEW l \in DOMAIN Chain[c]
  PROVE  l \in Nat /\ Hits(k, c, n, l) \in SUBSET Nat
<1>1. l \in Nat /\ Chain[c][l] \in Ctx
  BY ChainFacts
<1>2. DOMAIN k[Chain[c][l]] \subseteq Nat
  BY <1>1, ListFacts
<1> QED
  BY <1>1, <1>2 DEF Hits

(* A lookup without result has found no match in any list. *)
LEMMA LookupMiss ==
  ASSUME NEW k \in Cache, NEW c \in Ctx, NEW n, GetResNode(k, c, n) = NULL
  PROVE  \A l \in DOMAIN Chain[c] : Hits(k, c, n, l) = {}
<1> DEFINE levels == {l \in DOMAIN Chain[c] : Hits(k, c, n, l) # {}}
<1> SUFFICES ASSUME levels # {} PROVE FALSE
  OBVIOUS
<1>1. levels \in SUBSET Nat
  BY ChainFacts
<1>2. Least(levels) \in levels
  BY <1>1, LeastIs
<1>3. Hits(k, c, n, Least(levels)) # {} /\ Hits(k, c, n, Least(levels)) \in SUBSET Nat /\ Least(levels) \in Nat
  BY <1>2, HitsNat
<1>4. Least(Hits(k, c, n, Least(levels))) \in Nat
  BY <1>3, LeastIs
<1>5. GetResNode(k, c, n) = <<Least(levels), Least(Hits(k, c, n, Least(levels)))>>
  BY DEF GetResNode
<1>6. NULL \in Nat \X Nat
  BY <1>3, <1>4, <1>5
<1> QED
  BY <1>6, NullAssumption

(* A lookup finds the first match of the nearest list that has one. *)
LEMMA LookupHit ==
  ASSUME NEW k \in Cache, NEW c \in Ctx, NEW n, GetResNode(k, c, n) # NULL
  PROVE  \E l \in DOMAIN Chain[c] : \E i \in Hits(k, c, n, l) :
           /\ GetResNode(k, c, n) = <<l, i>>
           /\ \A m \in DOMAIN Chain[c] : m < l => Hits(k, c, n, m) = {}
           /\ \A j \in Hits(k, c, n, l) : i <= j
<1> DEFINE levels == {l \in DOMAIN Chain[c] : Hits(k, c, n, l) # {}}
<1>1. levels # {}
  BY DEF GetResNode
<1>2. levels \in SUBSET Nat
  BY ChainFacts
<1>3. Least(levels) \in levels /\ \A m \in levels : Least(levels) <= m
  BY <1>1, <1>2, LeastIs
<1> DEFINE l == Least(levels)
<1>4. Hits(k, c, n, l) # {} /\ Hits(k, c, n, l) \in SUBSET Nat
  BY <1>3, HitsNat
<1>5. Least(Hits(k, c, n, l)) \in Hits(k, c, n, l) /\ \A j \in Hits(k, c, n, l) : Least(Hits(k, c, n, l)) <= j
  BY <1>4, LeastIs
<1>6. GetResNode(k, c, n) = <<l, Least(Hits(k, c, n, l))>>
  BY <1>1 DEF GetResNode
<1>7. ASSUME NEW m \in DOMAIN Chain[c], m < l
      PROVE  Hits(k, c, n, m) = {}
  <2>1. m \in Nat /\ l \in Nat /\ ~(l <= m)
    BY <1>2, <1>3, <1>7, HitsNat
  <2>2. m \notin levels
    BY <1>3, <2>1
  <2> QED BY <2>2
<1> QED
  BY <1>3, <1>5, <1>6, <1>7

(* A lookup with a match somewhere has a result. *)
LEMMA LookupFinds ==
  ASSUME NEW k \in Cache, NEW c \in Ctx, NEW n, NEW l \in DOMAIN Chain[c], NEW i \in Hits(k, c, n, l)
  PROVE  GetResNode(k, c, n) # NULL
BY LookupMiss

--------------------------------------------------------------------------------
(* The two kinds of changes *)

(* Entries that differ in their contents only match the same names. *)
LEMMA SameMatches ==
  ASSUME NEW d, NEW e, d.alias = e.alias, d.path = e.path, NEW n
  PROVE  (Matches(n, d) <=> Matches(n, e)) /\ KeyOf(d) = KeyOf(e)
BY DEF Matches, KeyOf

(* An entry that a name finds is of the base name of that name. *)
LEMMA MatchesBase ==
  ASSUME NEW e \in Entry, Named(e), NEW n \in Name, Matches(n, e)
  PROVE  BaseOf(KeyOf(e)) = BaseOf(n)
<1>1. n # NULL
  BY NullAssumption
<1>2. CASE e.alias = n
  BY <1>1, <1>2 DEF KeyOf
<1>3. CASE e.path # NULL /\ Base[e.path] = BaseOf(n)
  <2>1. e.path \in File /\ KeyOf(e) = e.path
    BY <1>3 DEF Entry, Named, KeyOf
  <2> QED
    BY <1>3, <2>1 DEF BaseOf
<1> QED
  BY <1>2, <1>3 DEF Matches

(* Lists that differ in one entry, which keeps its name. *)
LEMMA UpdateLists ==
  ASSUME NEW k \in Cache, NEW d \in Ctx, NEW i \in DOMAIN k[d], NEW e \in Entry
  PROVE  LET l == [k EXCEPT ![d][i] = e]
         IN /\ l \in Cache
            /\ \A c \in Ctx : DOMAIN l[c] = DOMAIN k[c]
            /\ \A c \in Ctx : \A j \in DOMAIN k[c] : l[c][j] = IF c = d /\ j = i THEN e ELSE k[c][j]
<1> DEFINE s == [k[d] EXCEPT ![i] = e]
           l == [k EXCEPT ![d][i] = e]
<1>1. k[d] \in Seq(Entry) /\ i \in 1..Len(k[d]) /\ DOMAIN k[d] = 1..Len(k[d])
  BY ListFacts
<1>2. /\ s \in Seq(Entry) /\ Len(s) = Len(k[d]) /\ DOMAIN s = DOMAIN k[d]
      /\ \A j \in DOMAIN k[d] : s[j] = IF j = i THEN e ELSE k[d][j]
  BY <1>1, ExceptSeq, LenProperties
<1> HIDE DEF s
<1>3. l = [k EXCEPT ![d] = s]
  BY DEF s
<1>4. l \in Cache /\ \A c \in Ctx : l[c] = IF c = d THEN s ELSE k[c]
  BY <1>2, <1>3 DEF Cache
<1> HIDE DEF l
<1>5. \A c \in Ctx : DOMAIN l[c] = DOMAIN k[c]
  BY <1>2, <1>4
<1>6. ASSUME NEW c \in Ctx, NEW j \in DOMAIN k[c]
      PROVE  l[c][j] = IF c = d /\ j = i THEN e ELSE k[c][j]
  BY <1>2, <1>4
<1> QED
  BY <1>4, <1>5, <1>6 DEF l

(* Lists that differ in the contents of an entry: each lookup finds the same *)
(* entry as before.                                                          *)
LEMMA UpdateFinds ==
  ASSUME NEW k, NEW st, Good(k, st), NEW d \in Ctx, NEW i \in DOMAIN k[d],
         NEW e \in Entry, e.alias = k[d][i].alias, e.path = k[d][i].path,
         NEW c \in Ctx, NEW n
  PROVE  LET l == [k EXCEPT ![d][i] = e]
             h == GetResNode(k, c, n)
         IN /\ GetResNode(l, c, n) = h
            /\ h # NULL => /\ Chain[c][h[1]] \in Ctx /\ h[2] \in DOMAIN k[Chain[c][h[1]]]
                           /\ EntryAt(l, c, h) = IF Chain[c][h[1]] = d /\ h[2] = i THEN e
                                                 ELSE EntryAt(k, c, h)
<1> DEFINE l == [k EXCEPT ![d][i] = e]
           h == GetResNode(k, c, n)
<1>1. k \in Cache
  BY DEF Good
<1>2. /\ l \in Cache
      /\ \A x \in Ctx : DOMAIN l[x] = DOMAIN k[x]
      /\ \A x \in Ctx : \A j \in DOMAIN k[x] : l[x][j] = IF x = d /\ j = i THEN e ELSE k[x][j]
  BY <1>1, UpdateLists
<1> HIDE DEF l
<1>3. ASSUME NEW x \in Ctx, NEW j \in DOMAIN k[x]
      PROVE  Matches(n, l[x][j]) <=> Matches(n, k[x][j])
  BY <1>2, SameMatches
<1>4. ASSUME NEW m \in DOMAIN Chain[c]
      PROVE  Hits(l, c, n, m) = Hits(k, c, n, m)
  <2>1. Chain[c][m] \in Ctx
    BY ChainFacts
  <2> QED
    BY <1>2, <1>3, <2>1 DEF Hits
<1>5. GetResNode(l, c, n) = h
  <2>1. {m \in DOMAIN Chain[c] : Hits(l, c, n, m) # {}} = {m \in DOMAIN Chain[c] : Hits(k, c, n, m) # {}}
    BY <1>4
  <2> DEFINE levels == {m \in DOMAIN Chain[c] : Hits(k, c, n, m) # {}}
  <2>2. CASE levels = {}
    BY <2>1, <2>2 DEF GetResNode
  <2>3. CASE levels # {}
    <3>1. Least(levels) \in DOMAIN Chain[c]
      <4>1. levels \in SUBSET Nat /\ levels \subseteq DOMAIN Chain[c]
        BY ChainFacts
      <4> HIDE DEF levels
      <4> QED BY <2>3, <4>1, LeastIs
    <3>2. Hits(l, c, n, Least(levels)) = Hits(k, c, n, Least(levels))
      BY <1>4, <3>1
    <3> QED
      BY <2>1, <2>3, <3>2 DEF GetResNode
  <2> QED BY <2>2, <2>3
<1>6. ASSUME h # NULL
      PROVE  /\ Chain[c][h[1]] \in Ctx /\ h[2] \in DOMAIN k[Chain[c][h[1]]]
             /\ EntryAt(l, c, h) = IF Chain[c][h[1]] = d /\ h[2] = i THEN e ELSE EntryAt(k, c, h)
  <2>1. PICK m \in DOMAIN Chain[c] : \E j \in Hits(k, c, n, m) : h = <<m, j>>
    BY <1>1, <1>6, LookupHit
  <2>2. PICK j \in Hits(k, c, n, m) : h = <<m, j>>
    BY <2>1
  <2>3. Chain[c][m] \in Ctx /\ j \in DOMAIN k[Chain[c][m]] /\ h[1] = m /\ h[2] = j
    BY <2>2, ChainFacts DEF Hits
  <2> QED
    BY <1>2, <2>3 DEF EntryAt
<1> QED
  BY <1>5, <1>6 DEF l

(* An entry that gets other contents of its name leaves the lists good, and  *)
(* what is found changes as the entry does.                                  *)
LEMMA UpdateSound ==
  ASSUME NEW k, NEW st, Good(k, st), NEW d \in Ctx, NEW i \in DOMAIN k[d],
         NEW e, Known(e, st), e.alias = k[d][i].alias, e.path = k[d][i].path, NEW T, NEW D,
         Turns(k[d][i].text, ContentDoc(k[d][i]), e.text, ContentDoc(e), BaseOf(KeyOf(e)), T, D)
  PROVE  Sound(k, [k EXCEPT ![d][i] = e], st, T, D)
<1> DEFINE l == [k EXCEPT ![d][i] = e]
<1>1. k \in Cache /\ e \in Entry
  BY DEF Good, Known
<1>2. /\ l \in Cache
      /\ \A c \in Ctx : DOMAIN l[c] = DOMAIN k[c]
      /\ \A c \in Ctx : \A j \in DOMAIN k[c] : l[c][j] = IF c = d /\ j = i THEN e ELSE k[c][j]
  BY <1>1, UpdateLists
<1>7. \A c \in Ctx, n \in Name :
        LET h == GetResNode(k, c, n)
        IN /\ GetResNode(l, c, n) = h
           /\ h # NULL => /\ Chain[c][h[1]] \in Ctx /\ h[2] \in DOMAIN k[Chain[c][h[1]]]
                          /\ EntryAt(l, c, h) = IF Chain[c][h[1]] = d /\ h[2] = i THEN e
                                                ELSE EntryAt(k, c, h)
  BY <1>1, UpdateFinds
<1> HIDE DEF l
<1>3. ASSUME NEW c \in Ctx, NEW j \in DOMAIN k[c], NEW n
      PROVE  /\ Matches(n, l[c][j]) <=> Matches(n, k[c][j])
             /\ KeyOf(l[c][j]) = KeyOf(k[c][j])
             /\ Known(l[c][j], st)
  <2>1. CASE c = d /\ j = i
    BY <1>2, <2>1, SameMatches
  <2>2. CASE ~(c = d /\ j = i)
    BY <1>2, <2>2 DEF Good
  <2> QED BY <2>1, <2>2
<1>4. Unhidden(l)
  <2> SUFFICES ASSUME NEW c \in Ctx, NEW x \in DOMAIN l[c], NEW y \in DOMAIN l[c], x < y
               PROVE  ~Matches(KeyOf(l[c][y]), l[c][x])
    BY DEF Unhidden
  <2>1. x \in DOMAIN k[c] /\ y \in DOMAIN k[c]
    BY <1>2
  <2>2. ~Matches(KeyOf(k[c][y]), k[c][x])
    BY <2>1 DEF Good, Unhidden
  <2>3. KeyOf(l[c][y]) = KeyOf(k[c][y])
    BY <1>3, <2>1
  <2> QED
    BY <1>3, <2>1, <2>2, <2>3
<1>5. Good(l, st)
  BY <1>2, <1>3, <1>4 DEF Good
<1>6. ASSUME NEW c \in Ctx, NEW n \in Name
      PROVE  Turns(GetBuffer(k, c, n), GetDoc(k, c, n), GetBuffer(l, c, n), GetDoc(l, c, n), BaseOf(n), T, D)
  <2> DEFINE h == GetResNode(k, c, n)
             changed == Chain[c][h[1]] = d /\ h[2] = i
  <2>1. /\ GetResNode(l, c, n) = h
        /\ h # NULL => EntryAt(l, c, h) = IF changed THEN e ELSE EntryAt(k, c, h)
    BY <1>7
  <2>2. CASE h = NULL \/ ~changed
    BY <2>1, <2>2 DEF GetBuffer, GetDoc, Turns
  <2>3. CASE h # NULL /\ changed
    <3>1. EntryAt(k, c, h) = k[d][i] /\ EntryAt(l, c, h) = e
      BY <2>1, <2>3 DEF EntryAt
    <3>2. Matches(n, e) /\ e \in Entry /\ Named(e)
      <4>1. PICK m \in DOMAIN Chain[c] : \E j \in Hits(k, c, n, m) : h = <<m, j>>
        BY <1>1, <2>3, LookupHit
      <4>2. PICK j \in Hits(k, c, n, m) : h = <<m, j>>
        BY <4>1
      <4>3. Matches(n, k[d][i])
        BY <2>3, <4>2 DEF Hits
      <4> QED
        BY <4>3, SameMatches DEF Known
    <3>3. BaseOf(KeyOf(e)) = BaseOf(n)
      BY <3>2, MatchesBase
    <3>4. /\ GetBuffer(k, c, n) = k[d][i].text /\ GetDoc(k, c, n) = ContentDoc(k[d][i])
          /\ GetBuffer(l, c, n) = e.text /\ GetDoc(l, c, n) = ContentDoc(e)
      BY <2>1, <2>3, <3>1 DEF GetBuffer, GetDoc
    <3> QED
      BY <3>3, <3>4
  <2> HIDE DEF changed
  <2> QED BY <2>2, <2>3
<1> QED
  BY <1>5, <1>6 DEF Sound, Alters, l

(* An entry that is appended is the last of its list. *)
LEMMA AppendLists ==
  ASSUME NEW k \in Cache, NEW d \in Ctx, NEW e \in Entry
  PROVE  LET l == [k EXCEPT ![d] = Append(@, e)]
         IN /\ l \in Cache
            /\ \A c \in Ctx : c # d => l[c] = k[c]
            /\ Len(k[d]) \in Nat /\ DOMAIN k[d] = 1..Len(k[d]) /\ DOMAIN l[d] = 1..(Len(k[d]) + 1)
            /\ \A j \in DOMAIN k[d] : l[d][j] = k[d][j]
            /\ l[d][Len(k[d]) + 1] = e
<1> DEFINE s == Append(k[d], e)
           l == [k EXCEPT ![d] = Append(@, e)]
<1>1. k[d] \in Seq(Entry) /\ Len(k[d]) \in Nat /\ DOMAIN k[d] = 1..Len(k[d])
  BY ListFacts
<1>2. /\ s \in Seq(Entry) /\ Len(s) = Len(k[d]) + 1
      /\ \A j \in DOMAIN k[d] : s[j] = k[d][j]
      /\ s[Len(k[d]) + 1] = e
  BY <1>1, AppendProperties
<1>3. DOMAIN s = 1..(Len(k[d]) + 1)
  BY <1>2, LenProperties
<1> HIDE DEF s
<1>4. l = [k EXCEPT ![d] = s]
  BY DEF s
<1>5. l \in Cache /\ l[d] = s /\ \A c \in Ctx : c # d => l[c] = k[c]
  BY <1>2, <1>4 DEF Cache
<1> QED
  BY <1>1, <1>2, <1>3, <1>5

(* Where an entry is appended, a lookup finds that entry or what it found.   *)
(* If the chain of the list had no match of the name, whoever finds the new  *)
(* entry found nothing.                                                      *)
LEMMA AppendFinds ==
  ASSUME NEW k \in Cache, NEW d \in Ctx, NEW e \in Entry, NEW c \in Ctx, NEW n
  PROVE  LET l == [k EXCEPT ![d] = Append(@, e)]
             g == GetResNode(l, c, n)
         IN \/ g = GetResNode(k, c, n) /\ (g # NULL => EntryAt(l, c, g) = EntryAt(k, c, g))
            \/ /\ g # NULL /\ EntryAt(l, c, g) = e /\ Matches(n, e)
               /\ GetResNode(k, d, n) = NULL => GetResNode(k, c, n) = NULL
<1> DEFINE l == [k EXCEPT ![d] = Append(@, e)]
           g == GetResNode(l, c, n)
           new == Len(k[d]) + 1
<1>2. /\ l \in Cache
      /\ \A x \in Ctx : x # d => l[x] = k[x]
      /\ Len(k[d]) \in Nat /\ DOMAIN k[d] = 1..Len(k[d]) /\ DOMAIN l[d] = 1..new
      /\ \A j \in DOMAIN k[d] : l[d][j] = k[d][j]
      /\ l[d][new] = e
  BY AppendLists
<1> HIDE DEF l
<1>4. ASSUME NEW x \in Ctx, NEW j \in DOMAIN k[x]
      PROVE  l[x][j] = k[x][j] /\ j \in DOMAIN l[x]
  BY <1>2
<1>5. ASSUME NEW x \in Ctx, NEW j \in DOMAIN l[x]
      PROVE  j \in DOMAIN k[x] \/ (x = d /\ j = new)
  BY <1>2
<1>6. \A x \in DOMAIN Chain[c] : Hits(k, c, n, x) \subseteq Hits(l, c, n, x)
  <2>1. \A x \in DOMAIN Chain[c] : Chain[c][x] \in Ctx
    BY ChainFacts
  <2> QED
    BY <1>4, <2>1 DEF Hits
<1>7. CASE g = NULL
  <2>1. \A x \in DOMAIN Chain[c] : Hits(l, c, n, x) = {}
    BY <1>2, <1>7, LookupMiss
  <2>2. {x \in DOMAIN Chain[c] : Hits(k, c, n, x) # {}} = {}
    BY <1>6, <2>1
  <2>3. GetResNode(k, c, n) = NULL
    BY <2>2 DEF GetResNode
  <2> QED
    BY <1>7, <2>3 DEF l
<1>8. CASE g # NULL
  <2>1. PICK p \in DOMAIN Chain[c] : \E q \in Hits(l, c, n, p) :
           /\ g = <<p, q>>
           /\ \A x \in DOMAIN Chain[c] : x < p => Hits(l, c, n, x) = {}
           /\ \A j \in Hits(l, c, n, p) : q <= j
    BY <1>2, <1>8, LookupHit
  <2>2. PICK q \in Hits(l, c, n, p) :
           /\ g = <<p, q>>
           /\ \A x \in DOMAIN Chain[c] : x < p => Hits(l, c, n, x) = {}
           /\ \A j \in Hits(l, c, n, p) : q <= j
    BY <2>1
  <2>3. /\ Chain[c][p] \in Ctx /\ q \in DOMAIN l[Chain[c][p]] /\ Matches(n, l[Chain[c][p]][q])
        /\ EntryAt(l, c, g) = l[Chain[c][p]][q]
    BY <2>2, ChainFacts DEF Hits, EntryAt
  <2>4. CASE Chain[c][p] = d /\ q = new
    <3>1. EntryAt(l, c, g) = e /\ Matches(n, e)
      BY <1>2, <2>3, <2>4
    <3>2. ASSUME GetResNode(k, d, n) = NULL PROVE GetResNode(k, c, n) = NULL
      <4>1. ASSUME NEW m \in DOMAIN Chain[c] PROVE Hits(k, c, n, m) = {}
        <5>1. m \in Nat /\ p \in Nat
          BY ChainFacts
        <5>2. CASE m < p
          BY <1>6, <2>2, <5>2
        <5>3. CASE p <= m
          <6>1. PICK x \in DOMAIN Chain[d] : Chain[d][x] = Chain[c][m]
            BY <2>4, <5>3, ChainFacts
          <6>2. Hits(k, d, n, x) = {}
            BY <3>2, LookupMiss
          <6> QED
            BY <6>1, <6>2 DEF Hits
        <5> QED BY <5>1, <5>2, <5>3
      <4>2. {x \in DOMAIN Chain[c] : Hits(k, c, n, x) # {}} = {}
        BY <4>1
      <4> QED
        BY <4>2 DEF GetResNode
    <3> QED
      BY <1>8, <3>1, <3>2 DEF l
  <2>5. CASE ~(Chain[c][p] = d /\ q = new)
    <3>1. q \in DOMAIN k[Chain[c][p]]
      BY <1>5, <2>3, <2>5
    <3>2. l[Chain[c][p]][q] = k[Chain[c][p]][q]
      BY <1>4, <2>3, <3>1
    <3>3. q \in Hits(k, c, n, p)
      BY <2>3, <3>1, <3>2 DEF Hits
    <3>4. PICK m \in DOMAIN Chain[c] : \E i \in Hits(k, c, n, m) :
             /\ GetResNode(k, c, n) = <<m, i>>
             /\ \A x \in DOMAIN Chain[c] : x < m => Hits(k, c, n, x) = {}
             /\ \A j \in Hits(k, c, n, m) : i <= j
      BY <3>3, LookupFinds, LookupHit
    <3>5. PICK i \in Hits(k, c, n, m) :
             /\ GetResNode(k, c, n) = <<m, i>>
             /\ \A x \in DOMAIN Chain[c] : x < m => Hits(k, c, n, x) = {}
             /\ \A j \in Hits(k, c, n, m) : i <= j
      BY <3>4
    <3>6. m = p
      <4>1. m \in Nat /\ p \in Nat
        BY ChainFacts
      <4>2. Hits(l, c, n, m) # {} /\ Hits(k, c, n, p) # {}
        BY <1>6, <3>3, <3>5
      <4>3. ~(m < p) /\ ~(p < m)
        BY <2>2, <3>5, <4>2
      <4> QED BY <4>1, <4>3
    <3>7. i = q
      <4>1. q \in Nat /\ i \in Nat
        BY <3>3, <3>5, HitsNat
      <4>2. q <= i /\ i <= q
        BY <1>6, <2>2, <3>3, <3>5, <3>6
      <4> QED BY <4>1, <4>2
    <3>8. g = GetResNode(k, c, n) /\ EntryAt(l, c, g) = EntryAt(k, c, g)
      BY <2>2, <3>2, <3>5, <3>6, <3>7 DEF EntryAt
    <3> QED
      BY <3>8 DEF l
  <2> QED BY <2>4, <2>5
<1> QED
  BY <1>7, <1>8

(* An entry is appended for a name that its list does not have.  If its text *)
(* is none of the new ones, the chain does not have the name either.         *)
LEMMA AppendSound ==
  ASSUME NEW k, NEW st, Good(k, st), NEW d \in Ctx, NEW e, Known(e, st), NEW T, NEW D,
         k[d] = <<>> \/ GetResNode(k, d, KeyOf(e)) = NULL,
         <<BaseOf(KeyOf(e)), ContentDoc(e)>> \in D \/ ContentDoc(e) = NULL,
         \/ <<BaseOf(KeyOf(e)), e.text>> \in T
         \/ e.text = NULL /\ e.path = NULL /\ GetResNode(k, d, KeyOf(e)) = NULL
  PROVE  Sound(k, [k EXCEPT ![d] = Append(@, e)], st, T, D)
<1> DEFINE l == [k EXCEPT ![d] = Append(@, e)]
           new == Len(k[d]) + 1
<1>1. k \in Cache /\ e \in Entry
  BY DEF Good, Known
<1>2. /\ l \in Cache
      /\ \A c \in Ctx : c # d => l[c] = k[c]
      /\ Len(k[d]) \in Nat /\ DOMAIN k[d] = 1..Len(k[d]) /\ DOMAIN l[d] = 1..new
      /\ \A j \in DOMAIN k[d] : l[d][j] = k[d][j]
      /\ l[d][new] = e
  BY <1>1, AppendLists
<1>9. \A c \in Ctx, n \in Name :
        LET g == GetResNode(l, c, n)
        IN \/ g = GetResNode(k, c, n) /\ (g # NULL => EntryAt(l, c, g) = EntryAt(k, c, g))
           \/ /\ g # NULL /\ EntryAt(l, c, g) = e /\ Matches(n, e)
              /\ GetResNode(k, d, n) = NULL => GetResNode(k, c, n) = NULL
  BY <1>1, AppendFinds
<1> HIDE DEF l
<1>3. \A i \in DOMAIN k[d] : ~Matches(KeyOf(e), k[d][i])
  <2>1. CASE k[d] = <<>>
    <3>1. Len(k[d]) = 0
      BY <2>1, EmptySeq
    <3> QED
      BY <1>2, <3>1
  <2>2. CASE GetResNode(k, d, KeyOf(e)) = NULL
    <3>1. Hits(k, d, KeyOf(e), 1) = {} /\ Chain[d][1] = d
      BY <1>1, <2>2, ChainFacts, LookupMiss
    <3> QED
      BY <3>1 DEF Hits
  <2> QED BY <2>1, <2>2
<1>4. ASSUME NEW c \in Ctx, NEW j \in DOMAIN k[c]
      PROVE  l[c][j] = k[c][j] /\ j \in DOMAIN l[c]
  BY <1>2
<1>5. ASSUME NEW c \in Ctx, NEW j \in DOMAIN l[c]
      PROVE  j \in DOMAIN k[c] \/ (c = d /\ j = new)
  BY <1>2
<1>6. Unhidden(l)
  <2> SUFFICES ASSUME NEW c \in Ctx, NEW x \in DOMAIN l[c], NEW y \in DOMAIN l[c], x < y
               PROVE  ~Matches(KeyOf(l[c][y]), l[c][x])
    BY DEF Unhidden
  <2>1. CASE c # d
    BY <1>2, <2>1 DEF Good, Unhidden
  <2>2. CASE c = d /\ y = new
    <3>1. x \in DOMAIN k[d]
      BY <1>2, <2>2
    <3> QED
      BY <1>2, <1>3, <2>2, <3>1
  <2>3. CASE c = d /\ y # new
    <3>1. x \in DOMAIN k[d] /\ y \in DOMAIN k[d]
      BY <1>2, <2>3
    <3> QED
      BY <1>2, <2>3, <3>1 DEF Good, Unhidden
  <2> QED BY <2>1, <2>2, <2>3
<1>7. \A c \in Ctx : \A j \in DOMAIN l[c] : Known(l[c][j], st)
  BY <1>2, <1>4, <1>5 DEF Good
<1>8. ASSUME NEW c \in Ctx, NEW n \in Name
      PROVE  Turns(GetBuffer(k, c, n), GetDoc(k, c, n), GetBuffer(l, c, n), GetDoc(l, c, n), BaseOf(n), T, D)
  <2> DEFINE g == GetResNode(l, c, n)
  <2>1. CASE g = GetResNode(k, c, n) /\ (g # NULL => EntryAt(l, c, g) = EntryAt(k, c, g))
    BY <2>1 DEF GetBuffer, GetDoc, Turns
  <2>2. CASE /\ g # NULL /\ EntryAt(l, c, g) = e /\ Matches(n, e)
             /\ GetResNode(k, d, n) = NULL => GetResNode(k, c, n) = NULL
    <3>1. BaseOf(KeyOf(e)) = BaseOf(n)
      BY <1>1, <2>2, MatchesBase DEF Known
    <3>2. GetBuffer(l, c, n) = e.text /\ GetDoc(l, c, n) = ContentDoc(e)
      BY <2>2 DEF GetBuffer, GetDoc
    <3>3. CASE <<BaseOf(KeyOf(e)), e.text>> \in T
      BY <3>1, <3>2, <3>3 DEF Turns
    <3>4. CASE e.text = NULL /\ e.path = NULL /\ GetResNode(k, d, KeyOf(e)) = NULL
      <4>1. e.alias = n /\ KeyOf(e) = n
        BY <2>2, <3>4, NullAssumption DEF Matches, KeyOf
      <4>2. GetBuffer(k, c, n) = NULL /\ GetDoc(k, c, n) = NULL
        BY <2>2, <3>4, <4>1 DEF GetBuffer, GetDoc
      <4> QED
        BY <3>1, <3>2, <3>4, <4>2 DEF Turns
    <3> QED BY <3>3, <3>4
  <2> QED BY <1>9, <2>1, <2>2
<1> QED
  BY <1>2, <1>6, <1>7, <1>8 DEF Sound, Good, Alters, l

--------------------------------------------------------------------------------
(* The functions of the cache *)

(* More names and files being stored takes nothing away. *)
LEMMA MoreStored ==
  ASSUME NEW k, NEW st, NEW tt, Good(k, st), st \subseteq tt
  PROVE  Good(k, tt)
<1>1. ASSUME NEW c \in Ctx, NEW i \in DOMAIN k[c]
      PROVE  Known(k[c][i], tt)
  <2>1. Known(k[c][i], st)
    BY DEF Good
  <2> QED
    BY <2>1 DEF Known, From
<1> QED
  BY <1>1 DEF Good

(* Changes follow each other, and no change is one as well. *)
LEMMA Follows ==
  ASSUME NEW j, NEW k, NEW l, NEW st, NEW T, NEW D, Sound(j, k, st, T, D), Sound(k, l, st, T, D)
  PROVE  Sound(j, l, st, T, D)
BY DEF Sound, Alters, Turns

LEMMA Nothing ==
  ASSUME NEW k, NEW st, NEW T, NEW D, Good(k, st)
  PROVE  Sound(k, k, st, T, D)
BY DEF Sound, Alters, Turns

(* A change that brings less is one that brings more. *)
LEMMA BringsMore ==
  ASSUME NEW k, NEW l, NEW T, NEW D, NEW B, Alters(k, l, T, D), T \subseteq B, D \subseteq B
  PROVE  Alters(k, l, B, B)
BY DEF Alters, Turns

(* The entry that a lookup has found. *)
LEMMA Found ==
  ASSUME NEW k, NEW st, Good(k, st), NEW c \in Ctx, NEW n, GetResNode(k, c, n) # NULL
  PROVE  LET h == GetResNode(k, c, n)
         IN /\ Chain[c][h[1]] \in Ctx /\ h[2] \in DOMAIN k[Chain[c][h[1]]]
            /\ Known(EntryAt(k, c, h), st)
            /\ Matches(n, EntryAt(k, c, h))
<1>1. k \in Cache
  BY DEF Good
<1>2. PICK l \in DOMAIN Chain[c] : \E i \in Hits(k, c, n, l) : GetResNode(k, c, n) = <<l, i>>
  BY <1>1, LookupHit
<1>3. PICK i \in Hits(k, c, n, l) : GetResNode(k, c, n) = <<l, i>>
  BY <1>2
<1>4. Chain[c][l] \in Ctx /\ i \in DOMAIN k[Chain[c][l]] /\ Matches(n, k[Chain[c][l]][i])
  BY <1>3, ChainFacts DEF Hits
<1>5. Known(k[Chain[c][l]][i], st)
  BY <1>4 DEF Good
<1> QED
  BY <1>3, <1>4, <1>5 DEF EntryAt

(* The entry that is found gets other contents. *)
LEMMA FoundUpdate ==
  ASSUME NEW k, NEW st, Good(k, st), NEW c \in Ctx, NEW n, GetResNode(k, c, n) # NULL,
         NEW e, Known(e, st),
         e.alias = EntryAt(k, c, GetResNode(k, c, n)).alias,
         e.path = EntryAt(k, c, GetResNode(k, c, n)).path, NEW T, NEW D,
         Turns(EntryAt(k, c, GetResNode(k, c, n)).text, ContentDoc(EntryAt(k, c, GetResNode(k, c, n))),
               e.text, ContentDoc(e), BaseOf(KeyOf(e)), T, D)
  PROVE  Sound(k, WithEntry(k, c, GetResNode(k, c, n), e), st, T, D)
<1> DEFINE h == GetResNode(k, c, n)
<1>1. Chain[c][h[1]] \in Ctx /\ h[2] \in DOMAIN k[Chain[c][h[1]]]
  BY Found
<1>2. EntryAt(k, c, h) = k[Chain[c][h[1]]][h[2]]
  BY DEF EntryAt
<1> HIDE DEF h
<1>3. Sound(k, [k EXCEPT ![Chain[c][h[1]]][h[2]] = e], st, T, D)
  BY <1>1, <1>2, UpdateSound DEF h
<1> QED
  BY <1>3 DEF WithEntry, h

(* The entry that is found is still found when its contents are others.      *)
LEMMA UpdatedFound ==
  ASSUME NEW k, NEW st, Good(k, st), NEW c \in Ctx, NEW n, GetResNode(k, c, n) # NULL,
         NEW e \in Entry,
         e.alias = EntryAt(k, c, GetResNode(k, c, n)).alias,
         e.path = EntryAt(k, c, GetResNode(k, c, n)).path
  PROVE  LET l == WithEntry(k, c, GetResNode(k, c, n), e)
         IN GetResNode(l, c, n) # NULL /\ EntryAt(l, c, GetResNode(l, c, n)) = e
<1> DEFINE h == GetResNode(k, c, n)
           l == [k EXCEPT ![Chain[c][h[1]]][h[2]] = e]
<1>1. Chain[c][h[1]] \in Ctx /\ h[2] \in DOMAIN k[Chain[c][h[1]]]
  BY Found
<1>2. EntryAt(k, c, h) = k[Chain[c][h[1]]][h[2]]
  BY DEF EntryAt
<1> HIDE DEF h
<1>3. GetResNode(l, c, n) = h /\ EntryAt(l, c, h) = e
  BY <1>1, <1>2, UpdateFinds DEF h
<1> QED
  BY <1>3 DEF WithEntry, h

(* An entry with another text or DOM. *)
LEMMA OtherText ==
  ASSUME NEW e, NEW st, Known(e, st), NEW v \in Nat, <<BaseOf(KeyOf(e)), v>> \in st
  PROVE  LET d == [e EXCEPT !.text = v]
         IN /\ Known(d, st) /\ d.alias = e.alias /\ d.path = e.path /\ d.text = v /\ d.doc = e.doc
            /\ KeyOf(d) = KeyOf(e)
<1> DEFINE d == [e EXCEPT !.text = v]
<1>1. e \in Entry
  BY DEF Known
<1>2. d \in Entry /\ d.alias = e.alias /\ d.path = e.path /\ d.text = v /\ d.doc = e.doc
  BY <1>1 DEF Entry
<1> HIDE DEF d
<1>3. KeyOf(d) = KeyOf(e)
  BY <1>2 DEF KeyOf
<1>4. Known(d, st)
  BY <1>2, <1>3 DEF Known, Named, From
<1> QED
  BY <1>2, <1>3, <1>4 DEF d

LEMMA OtherDoc ==
  ASSUME NEW e, NEW st, Known(e, st), NEW v \in Nat \cup {NULL},
         v = NULL \/ <<BaseOf(KeyOf(e)), v>> \in st
  PROVE  LET d == [e EXCEPT !.doc = v]
         IN /\ Known(d, st) /\ d.alias = e.alias /\ d.path = e.path /\ d.text = e.text /\ d.doc = v
            /\ KeyOf(d) = KeyOf(e)
<1> DEFINE d == [e EXCEPT !.doc = v]
<1>1. e \in Entry
  BY DEF Known
<1>2. d \in Entry /\ d.alias = e.alias /\ d.path = e.path /\ d.text = e.text /\ d.doc = v
  BY <1>1 DEF Entry
<1> HIDE DEF d
<1>3. KeyOf(d) = KeyOf(e)
  BY <1>2 DEF KeyOf
<1>4. Known(d, st)
  BY <1>2, <1>3 DEF Known, Named, From
<1> QED
  BY <1>2, <1>3, <1>4 DEF d

LEMMA KeyName ==
  ASSUME NEW e \in Entry, Named(e)
  PROVE  KeyOf(e) \in Name
BY DEF Entry, Named, KeyOf, Name

(* An entry with a text: it is appended, or hands its contents to the entry  *)
(* found under its name.                                                     *)
LEMMA AppendTextSound ==
  ASSUME NEW k, NEW st, Good(k, st), NEW c \in Ctx, NEW e, Known(e, st), e.text # NULL, e.doc = NULL,
         NEW T, NEW D, <<BaseOf(KeyOf(e)), e.text>> \in T, <<BaseOf(KeyOf(e)), e.text>> \in D
  PROVE  Sound(k, AppendResNodeEat(k, c, e), st, T, D)
<1> DEFINE n == KeyOf(e)
           h == GetResNode(k, c, n)
           old == EntryAt(k, c, h)
           mid == [old EXCEPT !.text = e.text]
           new == [mid EXCEPT !.doc = e.doc]
<1>1. e \in Entry /\ Named(e) /\ n \in Name /\ e.text \in Nat /\ e.doc \in Nat \cup {NULL}
  BY KeyName DEF Known, Entry
<1>5. ContentDoc(e) \in {e.text, NULL}
  BY DEF ContentDoc
<1>2. CASE ~caching[c] \/ (k[c] # <<>> /\ h # NULL /\ old.text = NULL /\ old.path = NULL)
  <2>1. AppendResNodeEat(k, c, e) = k
    BY <1>2 DEF AppendResNodeEat
  <2> QED
    BY <2>1, Nothing
<1>3. CASE caching[c] /\ (k[c] = <<>> \/ h = NULL)
  <2>1. AppendResNodeEat(k, c, e) = [k EXCEPT ![c] = Append(@, e)]
    BY <1>3 DEF AppendResNodeEat
  <2>2. Sound(k, [k EXCEPT ![c] = Append(@, e)], st, T, D)
    <3>1. k[c] = <<>> \/ GetResNode(k, c, KeyOf(e)) = NULL
      BY <1>3
    <3>2. <<BaseOf(KeyOf(e)), ContentDoc(e)>> \in D \/ ContentDoc(e) = NULL
      BY <1>5
    <3> HIDE DEF n
    <3> QED BY <3>1, <3>2, AppendSound
  <2> QED
    BY <2>1, <2>2
<1>4. CASE caching[c] /\ k[c] # <<>> /\ h # NULL /\ ~(old.text = NULL /\ old.path = NULL)
  <2>1. Known(old, st) /\ Matches(n, old)
    BY <1>4, Found
  <2>2. BaseOf(KeyOf(old)) = BaseOf(n)
    BY <1>1, <2>1, MatchesBase DEF Known
  <2>3. <<BaseOf(n), e.text>> \in st /\ (e.doc = NULL \/ <<BaseOf(n), e.doc>> \in st)
    BY <1>1 DEF Known, From
  <2>4. AppendResNodeEat(k, c, e) = WithEntry(k, c, h, new)
    <3>1. AppendResNodeEat(k, c, e) = WithEntry(k, c, h, [old EXCEPT !.text = e.text, !.doc = e.doc])
      BY <1>4 DEF AppendResNodeEat
    <3>2. [old EXCEPT !.text = e.text, !.doc = e.doc] = new
      OBVIOUS
    <3> QED BY <3>1, <3>2
  <2> HIDE DEF old
  <2>5. /\ Known(mid, st) /\ mid.alias = old.alias /\ mid.path = old.path /\ mid.text = e.text
        /\ KeyOf(mid) = KeyOf(old)
    BY <1>1, <2>1, <2>2, <2>3, OtherText
  <2> HIDE DEF mid
  <2>7. /\ Known(new, st) /\ new.alias = mid.alias /\ new.path = mid.path /\ new.text = mid.text
        /\ new.doc = NULL /\ KeyOf(new) = KeyOf(mid)
    BY <1>1, <2>2, <2>3, <2>5, OtherDoc
  <2> HIDE DEF new
  <2>9. Turns(old.text, ContentDoc(old), new.text, ContentDoc(new), BaseOf(KeyOf(new)), T, D)
    <3>1. ContentDoc(new) \in {e.text, NULL}
      BY <2>5, <2>7 DEF ContentDoc
    <3> QED
      BY <2>2, <2>5, <2>7, <3>1 DEF Turns
  <2>8. Sound(k, WithEntry(k, c, h, new), st, T, D)
    BY <1>4, <2>5, <2>7, <2>9, FoundUpdate DEF old
  <2> QED
    BY <2>4, <2>8
<1> QED
  BY <1>2, <1>3, <1>4

(* The file entry of the reading instructions. *)
LEMMA FileEntrySound ==
  ASSUME NEW k, NEW st, Good(k, st), NEW c \in Ctx, NEW f \in File,
         disk[f] \in Nat, <<Base[f], disk[f]>> \in st, NEW T, NEW D,
         <<Base[f], disk[f]>> \in T, <<Base[f], disk[f]>> \in D
  PROVE  Sound(k, AppendResNodeEat(k, c, FileEntry(f)), st, T, D)
<1> DEFINE e == FileEntry(f)
<1>1. e.alias = NULL /\ e.path = f /\ e.text = disk[f] /\ e.doc = NULL /\ e \in Entry
  BY DEF FileEntry, Entry
<1> HIDE DEF e
<1>2. f # NULL /\ e.text # NULL
  BY <1>1, NullAssumption DEF Name
<1>3. Known(e, st)
  BY <1>1, <1>2 DEF Known, Named, From, KeyOf, BaseOf
<1>5. BaseOf(KeyOf(e)) = Base[f]
  BY <1>1 DEF KeyOf, BaseOf
<1>4. Sound(k, AppendResNodeEat(k, c, e), st, T, D)
  BY <1>1, <1>2, <1>3, <1>5, AppendTextSound
<1> QED
  BY <1>4 DEF e

(* An entry that is appended for a name which is not found is found.         *)
LEMMA AppendedFound ==
  ASSUME NEW k \in Cache, NEW c \in Ctx, NEW e \in Entry, NEW n \in Name, e.alias = n,
         GetResNode(k, c, n) = NULL
  PROVE  LET l == [k EXCEPT ![c] = Append(@, e)]
         IN GetResNode(l, c, n) # NULL /\ EntryAt(l, c, GetResNode(l, c, n)) = e
<1> DEFINE l == [k EXCEPT ![c] = Append(@, e)]
<1>1. /\ l \in Cache /\ Len(k[c]) \in Nat /\ DOMAIN l[c] = 1..(Len(k[c]) + 1)
      /\ l[c][Len(k[c]) + 1] = e
  BY AppendLists
<1>2. \/ GetResNode(l, c, n) = GetResNode(k, c, n)
      \/ GetResNode(l, c, n) # NULL /\ EntryAt(l, c, GetResNode(l, c, n)) = e
  BY AppendFinds
<1> HIDE DEF l
<1>3. Len(k[c]) + 1 \in Hits(l, c, n, 1) /\ 1 \in DOMAIN Chain[c]
  BY <1>1, ChainFacts DEF Hits, Matches
<1>4. GetResNode(l, c, n) # NULL
  BY <1>1, <1>3, LookupFinds
<1> QED
  BY <1>2, <1>4 DEF l

(* cxpCtxtCacheAppendBuffer(): what it stores is found. *)
LEMMA AppendBufferSound ==
  ASSUME NEW k, NEW st, Good(k, st), NEW c \in Ctx, NEW n \in Name, NEW v \in Nat,
         <<BaseOf(n), v>> \in st, NEW T, NEW D, <<BaseOf(n), v>> \in T, <<BaseOf(n), v>> \in D
  PROVE  /\ Sound(k, AppendBuffer(k, c, v, n), st, T, D)
         /\ caching[c] => GetBuffer(AppendBuffer(k, c, v, n), c, n) = v
<1> DEFINE h == GetResNode(k, c, n)
           old == EntryAt(k, c, h)
           new == [old EXCEPT !.text = v]
<1>1. v # NULL /\ n # NULL
  BY NullAssumption
<1>2. CASE ~caching[c]
  <2>1. AppendBuffer(k, c, v, n) = k
    BY <1>2 DEF AppendBuffer
  <2> QED
    BY <1>2, <2>1, Nothing
<1>3. CASE caching[c] /\ h = NULL
  <2> DEFINE e == TextAlias(n, v)
  <2>1. e.alias = n /\ e.path = NULL /\ e.text = v /\ e.doc = NULL /\ e \in Entry
    BY DEF TextAlias, Entry
  <2>2. AppendBuffer(k, c, v, n) = AppendResNodeEat(k, c, e)
    BY <1>3 DEF AppendBuffer
  <2> HIDE DEF e
  <2>3. Known(e, st) /\ KeyOf(e) = n
    BY <1>1, <2>1 DEF Known, Named, From, KeyOf
  <2>4. Sound(k, AppendBuffer(k, c, v, n), st, T, D)
    BY <1>1, <2>1, <2>2, <2>3, AppendTextSound
  <2>5. AppendBuffer(k, c, v, n) = [k EXCEPT ![c] = Append(@, e)]
    BY <1>3, <2>2, <2>3 DEF AppendResNodeEat
  <2>6. GetBuffer([k EXCEPT ![c] = Append(@, e)], c, n) = v
    BY <1>3, <2>1, AppendedFound DEF GetBuffer, Good
  <2> QED
    BY <2>4, <2>5, <2>6
<1>4. CASE caching[c] /\ h # NULL
  <2>1. Known(old, st) /\ Matches(n, old)
    BY <1>4, Found
  <2>2. BaseOf(KeyOf(old)) = BaseOf(n)
    BY <2>1, MatchesBase DEF Known
  <2>3. AppendBuffer(k, c, v, n) = WithEntry(k, c, h, new)
    BY <1>4 DEF AppendBuffer
  <2> HIDE DEF old
  <2>4. /\ Known(new, st) /\ new.alias = old.alias /\ new.path = old.path /\ new.text = v
        /\ new.doc = old.doc /\ KeyOf(new) = KeyOf(old)
    BY <2>1, <2>2, OtherText
  <2> HIDE DEF new
  <2>6. Turns(old.text, ContentDoc(old), new.text, ContentDoc(new), BaseOf(KeyOf(new)), T, D)
    <3>1. ContentDoc(new) = ContentDoc(old) \/ ContentDoc(new) \in {v, NULL}
      BY <2>4 DEF ContentDoc
    <3> QED
      BY <2>2, <2>4, <3>1 DEF Turns
  <2>5. Sound(k, WithEntry(k, c, h, new), st, T, D)
    BY <1>1, <1>4, <2>4, <2>6, FoundUpdate DEF old
  <2>7. GetBuffer(WithEntry(k, c, h, new), c, n) = v
    BY <1>4, <2>4, UpdatedFound DEF old, GetBuffer, Known
  <2> QED
    BY <2>3, <2>5, <2>7
<1> QED
  BY <1>2, <1>3, <1>4

(* cxpCtxtCacheAppendDoc(): what it stores is found, and no text changes. *)
LEMMA AppendDocSound ==
  ASSUME NEW k, NEW st, Good(k, st), NEW c \in Ctx, NEW n \in Name, NEW v \in Nat,
         <<BaseOf(n), v>> \in st, NEW T, NEW D, <<BaseOf(n), v>> \in D
  PROVE  /\ Sound(k, AppendDoc(k, c, v, n), st, T, D)
         /\ caching[c] => GetDoc(AppendDoc(k, c, v, n), c, n) = v
<1> DEFINE h == GetResNode(k, c, n)
           old == EntryAt(k, c, h)
           new == [old EXCEPT !.doc = v]
<1>1. v # NULL /\ n # NULL
  BY NullAssumption
<1>2. CASE ~caching[c]
  <2>1. AppendDoc(k, c, v, n) = k
    BY <1>2 DEF AppendDoc
  <2> QED
    BY <1>2, <2>1, Nothing
<1>3. CASE caching[c] /\ h = NULL
  <2> DEFINE e == DocAlias(n, v)
  <2>1. e.alias = n /\ e.path = NULL /\ e.text = NULL /\ e.doc = v /\ e \in Entry
    BY DEF DocAlias, Entry
  <2>2. AppendDoc(k, c, v, n) = AppendResNodeEat(k, c, e)
    BY <1>3 DEF AppendDoc
  <2> HIDE DEF e
  <2>3. Known(e, st) /\ KeyOf(e) = n
    BY <1>1, <2>1 DEF Known, Named, From, KeyOf
  <2>4. AppendResNodeEat(k, c, e) = [k EXCEPT ![c] = Append(@, e)]
    BY <1>3, <2>3 DEF AppendResNodeEat
  <2>5. GetResNode(k, c, KeyOf(e)) = NULL
    BY <1>3, <2>3
  <2>7. ContentDoc(e) = v
    BY <1>1, <2>1 DEF ContentDoc
  <2>6. Sound(k, [k EXCEPT ![c] = Append(@, e)], st, T, D)
    <3>1. <<BaseOf(KeyOf(e)), ContentDoc(e)>> \in D
      BY <2>3, <2>7
    <3> QED
      BY <2>1, <2>3, <2>5, <3>1, AppendSound
  <2>8. GetDoc([k EXCEPT ![c] = Append(@, e)], c, n) = v
    BY <1>3, <2>1, <2>7, AppendedFound DEF GetDoc, Good
  <2> QED
    BY <2>2, <2>4, <2>6, <2>8
<1>4. CASE caching[c] /\ h # NULL
  <2>1. Known(old, st) /\ Matches(n, old)
    BY <1>4, Found
  <2>2. BaseOf(KeyOf(old)) = BaseOf(n)
    BY <2>1, MatchesBase DEF Known
  <2>3. AppendDoc(k, c, v, n) = WithEntry(k, c, h, new)
    BY <1>4 DEF AppendDoc
  <2> HIDE DEF old
  <2>4. /\ Known(new, st) /\ new.alias = old.alias /\ new.path = old.path /\ new.text = old.text
        /\ new.doc = v /\ KeyOf(new) = KeyOf(old)
    BY <2>1, <2>2, OtherDoc
  <2> HIDE DEF new
  <2>6. ContentDoc(new) = v
    BY <1>1, <2>4 DEF ContentDoc
  <2>7. Turns(old.text, ContentDoc(old), new.text, ContentDoc(new), BaseOf(KeyOf(new)), T, D)
    BY <2>2, <2>4, <2>6 DEF Turns
  <2>5. Sound(k, WithEntry(k, c, h, new), st, T, D)
    BY <1>4, <2>4, <2>7, FoundUpdate DEF old
  <2>8. GetDoc(WithEntry(k, c, h, new), c, n) = v
    BY <1>4, <2>4, <2>6, UpdatedFound DEF old, GetDoc, Known
  <2> QED
    BY <2>3, <2>5, <2>8
<1> QED
  BY <1>2, <1>3, <1>4

(* The DOM of an entry is its own, or that of its text. *)
LEMMA ContentDocOwn ==
  ASSUME NEW e
  PROVE  ContentDoc(e) \in {e.text, e.doc, NULL}
BY DEF ContentDoc

(* A lookup that parses on demand *)
LEMMA ParsedSound ==
  ASSUME NEW k, NEW st, Good(k, st), NEW c \in Ctx, NEW n \in Name, GetDoc(k, c, n) # NULL, NEW T, NEW D
  PROVE  Sound(k, Parsed(k, c, n), st, T, D)
<1> DEFINE h == GetResNode(k, c, n)
           old == EntryAt(k, c, h)
           v == ContentDoc(old)
           new == [old EXCEPT !.doc = v]
<1>1. h # NULL /\ v # NULL
  BY DEF GetDoc
<1>2. Known(old, st) /\ v \in {old.text, old.doc}
  BY <1>1, Found, ContentDocOwn
<1>3. Parsed(k, c, n) = WithEntry(k, c, h, new)
  BY DEF Parsed
<1> HIDE DEF old
<1>7. ContentDoc(new) = v
  <2> HIDE DEF v
  <2> SUFFICES new.doc = v
    BY <1>1 DEF ContentDoc
  <2> QED BY <1>2 DEF Known, Entry
<1> HIDE DEF v
<1>4. v \in Nat \cup {NULL} /\ <<BaseOf(KeyOf(old)), v>> \in st
  BY <1>1, <1>2 DEF Known, From, Entry
<1>5. Known(new, st) /\ new.alias = old.alias /\ new.path = old.path /\ new.text = old.text
  BY <1>2, <1>4, OtherDoc
<1> HIDE DEF new
<1>8. Turns(old.text, ContentDoc(old), new.text, ContentDoc(new), BaseOf(KeyOf(new)), T, D)
  BY <1>5, <1>7 DEF Turns, v
<1>6. Sound(k, WithEntry(k, c, h, new), st, T, D)
  BY <1>1, <1>5, <1>8, FoundUpdate DEF old
<1> QED
  BY <1>3, <1>6

--------------------------------------------------------------------------------
(* Every instruction keeps the invariant, and what is found but for what it  *)
(* brings.                                                                   *)

(* what the step brings, by base name *)
Bro == {p \in stored' : p[2] \in IF clock' = clock THEN {disk[f] : f \in File} ELSE {clock'}}

Kept == IInv' /\ Alters(cache, cache', Bro, Bro)

LEMMA InitIInv == Init => IInv
<1> SUFFICES ASSUME Init PROVE IInv
  OBVIOUS
<1>1. disk \in [File -> Nat] /\ clock \in Nat
  <2>1. Cardinality(File) \in Nat
    BY InitialAssumption, FS_CardinalityType
  <2> QED
    BY <2>1, InitialAssumption DEF Init
<1>2. cache \in Cache /\ \A c \in Ctx : DOMAIN cache[c] = {}
  <2>1. <<>> \in Seq(Entry) /\ DOMAIN <<>> = {}
    BY EmptySeq, LenProperties
  <2> QED
    BY <2>1 DEF Init, Cache
<1>3. Good(cache, stored)
  BY <1>2 DEF Good, Unhidden
<1>4. DiskStored
  BY DEF Init, DiskStored
<1> QED
  BY <1>1, <1>3, <1>4 DEF IInv, Init

(* Files unchanged and more stored: what is left is the change of the lists. *)
LEMMA ReadKept ==
  ASSUME IInv, stored \subseteq stored', Sound(cache, cache', stored', Bro, Bro), UNCHANGED <<caching, disk, clock>>
  PROVE  Kept
<1>1. DiskStored'
  BY DEF IInv, DiskStored
<1> QED
  BY <1>1 DEF IInv, Kept, Sound

(* What a file holds, a read may bring. *)
LEMMA DiskBro ==
  ASSUME IInv, NEW f \in File, stored \subseteq stored', clock' = clock
  PROVE  <<Base[f], disk[f]>> \in Bro /\ <<Base[f], disk[f]>> \in stored'
<1>1. <<Base[f], disk[f]>> \in stored'
  BY DEF IInv, DiskStored
<1>2. disk[f] \in {disk[g] : g \in File}
  OBVIOUS
<1>3. <<Base[f], disk[f]>>[2] = disk[f]
  OBVIOUS
<1> QED
  BY <1>1, <1>2, <1>3 DEF Bro

LEMMA ReadPlainKept ==
  ASSUME IInv, NEW c \in Ctx, NEW n \in Name, ReadPlain(c, n)
  PROVE  Kept
<1>1. PICK f \in Resolved(c, n) : cache' = AppendResNodeEat(cache, c, FileEntry(f))
  BY DEF ReadPlain
<1>2. f \in File
  BY DEF Resolved
<1>4. stored' = stored /\ clock' = clock
  BY DEF ReadPlain
<1>5. <<Base[f], disk[f]>> \in Bro /\ <<Base[f], disk[f]>> \in stored /\ disk[f] \in Nat
  BY <1>2, <1>4, DiskBro DEF IInv
<1>3. Sound(cache, cache', stored, Bro, Bro)
  BY <1>1, <1>2, <1>5, FileEntrySound DEF IInv
<1> QED
  BY <1>3, <1>4, ReadKept DEF ReadPlain

LEMMA ReadXmlKept ==
  ASSUME IInv, NEW c \in Ctx, NEW n \in Name, ReadXml(c, n)
  PROVE  Kept
<1>1. CASE GetDoc(cache, c, n) # NULL
  <2>1. cache' = Parsed(cache, c, n)
    BY <1>1 DEF ReadXml
  <2>2. Sound(cache, cache', stored, Bro, Bro)
    BY <1>1, <2>1, ParsedSound DEF IInv
  <2> QED
    BY <2>2, ReadKept DEF ReadXml
<1>2. CASE GetDoc(cache, c, n) = NULL
  <2>1. PICK f \in Resolved(c, n) : cache' = AppendResNodeEat(cache, c, FileEntry(f))
    BY <1>2 DEF ReadXml
  <2>2. f \in File
    BY DEF Resolved
  <2>4. stored' = stored /\ clock' = clock
    BY DEF ReadXml
  <2>5. <<Base[f], disk[f]>> \in Bro /\ <<Base[f], disk[f]>> \in stored /\ disk[f] \in Nat
    BY <2>2, <2>4, DiskBro DEF IInv
  <2>3. Sound(cache, cache', stored, Bro, Bro)
    BY <2>1, <2>2, <2>5, FileEntrySound DEF IInv
  <2> QED
    BY <2>3, <2>4, ReadKept DEF ReadXml
<1> QED
  BY <1>1, <1>2

LEMMA ReadXslKept ==
  ASSUME IInv, NEW c \in Ctx, NEW n \in Name, NEW as \in Symbol \cup {n}, ReadXsl(c, n, as)
  PROVE  Kept
<1>1. CASE GetDoc(cache, c, n) # NULL
  <2>1. cache' = Parsed(cache, c, n) /\ stored' = stored
    BY <1>1 DEF ReadXsl
  <2>2. Sound(cache, cache', stored, Bro, Bro)
    BY <1>1, <2>1, ParsedSound DEF IInv
  <2> QED
    BY <2>1, <2>2, ReadKept DEF ReadXsl
<1>2. CASE GetDoc(cache, c, n) = NULL
  <2>1. PICK f \in Resolved(c, n) :
          /\ cache' = AppendDoc(cache, c, disk[f], as)
          /\ stored' = stored \cup {<<as, disk[f]>>, <<BaseOf(as), disk[f]>>}
    BY <1>2 DEF ReadXsl
  <2>2. f \in File /\ as \in Name /\ disk[f] \in Nat
    BY DEF Resolved, Name, IInv
  <2>3. Good(cache, stored') /\ stored \subseteq stored' /\ <<BaseOf(as), disk[f]>> \in stored'
    <3>1. stored \subseteq stored' /\ <<BaseOf(as), disk[f]>> \in stored'
      BY <2>1
    <3> QED BY <3>1, MoreStored DEF IInv
  <2>5. <<BaseOf(as), disk[f]>> \in Bro
    <3>1. clock' = clock /\ disk[f] \in {disk[g] : g \in File} /\ <<BaseOf(as), disk[f]>>[2] = disk[f]
      BY <2>2 DEF ReadXsl
    <3> QED BY <2>3, <3>1 DEF Bro
  <2>4. Sound(cache, cache', stored', Bro, Bro)
    BY <2>1, <2>2, <2>3, <2>5, AppendDocSound
  <2> QED
    BY <2>3, <2>4, ReadKept DEF ReadXsl
<1> QED
  BY <1>1, <1>2

LEMMA ReadScriptKept ==
  ASSUME IInv, NEW c \in Ctx, NEW n \in Name, NEW s \in Symbol \cup {NULL}, ReadScript(c, n, s)
  PROVE  Kept
<1>1. PICK f \in Resolved(c, n) :
        LET as == IF s = NULL THEN f ELSE s
        IN /\ cache' = AppendBuffer(cache, c, disk[f], as)
           /\ stored' = stored \cup {<<as, disk[f]>>, <<BaseOf(as), disk[f]>>}
  BY DEF ReadScript
<1> DEFINE as == IF s = NULL THEN f ELSE s
<1>2. as \in Name /\ disk[f] \in Nat
  BY DEF Resolved, Name, IInv
<1>3. /\ cache' = AppendBuffer(cache, c, disk[f], as)
      /\ stored' = stored \cup {<<as, disk[f]>>, <<BaseOf(as), disk[f]>>}
  BY <1>1
<1> HIDE DEF as
<1>4. Good(cache, stored') /\ stored \subseteq stored' /\ <<BaseOf(as), disk[f]>> \in stored'
  <2>1. stored \subseteq stored' /\ <<BaseOf(as), disk[f]>> \in stored'
    BY <1>3
  <2> QED BY <2>1, MoreStored DEF IInv
<1>6. <<BaseOf(as), disk[f]>> \in Bro
  <2>1. clock' = clock /\ disk[f] \in {disk[g] : g \in File} /\ <<BaseOf(as), disk[f]>>[2] = disk[f]
    BY DEF ReadScript, Resolved
  <2> QED BY <1>4, <2>1 DEF Bro
<1>5. Sound(cache, cache', stored', Bro, Bro)
  BY <1>2, <1>3, <1>4, <1>6, AppendBufferSound
<1> QED
  BY <1>4, <1>5, ReadKept DEF ReadScript

(* What saving does to the file and to what is stored *)
LEMMA SaveKept ==
  ASSUME IInv, NEW s \in Symbol \cup {NULL}, NEW f \in File \cup {NULL},
         stored' = stored \cup {<<n, clock + 1>> : n \in (IF s = NULL THEN {} ELSE {s}) \cup (IF f = NULL THEN {} ELSE {f})}
                          \cup {<<BaseOf(n), clock + 1>> : n \in (IF s = NULL THEN {} ELSE {s}) \cup (IF f = NULL THEN {} ELSE {f})},
         clock' = clock + 1, caching' = caching,
         disk' \in IF f = NULL THEN {disk} ELSE {disk, [disk EXCEPT ![f] = clock + 1]},
         NEW T, T \subseteq Bro, Sound(cache, cache', stored', T, Bro)
  PROVE  Kept
<1>3. Alters(cache, cache', Bro, Bro)
  BY BringsMore DEF Sound
<1>1. clock + 1 \in Nat /\ disk' \in [File -> Nat]
  BY DEF IInv
<1>2. DiskStored'
  <2> SUFFICES ASSUME NEW g \in File
               PROVE  <<g, disk'[g]>> \in stored' /\ <<Base[g], disk'[g]>> \in stored'
    BY DEF DiskStored
  <2>1. CASE disk'[g] = disk[g]
    BY <2>1 DEF IInv, DiskStored
  <2>2. CASE disk'[g] # disk[g]
    <3>1. f = g /\ f # NULL /\ disk'[g] = clock + 1
      BY <2>2 DEF IInv
    <3>2. BaseOf(g) = Base[g]
      BY DEF BaseOf
    <3> QED
      BY <3>1, <3>2
  <2> QED BY <2>1, <2>2
<1> QED
  BY <1>1, <1>2, <1>3 DEF IInv, Kept, Sound

(* A save brings its version under its names, and no other. *)
LEMMA SaveBro ==
  ASSUME IInv, clock' = clock + 1, NEW n, <<BaseOf(n), clock'>> \in stored'
  PROVE  <<BaseOf(n), clock'>> \in Bro /\ \A b, v : <<b, v>> \in Bro => v = clock'
<1>1. clock' # clock
  BY DEF IInv
<1>2. \A b, v : <<b, v>>[2] = v
  OBVIOUS
<1> QED
  BY <1>1, <1>2 DEF Bro

LEMMA SaveDocKept ==
  ASSUME IInv, NEW c \in Ctx, NEW s \in Symbol \cup {NULL}, NEW f \in File \cup {NULL}, NEW flag \in BOOLEAN,
         SaveDoc(c, s, f, flag)
  PROVE  /\ Kept /\ Alters(cache, cache', {}, Bro)
         /\ caching[c] => \A n \in Keys(s, f, flag) : GetDoc(cache', c, n) = clock'
<1> DEFINE v == clock + 1
           k == IF s = NULL THEN cache ELSE AppendDoc(cache, c, v, s)
           names == (IF s = NULL THEN {} ELSE {s}) \cup (IF f = NULL THEN {} ELSE {f})
<1>1. /\ cache' = IF f # NULL /\ flag THEN AppendDoc(k, c, v, f) ELSE k
      /\ stored' = stored \cup {<<n, v>> : n \in names} \cup {<<BaseOf(n), v>> : n \in names}
      /\ clock' = v /\ caching' = caching
      /\ disk' \in IF f = NULL THEN {disk} ELSE {disk, [disk EXCEPT ![f] = v]}
  BY DEF SaveDoc, Save
<1>2. v \in Nat /\ (s # NULL => s \in Name) /\ (f # NULL => f \in Name)
  BY DEF IInv, Name
<1>3. \A n \in names : <<BaseOf(n), v>> \in stored'
  BY <1>1
<1>7. /\ \A n \in names : <<BaseOf(n), v>> \in Bro
      /\ \A n \in names : \A b, w : <<b, w>> \in Bro => w = v
  BY <1>1, <1>3, SaveBro
<1>8. v # NULL
  BY <1>2, NullAssumption
<1>4. Good(cache, stored')
  BY <1>1, MoreStored DEF IInv
<1>5. /\ Sound(cache, k, stored', {}, Bro)
      /\ s # NULL /\ caching[c] => GetDoc(k, c, s) = v
  <2>1. CASE s = NULL
    BY <1>4, <2>1, Nothing
  <2>2. CASE s # NULL
    BY <1>2, <1>3, <1>4, <1>7, <2>2, AppendDocSound
  <2> QED BY <2>1, <2>2
<1> HIDE DEF k
<1>6. /\ Sound(cache, cache', stored', {}, Bro)
      /\ caching[c] => \A n \in Keys(s, f, flag) : GetDoc(cache', c, n) = v
  <2>1. CASE f # NULL /\ flag
    <3>1. cache' = AppendDoc(k, c, v, f)
      BY <1>1, <2>1
    <3>2. Good(k, stored') /\ f \in names
      BY <1>5, <2>1 DEF Sound
    <3>3. /\ Sound(k, cache', stored', {}, Bro)
          /\ caching[c] => GetDoc(cache', c, f) = v
      BY <1>2, <1>3, <1>7, <2>1, <3>1, <3>2, AppendDocSound
    <3>4. Sound(cache, cache', stored', {}, Bro)
      BY <1>5, <3>3, Follows
    <3>5. ASSUME caching[c], s # NULL PROVE GetDoc(cache', c, s) = v
      <4>1. GetDoc(k, c, s) = v
        BY <1>5, <3>5
      <4>2. Turns(GetBuffer(k, c, s), GetDoc(k, c, s), GetBuffer(cache', c, s), GetDoc(cache', c, s),
                  BaseOf(s), {}, Bro)
        BY <1>2, <3>3, <3>5 DEF Sound, Alters
      <4> QED
        BY <1>7, <3>2, <4>1, <4>2 DEF Turns
    <3> QED
      BY <2>1, <3>3, <3>4, <3>5 DEF Keys
  <2>2. CASE ~(f # NULL /\ flag)
    <3>1. cache' = k /\ Keys(s, f, flag) \subseteq {s} \ {NULL}
      BY <1>1, <2>2 DEF Keys
    <3> QED
      BY <1>5, <3>1
  <2> QED BY <2>1, <2>2
<1>9. Kept
  BY <1>1, <1>6, SaveKept
<1> QED
  BY <1>1, <1>6, <1>9 DEF Sound

LEMMA SavePlainKept ==
  ASSUME IInv, NEW c \in Ctx, NEW s \in Symbol \cup {NULL}, NEW f \in File \cup {NULL}, NEW flag \in BOOLEAN,
         SavePlain(c, s, f, flag)
  PROVE  /\ Kept /\ Alters(cache, cache', Bro, Bro)
         /\ caching[c] => \A n \in Keys(s, f, flag) : GetBuffer(cache', c, n) = clock'
<1> DEFINE v == clock + 1
           k == IF s = NULL THEN cache ELSE AppendBuffer(cache, c, v, s)
           names == (IF s = NULL THEN {} ELSE {s}) \cup (IF f = NULL THEN {} ELSE {f})
<1>1. /\ cache' = IF f # NULL /\ flag THEN AppendBuffer(k, c, v, f) ELSE k
      /\ stored' = stored \cup {<<n, v>> : n \in names} \cup {<<BaseOf(n), v>> : n \in names}
      /\ clock' = v /\ caching' = caching
      /\ disk' \in IF f = NULL THEN {disk} ELSE {disk, [disk EXCEPT ![f] = v]}
  BY DEF SavePlain, Save
<1>2. v \in Nat /\ (s # NULL => s \in Name) /\ (f # NULL => f \in Name)
  BY DEF IInv, Name
<1>3. \A n \in names : <<BaseOf(n), v>> \in stored'
  BY <1>1
<1>7. /\ \A n \in names : <<BaseOf(n), v>> \in Bro
      /\ \A n \in names : \A b, w : <<b, w>> \in Bro => w = v
  BY <1>1, <1>3, SaveBro
<1>8. v # NULL
  BY <1>2, NullAssumption
<1>4. Good(cache, stored')
  BY <1>1, MoreStored DEF IInv
<1>5. /\ Sound(cache, k, stored', Bro, Bro)
      /\ s # NULL /\ caching[c] => GetBuffer(k, c, s) = v
  <2>1. CASE s = NULL
    BY <1>4, <2>1, Nothing
  <2>2. CASE s # NULL
    BY <1>2, <1>3, <1>4, <1>7, <2>2, AppendBufferSound
  <2> QED BY <2>1, <2>2
<1> HIDE DEF k
<1>6. /\ Sound(cache, cache', stored', Bro, Bro)
      /\ caching[c] => \A n \in Keys(s, f, flag) : GetBuffer(cache', c, n) = v
  <2>1. CASE f # NULL /\ flag
    <3>1. cache' = AppendBuffer(k, c, v, f)
      BY <1>1, <2>1
    <3>2. Good(k, stored') /\ f \in names
      BY <1>5, <2>1 DEF Sound
    <3>3. /\ Sound(k, cache', stored', Bro, Bro)
          /\ caching[c] => GetBuffer(cache', c, f) = v
      BY <1>2, <1>3, <1>7, <2>1, <3>1, <3>2, AppendBufferSound
    <3>4. Sound(cache, cache', stored', Bro, Bro)
      BY <1>5, <3>3, Follows
    <3>5. ASSUME caching[c], s # NULL PROVE GetBuffer(cache', c, s) = v
      <4>1. GetBuffer(k, c, s) = v
        BY <1>5, <3>5
      <4>2. Turns(GetBuffer(k, c, s), GetDoc(k, c, s), GetBuffer(cache', c, s), GetDoc(cache', c, s),
                  BaseOf(s), Bro, Bro)
        BY <1>2, <3>3, <3>5 DEF Sound, Alters
      <4> QED
        BY <1>7, <3>2, <4>1, <4>2 DEF Turns
    <3> QED
      BY <2>1, <3>3, <3>4, <3>5 DEF Keys
  <2>2. CASE ~(f # NULL /\ flag)
    <3>1. cache' = k /\ Keys(s, f, flag) \subseteq {s} \ {NULL}
      BY <1>1, <2>2 DEF Keys
    <3> QED
      BY <1>5, <3>1
  <2> QED BY <2>1, <2>2
<1>9. Kept
  BY <1>1, <1>6, SaveKept
<1> QED
  BY <1>1, <1>6, <1>9 DEF Sound

LEMMA StepIInv == IInv /\ [Next]_vars => Kept
<1> SUFFICES ASSUME IInv, [Next]_vars PROVE Kept
  OBVIOUS
<1>1. CASE UNCHANGED vars
  BY <1>1, Nothing, ReadKept DEF vars, IInv
<1>2. ASSUME NEW c \in Ctx, NEW n \in Name, ReadPlain(c, n) \/ ReadXml(c, n)
      PROVE  Kept
  BY <1>2, ReadPlainKept, ReadXmlKept
<1>3. ASSUME NEW c \in Ctx, NEW n \in Name, NEW as \in Symbol \cup {n}, ReadXsl(c, n, as)
      PROVE  Kept
  BY <1>3, ReadXslKept
<1>4. ASSUME NEW c \in Ctx, NEW n \in Name, NEW s \in Symbol \cup {NULL}, ReadScript(c, n, s)
      PROVE  Kept
  BY <1>4, ReadScriptKept
<1>5. ASSUME NEW c \in Ctx, NEW s \in Symbol \cup {NULL}, NEW f \in File \cup {NULL}, NEW flag \in BOOLEAN,
             SaveDoc(c, s, f, flag) \/ SavePlain(c, s, f, flag)
      PROVE  Kept
  BY <1>5, SaveDocKept, SavePlainKept
<1> QED
  BY <1>1, <1>2, <1>3, <1>4, <1>5 DEF Next

--------------------------------------------------------------------------------
(* The results *)

(* The invariant on which the properties of the cache rest: every entry has  *)
(* a name, its contents are of that name, and no entry hides a later one.    *)
THEOREM Invariance == Spec => []IInv
<1>1. Init => IInv
  BY InitIInv
<1>2. IInv /\ [Next]_vars => IInv'
  BY StepIInv DEF Kept
<1> QED
  BY <1>1, <1>2, PTL DEF Spec

(* No entry hides a later one of its list, by the lookup that comes before   *)
(* every append of cxp_context_cache.c.                                      *)
THEOREM Unique == Spec => []UniqueKeys
<1>1. IInv => UniqueKeys
  BY DEF IInv, Good, Unhidden, UniqueKeys
<1> QED
  BY <1>1, Invariance, PTL

(* A lookup under a name finds contents of that base name only, though       *)
(* entries of all ancestors are updated, swapped and parsed on demand.       *)
THEOREM BaseNames == Spec => []SameBaseName
<1>1. IInv => SameBaseName
  <2> SUFFICES ASSUME IInv, NEW c \in Ctx, NEW n \in Name,
                      NEW v \in {GetBuffer(cache, c, n), GetDoc(cache, c, n)} \ {NULL}
               PROVE  <<BaseOf(n), v>> \in stored
    BY DEF SameBaseName
  <2> DEFINE e == EntryAt(cache, c, GetResNode(cache, c, n))
  <2>1. Good(cache, stored)
    BY DEF IInv
  <2>2. GetResNode(cache, c, n) # NULL /\ v \in {e.text, ContentDoc(e)}
    BY DEF GetBuffer, GetDoc
  <2>3. Known(e, stored) /\ Matches(n, e)
    BY <2>1, <2>2, Found
  <2> HIDE DEF e
  <2>4. v \in {e.text, e.doc}
    BY <2>2, ContentDocOwn
  <2>5. BaseOf(KeyOf(e)) = BaseOf(n)
    BY <2>3, MatchesBase DEF Known
  <2> QED
    BY <2>3, <2>4, <2>5 DEF Known, From
<1> QED
  BY <1>1, Invariance, PTL

(* Below a context, as long as nothing nearer matches, a lookup finds what   *)
(* the context finds.                                                        *)
LEMMA SeenBelow ==
  ASSUME NEW k \in Cache, NEW c \in Ctx, NEW d \in Ctx, NEW n, FirstAt(k, d, c, n),
         GetResNode(k, c, n) # NULL
  PROVE  GetBuffer(k, d, n) = GetBuffer(k, c, n) /\ GetDoc(k, d, n) = GetDoc(k, c, n)
<1>1. PICK j \in DOMAIN Chain[d] : /\ Chain[d][j] = c
                                   /\ \A l \in DOMAIN Chain[d] : l < j => Hits(k, d, n, l) = {}
  BY DEF FirstAt
<1>2. /\ Chain[d] \in Seq(Ctx) /\ Len(Chain[d]) \in Nat /\ DOMAIN Chain[d] = 1..Len(Chain[d])
      /\ j \in 1..Len(Chain[d])
  BY <1>1, ChainAssumption, LenProperties
<1>3. /\ DOMAIN Chain[c] = 1..(Len(Chain[d]) - j + 1)
      /\ \A i \in 1..(Len(Chain[d]) - j + 1) : Chain[c][i] = Chain[d][j + i - 1]
  <2> DEFINE t == SubSeq(Chain[d], j, Len(Chain[d]))
  <2>1. Chain[c] = t
    BY <1>1, ChainAssumption
  <2>2. j \in Int /\ Len(Chain[d]) \in Int /\ \A i \in j..Len(Chain[d]) : Chain[d][i] \in Ctx
    BY <1>2, ElementOfSeq
  <2>3. /\ t \in Seq(Ctx) /\ Len(t) = Len(Chain[d]) - j + 1
        /\ \A i \in 1..(Len(Chain[d]) - j + 1) : t[i] = Chain[d][j + i - 1]
    BY <1>2, <2>2, SubSeqProperties
  <2> QED
    BY <2>1, <2>3, LenProperties
<1>4. \A i \in DOMAIN Chain[c] : j + i - 1 \in DOMAIN Chain[d] /\ Hits(k, c, n, i) = Hits(k, d, n, j + i - 1)
  BY <1>2, <1>3 DEF Hits
<1>5. PICK m \in DOMAIN Chain[c] : \E i \in Hits(k, c, n, m) :
         /\ GetResNode(k, c, n) = <<m, i>>
         /\ \A x \in DOMAIN Chain[c] : x < m => Hits(k, c, n, x) = {}
         /\ \A y \in Hits(k, c, n, m) : i <= y
  BY LookupHit
<1>6. PICK i \in Hits(k, c, n, m) :
         /\ GetResNode(k, c, n) = <<m, i>>
         /\ \A x \in DOMAIN Chain[c] : x < m => Hits(k, c, n, x) = {}
         /\ \A y \in Hits(k, c, n, m) : i <= y
  BY <1>5
<1>7. i \in Hits(k, d, n, j + m - 1) /\ j + m - 1 \in DOMAIN Chain[d]
  BY <1>4, <1>6
<1>8. GetResNode(k, d, n) # NULL
  BY <1>7, LookupFinds
<1>9. PICK p \in DOMAIN Chain[d] : \E q \in Hits(k, d, n, p) :
         /\ GetResNode(k, d, n) = <<p, q>>
         /\ \A x \in DOMAIN Chain[d] : x < p => Hits(k, d, n, x) = {}
         /\ \A y \in Hits(k, d, n, p) : q <= y
  BY <1>8, LookupHit
<1>10. PICK q \in Hits(k, d, n, p) :
         /\ GetResNode(k, d, n) = <<p, q>>
         /\ \A x \in DOMAIN Chain[d] : x < p => Hits(k, d, n, x) = {}
         /\ \A y \in Hits(k, d, n, p) : q <= y
  BY <1>9
<1>11. p = j + m - 1
  <2>1. p \in Nat /\ j \in Nat /\ m \in Nat /\ p \in 1..Len(Chain[d]) /\ m \in 1..(Len(Chain[d]) - j + 1)
    BY <1>2, <1>3
  <2>2. ~(j + m - 1 < p)
    BY <1>7, <1>10
  <2>3. ~(p < j)
    BY <1>1, <1>10
  <2>4. p - j + 1 \in 1..(Len(Chain[d]) - j + 1) /\ j + (p - j + 1) - 1 = p
    BY <1>2, <2>1, <2>3
  <2>5. Hits(k, c, n, p - j + 1) # {}
    BY <1>3, <1>4, <1>10, <2>4
  <2>6. ~(p - j + 1 < m)
    BY <1>3, <1>6, <2>4, <2>5
  <2> QED
    BY <1>2, <2>1, <2>2, <2>6
<1>12. q = i
  <2>1. Hits(k, d, n, p) = Hits(k, c, n, m)
    BY <1>4, <1>11
  <2>2. q \in Nat /\ i \in Nat
    BY <1>6, <1>10, HitsNat
  <2>3. q <= i /\ i <= q
    BY <1>6, <1>10, <2>1
  <2> QED
    BY <2>2, <2>3
<1>13. Chain[d][p] = Chain[c][m]
  BY <1>3, <1>11
<1>14. EntryAt(k, d, GetResNode(k, d, n)) = EntryAt(k, c, GetResNode(k, c, n))
  BY <1>6, <1>10, <1>12, <1>13 DEF EntryAt
<1> QED
  BY <1>8, <1>14 DEF GetBuffer, GetDoc

(* What a save has put under a name is found there, and what is found turns  *)
(* to nothing but what a step brings, for any chains of contexts and names.  *)
THEOREM SavesFound == Spec => SavedIsFound
<1> DEFINE Saved(c, s, f, flag) ==
             /\ SavePlain(c, s, f, flag) /\ caching[c] =>
                  \A n \in Keys(s, f, flag), d \in Ctx :
                    FirstAt(cache', d, c, n) => GetBuffer(cache', d, n) = clock'
             /\ SaveDoc(c, s, f, flag) /\ caching[c] =>
                  \A n \in Keys(s, f, flag), d \in Ctx :
                    FirstAt(cache', d, c, n) => GetDoc(cache', d, n) = clock'
             /\ SaveDoc(c, s, f, flag) =>
                  \A d \in Ctx, n \in Name : GetBuffer(cache', d, n) = GetBuffer(cache, d, n)
           Turned(d, n) ==
             /\ GetBuffer(cache', d, n) \in {GetBuffer(cache, d, n)} \cup Brought(n)
             /\ \/ GetDoc(cache', d, n) \in {GetDoc(cache, d, n)} \cup Brought(n)
                \/ GetDoc(cache', d, n) = NULL /\ GetBuffer(cache', d, n) \in Brought(n)
<1>1. ASSUME IInv, NEW c \in Ctx, NEW s \in Symbol \cup {NULL}, NEW f \in File \cup {NULL}, NEW flag \in BOOLEAN
      PROVE  Saved(c, s, f, flag)
  <2>1. ASSUME SavePlain(c, s, f, flag), caching[c], NEW n \in Keys(s, f, flag), NEW d \in Ctx,
               FirstAt(cache', d, c, n)
        PROVE  GetBuffer(cache', d, n) = clock'
    <3>1. GetBuffer(cache', c, n) = clock' /\ cache' \in Cache /\ clock' \in Nat
      BY <1>1, <2>1, SavePlainKept DEF Kept, IInv, Good
    <3>2. GetResNode(cache', c, n) # NULL
      BY <3>1, NullAssumption DEF GetBuffer
    <3> QED
      BY <2>1, <3>1, <3>2, SeenBelow
  <2>2. ASSUME SaveDoc(c, s, f, flag), caching[c], NEW n \in Keys(s, f, flag), NEW d \in Ctx,
               FirstAt(cache', d, c, n)
        PROVE  GetDoc(cache', d, n) = clock'
    <3>1. GetDoc(cache', c, n) = clock' /\ cache' \in Cache /\ clock' \in Nat
      BY <1>1, <2>2, SaveDocKept DEF Kept, IInv, Good
    <3>2. GetResNode(cache', c, n) # NULL
      BY <3>1, NullAssumption DEF GetDoc
    <3> QED
      BY <2>2, <3>1, <3>2, SeenBelow
  <2>3. ASSUME SaveDoc(c, s, f, flag), NEW d \in Ctx, NEW n \in Name
        PROVE  GetBuffer(cache', d, n) = GetBuffer(cache, d, n)
    <3>1. Alters(cache, cache', {}, Bro)
      BY <1>1, <2>3, SaveDocKept
    <3> QED
      BY <3>1 DEF Alters, Turns
  <2> QED
    BY <2>1, <2>2, <2>3
<1>2. ASSUME IInv, [Next]_vars, NEW d \in Ctx, NEW n \in Name
      PROVE  Turned(d, n)
  <2>1. Turns(GetBuffer(cache, d, n), GetDoc(cache, d, n), GetBuffer(cache', d, n), GetDoc(cache', d, n),
              BaseOf(n), Bro, Bro)
    BY <1>2, StepIInv DEF Kept, Alters
  <2>2. \A v : <<BaseOf(n), v>> \in Bro <=> v \in Brought(n)
    <3>1. \A v : <<BaseOf(n), v>>[2] = v
      OBVIOUS
    <3> QED BY <3>1 DEF Bro, Brought
  <2> QED
    BY <2>1, <2>2 DEF Turns
<1> HIDE DEF Saved, Turned
<1>3. IInv /\ [Next]_vars =>
        [/\ \A c \in Ctx, s \in Symbol \cup {NULL}, f \in File \cup {NULL}, flag \in BOOLEAN : Saved(c, s, f, flag)
         /\ \A d \in Ctx, n \in Name : Turned(d, n)]_cache
  BY <1>1, <1>2
<1> QED
  BY <1>3, Invariance, PTL DEF Spec, SavedIsFound, Saved, Turned

================================================================================
