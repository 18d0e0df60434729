------------------------------ MODULE Petrinet ------------------------------
(* Paths in petri nets (petrinet.c): the net that is read from a document,    *)
(* the search that walks forward along the first free edge and goes back to   *)
(* the last branch, and the knots that are reported as invalid because no     *)
(* path uses them.                                                            *)
(*                                                                            *)
(* A document is a record: the ids of its states, of its transitions and, as  *)
(* pairs of ids, its edges, each in document order. An edge may be repeated.  *)
EXTENDS Integers, Sequences, FiniteSets, SequencesExt

CONSTANTS
    Docs,       \* documents
    NoId,       \* the id of a knot that has none
    None,       \* ERROR_INDEX, NULL
    Limits,     \* values of the attributes lmin and lmax, or None
    NMax,       \* attribute nmax
    LoopsMax    \* LOOPS_MAX

ASSUME LimitAssumption == None \notin Nat /\ Limits \subseteq Nat \cup {None}
\* No knot is a null pointer.
ASSUME KnotAssumption == None \notin {"state", "transition"} \X Nat
ASSUME BoundAssumption == NMax \in Nat /\ LoopsMax \in Nat \ {0}
ASSUME DocAssumption == \A d \in Docs : Len(d.s) \in Nat /\ Len(d.t) \in Nat /\ Len(d.e) \in Nat

VARIABLES
    doc,        \* the document, of the form above
    edge,       \* the matrix of the net: its edges as pairs of knots
    min, max,   \* limits of the length of a path, or None
    all,        \* is this an element pathnet, which searches for all states?
    start, target, \* states
    targets,    \* targets that are still to be searched for
    path,       \* the path being built, a sequence of knots
    paths,      \* the paths found for this target, in order
    table,      \* what is written of the paths to a table
    marked,     \* the marked knots, those on a path that was found
    used,       \* the marked edge elements, by their place in the document
    loops,      \* how often the search went forward
    pc          \* "new", "forward", "backward", "next" or "done"

vars == <<doc, edge, min, max, all, start, target, targets, path, paths, table, marked, used, loops, pc>>

-----------------------------------------------------------------------------
(* The net. A knot is a pair of its type and its index, which orders the      *)
(* states among themselves and the transitions.                               *)

States == {<<"state", i>> : i \in 1..Len(doc.s)}
Transitions == {<<"transition", i>> : i \in 1..Len(doc.t)}
Knots == States \cup Transitions

Id(k) == IF k[1] = "state" THEN doc.s[k[2]] ELSE doc.t[k[2]]    \* KNOTID()

\* The first knot of an id, None if there is none
FirstIndex(ids, id) ==
    LET hits == {i \in 1..Len(ids) : ids[i] = id}
    IN  IF hits = {} \/ id = NoId THEN None ELSE Min(hits)

StateFor(id) == LET i == FirstIndex(doc.s, id) IN IF i = None THEN None ELSE <<"state", i>>
TransitionFor(id) == LET i == FirstIndex(doc.t, id) IN IF i = None THEN None ELSE <<"transition", i>>

\* The states that their id finds: the first ones of each id
Nameable == {k \in States : StateFor(doc.s[k[2]]) = k}

\* The knots of an edge of the document: a state is preferred to a transition
\* of the same id, and an edge between two states or to an unknown id is none
EdgeOf(e) ==
    IF StateFor(e[1]) # None THEN <<StateFor(e[1]), TransitionFor(e[2])>>
    ELSE <<TransitionFor(e[1]), StateFor(e[2])>>

\* The elements that are edges between knots, an edge_t each
EdgeElements(d) == {i \in 1..Len(d) : EdgeOf(d[i])[1] # None /\ EdgeOf(d[i])[2] # None}

EdgesOf(d) == {EdgeOf(d[i]) : i \in EdgeElements(d)}

\* The first element of an edge: its repetitions are not looked at
EdgePtr(e) == Min({i \in EdgeElements(doc.e) : EdgeOf(doc.e[i]) = e})

\* The members of p before its last knot
Before(p) == {p[i] : i \in 1..Len(p) - 1}

\* The knot of least index of a set of knots of one type
Least(K) == CHOOSE k \in K : \A m \in K : k[2] <= m[2]

-----------------------------------------------------------------------------
(* The search *)

Length == Len(path) - 1     \* l_path

\* The transitions or states that the path can go on to from its last knot. A
\* state may come twice if it is both start and target: the path is a circle.
FreeTransitions == {t \in Transitions : <<Last(path), t>> \in edge /\ t \notin Before(path)}

\* A fault: states of the path are not left out
FreeStatesAll == {s \in States : <<Last(path), s>> \in edge}

FreeStates ==
    {s \in States : <<Last(path), s>> \in edge /\ (s \in Before(path) => s = start /\ s = target)}

EdgesIn(p) == {EdgePtr(<<p[i], p[i + 1]>>) : i \in 1..Len(p) - 1}

\* What is written of a path: its knots in order, each one after the first
\* behind the edge that leads to it
PathXml(p) ==
    FoldLeft(LAMBDA xml, i : xml \o <<[edge |-> <<p[i - 1], p[i]>>], [knot |-> p[i]]>>,
             <<[knot |-> p[1]]>>, [i \in 1..Len(p) - 1 |-> i + 1])

\* A path is found: it is marked, and written while there are less than NMax
Found(p) ==
    /\ path' = p
    /\ paths' = Append(paths, p)
    /\ table' = IF ~all /\ Len(paths) + 1 < NMax THEN Append(table, PathXml(p)) ELSE table
    /\ marked' = marked \cup ToSet(p)
    /\ used' = used \cup EdgesIn(p)

\* The search ends a loop with or without a path
Looped == /\ loops' = loops + 1
          /\ pc' = IF loops + 1 < LoopsMax THEN "backward" ELSE "next"

DeadEnd == Looped /\ UNCHANGED <<path, paths, table, marked, used>>

GoOn(k) == path' = Append(path, k) /\ pc' = "forward" /\ UNCHANGED <<paths, table, marked, used, loops>>

TooLong == max # None /\ Length >= max
TooShort == min # None /\ Length < min
AtTarget == Last(path) = target /\ Length > 0

ForwardFromState ==
    IF FreeTransitions = {} THEN DeadEnd ELSE GoOn(Least(FreeTransitions))

ForwardFromTransition ==
    IF FreeStates = {} THEN DeadEnd
    ELSE LET s == Least(FreeStates)
         IN  IF s = target THEN Found(Append(path, s)) /\ Looped ELSE GoOn(s)

\* pnetSearchPathForward(), one level of its recursion
SearchPathForward ==
    /\ pc = "forward"
    /\ CASE TooLong              -> DeadEnd
         [] ~TooLong /\ AtTarget -> IF TooShort THEN DeadEnd ELSE Found(path) /\ Looped
         [] OTHER                -> IF Last(path) \in States THEN ForwardFromState
                                    ELSE ForwardFromTransition
    /\ UNCHANGED <<doc, edge, min, max, all, start, target, targets>>

\* A fault: the branch after the last one is skipped
BranchesSkipped ==
    LET shorter == Front(path)
    IN  {k \in Knots : /\ k[1] = Last(path)[1] /\ k[2] > Last(path)[2] + 1
                       /\ <<Last(shorter), k>> \in edge /\ k \notin Before(shorter)}

\* The knots that may replace the last knot of the path
Branches ==
    LET shorter == Front(path)
    IN  {k \in Knots : /\ k[1] = Last(path)[1] /\ k[2] > Last(path)[2]
                       /\ <<Last(shorter), k>> \in edge /\ k \notin Before(shorter)}

\* pnetSearchBranchBackward(), one level of its recursion
SearchBranchBackward ==
    /\ pc = "backward"
    /\ IF Length < 1
       THEN pc' = "next" /\ UNCHANGED path
       ELSE IF Branches = {}
       THEN path' = Front(path) /\ UNCHANGED pc
       ELSE path' = Append(Front(path), Least(Branches)) /\ pc' = "forward"
    /\ UNCHANGED <<doc, edge, min, max, all, start, target, targets, paths, table, marked, used, loops>>

-----------------------------------------------------------------------------
(* The elements pathtable and pathnet *)

\* The states with an id, up to the first one that has none
Named(ids) == {i \in 1..Len(ids) : \A j \in 1..i : ids[j] # NoId}

\* pnetNew(): states and transitions are needed, the first ones with an id
Valid(d) == d.s # <<>> /\ d.t # <<>> /\ d.s[1] # NoId /\ d.t[1] # NoId

\* The search starts for a target, which is found by the id of a state
SetTarget(k) ==
    /\ target' = StateFor(doc.s[k[2]])
    /\ path' = <<start>>
    /\ paths' = <<>>

\* An element of a start and, for a table, a target. An element pathnet goes
\* through all states, in order.
Begin(s, t) ==
    /\ pc = "new"
    /\ edge' = EdgesOf(doc.e)
    /\ start' = s
    /\ target' = t
    /\ all' = (t = None)
    /\ targets' = IF t # None THEN <<t>> ELSE [i \in Named(doc.s) |-> <<"state", i>>]
    /\ min' \in Limits /\ max' \in Limits
    /\ pc' = "next"
    /\ UNCHANGED <<doc, path, paths, table, marked, used, loops>>

\* The search for the next target, if there is one. An element pathnet skips the
\* start, but not another state of the same id.
NextTarget ==
    /\ pc = "next"
    /\ IF targets = <<>>
       THEN pc' = "done" /\ UNCHANGED <<target, targets, path, paths>>
       ELSE /\ targets' = Tail(targets)
            /\ IF all /\ Head(targets) = start
               THEN UNCHANGED <<target, path, paths, pc>>
               ELSE SetTarget(Head(targets)) /\ pc' = "forward"
    /\ UNCHANGED <<doc, edge, min, max, all, start, table, marked, used, loops>>

\* The knots and edge elements without a mark, looking at knots up to the first
\* one without an id. An edge needs the marks of its knots, too.
UnmarkedKnots == {k \in Knots \ marked : k[2] \in Named(IF k[1] = "state" THEN doc.s ELSE doc.t)}
UnmarkedEdges ==
    {i \in EdgeElements(doc.e) : i \notin used \/ \E k \in 1..2 : EdgeOf(doc.e[i])[k] \notin marked}

\* What the result of an element pathnet excludes: a copy of the document says
\* of these elements that they are not valid, but a stylesheet filters what has
\* the ids of one of them
PathnetXml == [knots |-> UnmarkedKnots, edges |-> UnmarkedEdges]

ExcludedKnots == {k \in Knots : \E m \in UnmarkedKnots : Id(k) = Id(m)}
ExcludedEdges ==
    {i \in 1..Len(doc.e) :
        \E j \in UnmarkedEdges : \A k \in 1..2 : doc.e[i][k] = Id(EdgeOf(doc.e[j])[k])}
PathnetFilter == [knots |-> ExcludedKnots, edges |-> ExcludedEdges]

\* The result of an element pathtable
Pathtable == [count |-> Len(paths), paths |-> table]

Init ==
    /\ doc \in {d \in Docs : Valid(d)}
    /\ edge = {} /\ all = FALSE /\ min = None /\ max = None
    /\ start = None /\ target = None /\ targets = <<>>
    /\ path = <<>> /\ paths = <<>> /\ table = <<>> /\ marked = {} /\ used = {}
    /\ loops = 0
    /\ pc = "new"

Next ==
    \/ \E s \in Nameable, t \in Nameable \cup {None} : Begin(s, t)
    \/ NextTarget
    \/ SearchPathForward
    \/ SearchBranchBackward

Spec == Init /\ [][Next]_vars

-----------------------------------------------------------------------------
(* Properties *)

\* A walk in the net from the start that comes to no knot twice, other than to
\* the start when that is the target
SimplePath(p) ==
    /\ p # <<>> /\ p[1] = start
    /\ \A i \in 1..Len(p) - 1 : <<p[i], p[i + 1]>> \in edge
    /\ \A i, j \in 1..Len(p) : i < j /\ p[i] = p[j] => i = 1 /\ j = Len(p) /\ p[j] = target

\* Whatever branches were tried before, the path buffer holds a simple path, so
\* that it is never longer than the number of knots it is allocated for, and a
\* path is reported once only.
PathsSimple ==
    /\ pc \in {"forward", "backward"} => SimplePath(path) /\ Length <= Len(doc.s) + Len(doc.t)
    /\ \A i \in 1..Len(paths) :
          /\ SimplePath(paths[i]) /\ Last(paths[i]) = target
          /\ \A j \in 1..Len(paths) : paths[i] = paths[j] => i = j
          /\ max # None => Len(paths[i]) - 1 <= max

\* The walks of n edges from the start that come to no knot twice
Walks[n \in 0..Len(doc.s) + Len(doc.t)] ==
    IF n = 0 THEN {<<start>>}
    ELSE UNION {{Append(p, k) : k \in {x \in Knots : <<Last(p), x>> \in edge /\ x \notin ToSet(p)}} :
                p \in Walks[n - 1]}

\* The simple paths from the start to the knots of K
PathsTo(K) == {p \in UNION {Walks[n] : n \in 0..Len(doc.s) + Len(doc.t)} : Last(p) \in K /\ Len(p) > 1}

Unlimited == min = None /\ max = None /\ loops < LoopsMax

\* Every knot has an id, and no other state has that of the start
WellNamed ==
    /\ Named(doc.s) = 1..Len(doc.s) /\ Named(doc.t) = 1..Len(doc.t)
    /\ \A k \in States \ Nameable : StateFor(doc.s[k[2]]) # start

\* The knots that no path of P comes to, and the edge elements that none of them
\* goes along
Avoided(P) == Knots \ UNION {ToSet(p) : p \in P}
OffPaths(P) ==
    {i \in EdgeElements(doc.e) :
        \A p \in P : \A n \in 1..Len(p) - 1 : EdgeOf(doc.e[i]) # <<p[n], p[n + 1]>>}

\* The edge elements that are repeated before or after
RepeatsAmong(D, i) == \E j \in D \cap EdgeElements(doc.e) : j # i /\ EdgeOf(doc.e[j]) = EdgeOf(doc.e[i])
Again == {i \in EdgeElements(doc.e) : RepeatsAmong(1..(i - 1), i)}
Repeated == {i \in EdgeElements(doc.e) : RepeatsAmong(1..Len(doc.e), i)}

\* When the search for a target other than the start has ended, every simple
\* path there was found; and at the end a table counts them all, and what is
\* excluded is exactly
\*   - in a copy: the knots and edge elements that no simple path to one of the
\*     targets uses, and the repetitions of the edges that one does use;
\*   - by a filter: the same, and with a knot every knot of its id, with an edge
\*     its first element as well, whether a path uses them or not.
Complete ==
    Unlimited =>
        /\ pc = "next" /\ target # start /\ path # <<>>
              => ToSet(paths) = PathsTo({target})
        /\ pc = "done" /\ target # start /\ WellNamed
              => LET P == PathsTo(IF all THEN Nameable \ {start} ELSE {target})
                 IN  /\ ~all => Pathtable.count = Cardinality(P)
                     /\ PathnetXml = [knots |-> Avoided(P), edges |-> OffPaths(P) \cup Again]
                     /\ PathnetFilter = [knots |-> {k \in Knots : \E m \in Avoided(P) : Id(k) = Id(m)},
                                         edges |-> OffPaths(P) \cup Repeated]

=============================================================================
