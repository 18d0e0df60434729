------------------------------ MODULE ResNodeTree ------------------------------
(***************************************************************************)
(* The intrusive tree/list of resource nodes (res_node.c, res_node_list.c) *)
(* at the level of its five link members: parent, children, last, next,    *)
(* prev.  A heap is a record of one function per member; every C function  *)
(* that moves links is an operator from heaps to heaps, so that a function *)
(* which calls another is the composition of their operators.  A node that *)
(* is not alive was never allocated or has been freed; its links are NULL. *)
(*                                                                         *)
(* held is the set of list heads the program still has a pointer to: what  *)
(* a caller gets from a constructor or keeps in a member such as           *)
(* cxpContext.prnSearch, and must pass to resNodeFree() or                 *)
(* resNodeListFree() in the end.  lost is a history variable: the heads of *)
(* lists to which resNodeAddSibling() dropped the only pointer.            *)
(***************************************************************************)
EXTENDS Naturals, FiniteSets

CONSTANTS
  Node,  \* the addresses resNodeNew() can return
  NULL   \* the null pointer

ASSUME NodeAssumption == NULL \notin Node

VARIABLES
  heap,  \* the link members of every node
  held,  \* the list heads the program holds
  lost   \* the list heads it dropped without freeing them

vars == <<heap, held, lost>>

Link == Node \cup {NULL}

Heap == [alive : SUBSET Node,
         parent : [Node -> Link], children : [Node -> Link], last : [Node -> Link],
         next : [Node -> Link], prev : [Node -> Link]]

--------------------------------------------------------------------------------
(* What the loops of the code visit, without recursion: the least set that  *)
(* holds the start and is closed under the links the loop follows.          *)

(* for (prnI = n; prnI; prnI = prnI->next) *)
ListFrom(h, n) ==
  {m \in Node : \A S \in SUBSET Node :
      (n \in S /\ \A x \in S : h.next[x] # NULL => h.next[x] \in S) => m \in S}

(* the nodes a recursion over resNodeGetChild() and resNodeGetNext() visits *)
Reach(h, n) ==
  {m \in Node : \A S \in SUBSET Node :
      (n \in S /\ \A x \in S : /\ h.next[x] # NULL => h.next[x] \in S
                               /\ h.children[x] # NULL => h.children[x] \in S)
      => m \in S}

IsTail(h, n, t) == t \in ListFrom(h, n) /\ h.next[t] = NULL

(* the first node of a list that has no parent *)
IsHead(h, n) == n \in h.alive /\ h.parent[n] = NULL /\ h.prev[n] = NULL

Heads(h) == {n \in h.alive : IsHead(h, n)}

--------------------------------------------------------------------------------
(* The link functions *)

(* xmlMalloc() and memset() in resNodeNew() *)
Allocated(h, n) == [h EXCEPT !.alive = @ \cup {n}]

(* memset() in resNodeReset() and xmlFree() in resNodeFree(), for each of D *)
Killed(h, D) ==
  [alive    |-> h.alive \ D,
   parent   |-> [x \in Node |-> IF x \in D THEN NULL ELSE h.parent[x]],
   children |-> [x \in Node |-> IF x \in D THEN NULL ELSE h.children[x]],
   last     |-> [x \in Node |-> IF x \in D THEN NULL ELSE h.last[x]],
   next     |-> [x \in Node |-> IF x \in D THEN NULL ELSE h.next[x]],
   prev     |-> [x \in Node |-> IF x \in D THEN NULL ELSE h.prev[x]]]

(* Mutant of Unlinked: the last member of the parent is forgotten. *)
UnlinkedKeepsLast(h, n) ==
  LET p == h.parent[n]
      s == h.next[n]
      q == h.prev[n]
  IN [h EXCEPT !.parent[n] = NULL,
               !.children = [x \in Node |-> IF x = p /\ h.children[x] = n THEN s ELSE h.children[x]],
               !.next = [x \in Node |-> IF x = n THEN NULL ELSE IF x = q THEN s ELSE h.next[x]],
               !.prev = [x \in Node |-> IF x = n THEN NULL ELSE IF x = s THEN q ELSE h.prev[x]]]

(* resNodeListUnlink(): n leaves its parent and its siblings *)
Unlinked(h, n) ==
  LET p == h.parent[n]
      s == h.next[n]
      q == h.prev[n]
  IN [alive    |-> h.alive,
      parent   |-> [x \in Node |-> IF x = n THEN NULL ELSE h.parent[x]],
      children |-> [x \in Node |-> IF x = p /\ h.children[x] = n THEN s ELSE h.children[x]],
      last     |-> [x \in Node |-> IF x = p /\ h.last[x] = n THEN q ELSE h.last[x]],
      next     |-> [x \in Node |-> IF x = n THEN NULL ELSE IF x = q THEN s ELSE h.next[x]],
      prev     |-> [x \in Node |-> IF x = n THEN NULL ELSE IF x = s THEN q ELSE h.prev[x]]]

(* resNodeListUnlinkDescendants(): the children stay linked to each other *)
UnlinkedDescendants(h, p) ==
  LET c == h.children[p]
      L == IF c = NULL THEN {} ELSE ListFrom(h, c)
  IN [h EXCEPT !.parent = [x \in Node |-> IF x \in L THEN NULL ELSE h.parent[x]],
               !.children[p] = NULL,
               !.last[p] = NULL]

(* Mutant of AddedChild: the nodes of c are put in front of each other. *)
AddedChildReversed(h, p, c, t) ==
  LET L == ListFrom(h, c)
      e == h.last[p]
      first == h.children[p] = NULL
  IN [alive    |-> h.alive,
      parent   |-> [x \in Node |-> IF x \in L THEN p ELSE h.parent[x]],
      children |-> [x \in Node |-> IF x = p /\ first THEN t ELSE h.children[x]],
      last     |-> [x \in Node |-> IF x = p THEN c ELSE h.last[x]],
      next     |-> [x \in Node |-> IF x \in L THEN h.prev[x]
                                   ELSE IF x = e /\ ~first THEN t ELSE h.next[x]],
      prev     |-> [x \in Node |-> IF x = t THEN e ELSE IF x \in L THEN h.next[x] ELSE h.prev[x]]]

(* resNodeAddChild(): the list c, whose loop ends at t, goes behind last[p] *)
AddedChild(h, p, c, t) ==
  LET L == ListFrom(h, c)
      e == h.last[p]
      first == h.children[p] = NULL
  IN [alive    |-> h.alive,
      parent   |-> [x \in Node |-> IF x \in L THEN p ELSE h.parent[x]],
      children |-> [x \in Node |-> IF x = p /\ first THEN c ELSE h.children[x]],
      last     |-> [x \in Node |-> IF x = p THEN t ELSE h.last[x]],
      next     |-> [x \in Node |-> IF x = e /\ ~first THEN c ELSE h.next[x]],
      prev     |-> [x \in Node |-> IF x = c /\ ~first THEN e ELSE h.prev[x]]]

(* resNodeAddSibling(): n is unlinked, so that its loop sees n alone, and   *)
(* goes behind t, the end of the list it is appended to                     *)
AddedSibling(h, t, n) ==
  LET u == Unlinked(h, n)
      p == u.parent[t]
  IN [alive    |-> u.alive,
      parent   |-> [x \in Node |-> IF x = n THEN p ELSE u.parent[x]],
      children |-> u.children,
      last     |-> [x \in Node |-> IF x = p THEN n ELSE u.last[x]],
      next     |-> [x \in Node |-> IF x = t THEN n ELSE u.next[x]],
      prev     |-> [x \in Node |-> IF x = n THEN t ELSE u.prev[x]]]

(* resNodeFree(): unlink, free what is below, release the node *)
Freed(h, n) == LET u == Unlinked(h, n) IN Killed(u, Reach(u, n))

(* resNodeListFree(): resNodeFree() of every node of the list of head n *)
ListFreed(h, n) == Killed(h, Reach(h, n))

(* Mutant of ChildrenReleased: resNodeFree() in place of resNodeListFree(). *)
FirstChildReleased(h, p) ==
  IF h.children[p] = NULL THEN h
  ELSE Freed(UnlinkedDescendants(h, p), h.children[p])

(* the child list of p is released node by node, p stays *)
ChildrenReleased(h, p) ==
  IF h.children[p] = NULL THEN h
  ELSE ListFreed(UnlinkedDescendants(h, p), h.children[p])

--------------------------------------------------------------------------------
Init ==
  /\ heap = [alive |-> {},
             parent |-> [n \in Node |-> NULL], children |-> [n \in Node |-> NULL],
             last |-> [n \in Node |-> NULL], next |-> [n \in Node |-> NULL],
             prev |-> [n \in Node |-> NULL]]
  /\ held = {}
  /\ lost = {}

(* the nodes the program can get at; what hangs on a lost head is not       *)
Known == heap.alive \ UNION {Reach(heap, m) : m \in lost}

(* resNodeNew() and the constructors over it hand the node to the caller *)
New(n) ==
  /\ n \notin heap.alive
  /\ heap' = Allocated(heap, n)
  /\ held' = held \cup {n}
  /\ UNCHANGED lost

(* The callers build c apart from the tree of p; the asserts of             *)
(* resNodeAddChild() say the same of p and c themselves.                    *)
AddChild(p, c) ==
  /\ c \in held
  /\ p \in Known \ Reach(heap, c)
  /\ \E t \in Node : IsTail(heap, c, t) /\ heap' = AddedChild(heap, p, c, t)
  /\ held' = held \ {c}
  /\ UNCHANGED lost

(* n is the head of a list the caller built (dirNodeToResNodeList(),        *)
(* resNodeListFromDOM()), or an only child (resNodeInsert()).  Of a list of *)
(* several nodes only the head is appended: the rest begins a list of its   *)
(* own, to which the caller has no pointer.                                 *)
AddSibling(l, n) ==
  /\ n \in held \/ (/\ n \in Known /\ heap.parent[n] # NULL
                    /\ heap.prev[n] = NULL /\ heap.next[n] = NULL)
  /\ l \in Known \ Reach(heap, n)
  /\ n \notin ListFrom(heap, l)
  /\ \E t \in Node : IsTail(heap, l, t) /\ heap' = AddedSibling(heap, t, n)
  /\ held' = held \ {n}
  /\ lost' = lost \cup ({heap.next[n]} \ {NULL})

(* the caller keeps the unlinked node; no caller unlinks the head of a list *)
ListUnlink(n) ==
  /\ n \in Known
  /\ ~IsHead(heap, n)
  /\ heap' = Unlinked(heap, n)
  /\ held' = held \cup {n}
  /\ UNCHANGED lost

(* a linked node, or a root without siblings: lists go to resNodeListFree() *)
Free(n) ==
  /\ n \in Known
  /\ ~IsHead(heap, n) \/ heap.next[n] = NULL
  /\ heap' = Freed(heap, n)
  /\ held' = held \ {n}
  /\ UNCHANGED lost

ListFree(n) ==
  /\ n \in held
  /\ heap' = ListFreed(heap, n)
  /\ held' = held \ {n}
  /\ UNCHANGED lost

(* resNodeListDumpRecursively() when the listing of p is written *)
DumpRelease(p) ==
  /\ p \in Known
  /\ heap' = ChildrenReleased(heap, p)
  /\ UNCHANGED <<held, lost>>

(* dbParseDirTraverse() when the listing of p is in the database *)
DbRelease(p) ==
  /\ p \in Known
  /\ heap.children[p] # NULL
  /\ heap' = Freed(heap, heap.children[p])
  /\ UNCHANGED <<held, lost>>

(* resNodeReset(): the caller resets nodes it holds and that have no list *)
Reset(n) ==
  /\ n \in held
  /\ heap.next[n] = NULL
  /\ heap' = ChildrenReleased(heap, n)
  /\ UNCHANGED <<held, lost>>

(* resNodeResolveLinkChildNew(): c is new and replaces the first child of p *)
ResolveLink(p, c) ==
  LET h == IF heap.children[p] = NULL THEN heap ELSE Freed(heap, heap.children[p])
  IN /\ p \in Known
     /\ c \notin heap.alive
     /\ heap' = AddedChild(Allocated(h, c), p, c, c)
     /\ UNCHANGED <<held, lost>>

Next ==
  \/ \E n \in Node : New(n) \/ ListUnlink(n) \/ Free(n) \/ ListFree(n)
                     \/ DumpRelease(n) \/ DbRelease(n) \/ Reset(n)
  \/ \E p, c \in Node : AddChild(p, c) \/ AddSibling(p, c) \/ ResolveLink(p, c)

Spec == Init /\ [][Next]_vars

--------------------------------------------------------------------------------
(* Properties *)

(* Every link is a node or NULL, and the heads held or lost are nodes. *)
TypeOK == heap \in Heap /\ held \in SUBSET Node /\ lost \in SUBSET Node

(* No live node has a link to freed memory. *)
NoDangling(h) ==
  \A x \in h.alive : {h.parent[x], h.children[x], h.last[x], h.next[x], h.prev[x]}
                     \subseteq h.alive \cup {NULL}

(* Siblings agree about their order and their parent. *)
SiblingLinks(h) ==
  \A x \in h.alive :
    /\ h.next[x] # NULL => h.prev[h.next[x]] = x /\ h.parent[h.next[x]] = h.parent[x]
    /\ h.prev[x] # NULL => h.next[h.prev[x]] = x /\ h.parent[h.prev[x]] = h.parent[x]

(* children and last of a parent are the two ends of its child list. *)
ParentLinks(h) ==
  \A x \in h.alive :
    /\ h.parent[x] # NULL /\ h.prev[x] = NULL => h.children[h.parent[x]] = x
    /\ h.parent[x] # NULL /\ h.next[x] = NULL => h.last[h.parent[x]] = x
    /\ h.children[x] # NULL => h.parent[h.children[x]] = x /\ h.prev[h.children[x]] = NULL
    /\ h.last[x] # NULL => h.parent[h.last[x]] = x /\ h.next[h.last[x]] = NULL
    /\ h.children[x] = NULL <=> h.last[x] = NULL

(* No list and no chain of parents runs in a circle: the loops end. *)
NoCycle(h) ==
  \A S \in SUBSET h.alive : S # {} => /\ \E x \in S : h.prev[x] \notin S
                                      /\ \E x \in S : h.parent[x] \notin S

WellFormed(h) == NoDangling(h) /\ SiblingLinks(h) /\ ParentLinks(h) /\ NoCycle(h)

(* After any sequence of link operations the five members agree with each   *)
(* other, point to live nodes only, and form finite lists of finite trees.  *)
(* resNodeListUnlink() and the loops of resNodeAddChild() patch them one by *)
(* one (res_node_list.c:244-275, res_node.c:813-842).                       *)
LinksConsistent == WellFormed(heap)

(* Every list in memory is owned once: its head is held, and what is held   *)
(* is the head of a live list.  An unheld head is a leak, a held node that  *)
(* is not alive will be freed twice, a held node inside a tree as well.     *)
(* The only lists that leak are the rests resNodeAddSibling() cuts off,     *)
(* which its comment (res_node.c:751) says it appends: nothing else loses a *)
(* list, and what is lost is never held or freed again.                     *)
Owned == Heads(heap) = held \cup lost /\ held \cap lost = {}

(* Siblings that stay siblings keep their order, whatever is appended,      *)
(* unlinked or freed around them: directory listings and search paths rely  *)
(* on it (resNodeListFindPath() takes the first match).                     *)
Behind(h, a, b) == a # b /\ b \in ListFrom(h, a)
OrderKept ==
  [][\A a, b \in heap.alive \cap heap'.alive :
       Behind(heap, a, b) => ~Behind(heap', b, a)]_vars

================================================================================
