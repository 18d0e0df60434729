-------------------------------- MODULE Dom --------------------------------
(* Helpers on trees of XML nodes (dom.c).  A node is a value: its name, its  *)
(* text when it is a text node, its children and its attributes.  A position *)
(* in a tree is the sequence of the indices of children that lead to it, so  *)
(* that the parent of a node is the node at the front of its position.       *)
EXTENDS Integers, Sequences, FiniteSets, SequencesExt

(* Concatenation of a sequence of sequences.                                 *)
RECURSIVE JoinedTo(_, _)
JoinedTo(lists, k) == IF k = 0 THEN <<>> ELSE JoinedTo(lists, k - 1) \o lists[k]
Joined(lists) == JoinedTo(lists, Cardinality(DOMAIN lists))

(* attr holds pairs of strings; the counter and the path, which are numbers, *)
(* have fields of their own, zero and <<>> when the attribute is missing.    *)
Elem(name, kids) ==
    [name |-> name, text |-> <<>>, kids |-> kids, attr |-> {}, count |-> 0, w |-> FALSE, xpath |-> <<>>]
TextNode(text) == [Elem("#text", <<>>) EXCEPT !.text = text]
Comment(text) == [Elem("#comment", <<>>) EXCEPT !.text = text]

IsText(n)    == n.name = "#text"
IsElement(n) == n.name \notin {"#text", "#comment", "#pi"}

-----------------------------------------------------------------------------
(* Attributes.                                                               *)

SetProp(n, key, value) == [n EXCEPT !.attr = {a \in @ : a[1] # key} \cup {<<key, value>>}]
HasProp(n, key)        == \E a \in n.attr : a[1] = key
PropValue(n, key)      == IF IsElement(n) /\ HasProp(n, key) THEN (CHOOSE a \in n.attr : a[1] = key)[2] ELSE ""

CopyPropList(target, n) ==
    [target EXCEPT !.attr = {a \in @ : ~HasProp(n, a[1]) \/ PropValue(n, a[1]) = ""}
                            \cup {a \in n.attr : a[2] # ""}]

(* Only "yes" and "no" are values of a flag.                                 *)
PropFlag(n, key, default) ==
    IF HasProp(n, key) /\ IsElement(n) /\ PropValue(n, key) \in {"yes", "no"} THEN PropValue(n, key) = "yes" ELSE default

IncrCount(n, i) == [n EXCEPT !.count = IF @ > 0 THEN @ + i ELSE i + 1]

-----------------------------------------------------------------------------
(* Positions.                                                                *)

RECURSIVE At(_, _)
At(t, p) == IF p = <<>> THEN t ELSE At(t.kids[Head(p)], Tail(p))

RECURSIVE Positions(_)
Positions(t) == {<<>>} \cup UNION {{<<i>> \o p : p \in Positions(t.kids[i])} : i \in DOMAIN t.kids}

Ancestors(t, p) == {SubSeq(p, 1, k) : k \in 0..(Len(p) - 1)}

(* The nearest ancestor that has the attribute.                              *)
AncestorPropValue(t, p, key) ==
    LET with == {q \in Ancestors(t, p) : PropValue(At(t, q), key) # ""}
    IN  IF with = {} THEN "" ELSE PropValue(At(t, CHOOSE q \in with : \A r \in with : Len(r) <= Len(q)), key)

(* The flag of the node or of its nearest ancestor that has the attribute,   *)
(* which ends the search even when it is no flag.                            *)
AncestorsPropFlag(t, p, key, default) ==
    LET with == {q \in Ancestors(t, p) \cup {p} : IsElement(At(t, q)) /\ HasProp(At(t, q), key)}
    IN  IF with = {} THEN default
        ELSE PropFlag(At(t, CHOOSE q \in with : \A r \in with : Len(r) <= Len(q)), key, default)

IsDescendant(t, top, p) == IsElement(At(t, top)) /\ IsStrictPrefix(top, p)
HasAncestor(t, p, name) == \E q \in Ancestors(t, p) : At(t, q).name = name
HasChild(n, name)       == \E i \in DOMAIN n.kids : n.kids[i].name = name

(* Equal nodes: the children are compared as far as both nodes have some.    *)
RECURSIVE NodesAreEqual(_, _)
NodesAreEqual(a, b) ==
    /\ a.name = b.name
    /\ a.text = b.text
    /\ \A i \in DOMAIN a.kids \cap DOMAIN b.kids : NodesAreEqual(a.kids[i], b.kids[i])
    /\ Cardinality(a.attr) = Cardinality(b.attr) => a.attr = b.attr

(* domIsNodeInTree() looks at the siblings behind the needle's root too.     *)
InTree(t, top, p) == \/ IsPrefix(top, p)
                     \/ /\ top # <<>> /\ Len(p) >= Len(top)
                        /\ Front(top) = SubSeq(p, 1, Len(top) - 1) /\ p[Len(top)] > Last(top)
TreesOverlap(t, p, q) == \E r \in Positions(t) : InTree(t, q, r) /\ InTree(t, p, r)

-----------------------------------------------------------------------------
(* Searches.                                                                 *)

FirstIn(kids, names) == LET at == {i \in DOMAIN kids : kids[i].name \in names}
                        IN  IF at = {} THEN 0 ELSE CHOOSE i \in at : \A j \in at : i <= j

FirstChild(n, name)   == FirstIn(n.kids, {name})
NumberOfChild(n, name) == Cardinality({i \in DOMAIN n.kids : n.kids[i].name = name})
NumberOf(t, name)      == Cardinality({p \in Positions(t) : At(t, p).name = name})

(* The first child that is a text, when nothing but empty texts precede it.  *)
FirstChildText(n) ==
    LET at == {i \in DOMAIN n.kids : IsText(n.kids[i]) /\ n.kids[i].text # <<>>
                                     /\ \A j \in 1..(i-1) : IsText(n.kids[j]) /\ n.kids[j].text = <<>>}
    IN  IF at = {} THEN 0 ELSE CHOOSE i \in at : TRUE

IsSingleElementChild(kids, i) == \A j \in DOMAIN kids \ {i} : ~IsElement(kids[j]) /\ (IsText(kids[j]) => kids[j].text = <<>>)

RECURSIVE ListGetString(_)
ListGetString(n) ==
    IF IsText(n) THEN n.text
    ELSE IF IsElement(n) THEN Joined([i \in DOMAIN n.kids |-> ListGetString(n.kids[i])]) ELSE <<>>

(* The text at the first place of an element, the text of any other node.    *)
ContentPtr(n) == IF IsElement(n) THEN (IF n.kids # <<>> /\ ~IsElement(n.kids[1]) THEN n.kids[1].text ELSE <<>>) ELSE n.text

MimeTypeOf(root) ==
    CASE root.name = "map"  -> "mm"
      [] root.name = "make" -> "cxp"
      [] root.name = "html" -> "html"
      [] root.name = "pie"  -> "pie"
      [] OTHER              -> "xml"
IsHtml(root) == \/ root.name = "html" /\ (HasChild(root, "head") \/ HasChild(root, "body"))
                \/ root.name \in {"head", "body"}

(* domGrepRegExpInTree(): a match for every attribute and every text, the    *)
(* attributes of an element before its children.                             *)
RECURSIVE Grep(_, _, _)
Grep(n, p, found) ==
    SetToSeq({[at |-> p, name |-> n.name] : a \in {a \in n.attr : a[2] \in found}})
    \o Joined([i \in DOMAIN n.kids |->
           IF IsElement(n.kids[i]) THEN Grep(n.kids[i], Append(p, i), found)
           ELSE IF IsText(n.kids[i]) /\ \E k \in DOMAIN n.kids[i].text : n.kids[i].text[k].v \in found
                THEN <<[at |-> p, name |-> n.name]>> ELSE <<>>])

-----------------------------------------------------------------------------
(* Changes.                                                                  *)

EmptyText == TextNode(<<>>)

(* domReplaceNodeList(): the node becomes an empty text and the list follows *)
(* it; no list is no change.                                                 *)
TransformToText(n)       == EmptyText
Replaced(n, list)        == IF list = <<>> THEN <<n>> ELSE <<TransformToText(n)>> \o list
AddNextSibling(kids, i, list) == SubSeq(kids, 1, i) \o list \o SubSeq(kids, i + 1, Len(kids))

TransformToNode(n, src) ==
    IF IsElement(n) /\ IsElement(src)
    THEN [src EXCEPT !.attr = {a \in @ : a[2] # ""}] ELSE n
TransferDescendants(to, from) ==
    IF IsElement(from) /\ from.kids = <<>> THEN to
    ELSE [to EXCEPT !.name = from.name, !.kids = IF IsText(to) THEN from.kids ELSE @ \o from.kids]

RECURSIVE FreeByName(_, _)
FreeByName(n, name) ==
    [n EXCEPT !.kids = Joined([i \in DOMAIN @ |->
        IF @[i].name = name THEN <<>> ELSE <<FreeByName(@[i], name)>>])]

Valid(n) == IsElement(n) /\ PropFlag(n, "valid", TRUE)

RECURSIVE ValidateTree(_)
ValidateTree(n) ==
    IF ~IsElement(n) THEN <<n>>
    ELSE IF ~Valid(n) THEN <<>>
    ELSE <<[n EXCEPT !.kids = Joined([i \in DOMAIN @ |-> ValidateTree(@[i])])]>>

(* A document made of a node: a list gets a root of its own.                 *)
DocFromNode(list) == IF Len(list) > 1 THEN Elem("root", list) ELSE list[1]

AddNodeToError(root, n) ==
    LET m     == FirstChild(root, "meta")
        meta  == IF m = 0 THEN Elem("meta", <<>>) ELSE root.kids[m]
        e     == FirstChild(meta, "error")
        error == IF e = 0 THEN Elem("error", <<>>) ELSE meta.kids[e]
        error2 == [error EXCEPT !.kids = Append(@, n)]
        meta2 == IF e = 0 THEN [meta EXCEPT !.kids = Append(@, error2)] ELSE [meta EXCEPT !.kids[e] = error2]
    IN  IF m = 0 THEN [root EXCEPT !.kids = Append(@, meta2)] ELSE [root EXCEPT !.kids[m] = meta2]

(* domSetPropXpath(): the place of every element among the elements of its   *)
(* parent; below meta and error nothing is numbered.                         *)
ElementIndex(kids, i) == Cardinality({j \in 1..i : IsElement(kids[j])})

RECURSIVE SetXpath(_, _)
SetXpath(n, prefix) ==
    IF n.name \in {"meta", "error"} \/ ~IsElement(n) THEN n
    ELSE [n EXCEPT !.xpath = IF prefix = <<>> THEN <<1>> ELSE @,
                   !.kids = Joined([i \in DOMAIN @ |->
                       IF IsElement(@[i])
                       THEN LET path == (IF prefix = <<>> THEN <<1>> ELSE prefix) \o <<ElementIndex(@, i)>>
                            IN  <<SetXpath([@[i] EXCEPT !.xpath = path], path)>>
                       ELSE <<@[i]>>])]
=============================================================================
