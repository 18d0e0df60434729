----------------------------- MODULE PieBlocks -----------------------------
(* The parser of structured text (option/pie/pie_element.c and              *)
(* ParseTextBuffer() of option/pie/pie_text_blocks.c): a text is taken apart *)
(* into elements, one after the other, and every element is put into a tree  *)
(* of sections, lists and paragraphs.                                        *)
(*                                                                           *)
(* A line of the text is a record: its kind, the number of marks it begins   *)
(* with, the number of semicolons before them, and whether it has nothing    *)
(* but marks.  The content of a line is stood for by its number, so that     *)
(* every line is told from every other.  There is a line break between two   *)
(* lines, so that a text that ends with one has an empty line at its end.    *)
EXTENDS Naturals, Sequences, FiniteSets

CONSTANTS
    Texts,      \* the texts: their lines and what the memory has behind them
    Modes,      \* the modes a text is parsed with: subset of {"par", "line", "pre"}
    iMax        \* the limit of elements

SourceLine ==
    [kind : STRING, region : STRING, depth : Nat, hidden : Nat, percent : BOOLEAN, bare : BOOLEAN]

(* Where the kind of a line is told by its marks it has some.                *)
MarkKinds == {"header", "item", "enum", "ruler"}
ASSUME TextAssumption ==
    \A t \in Texts :
        /\ t.lines \in Seq(SourceLine) /\ t.size \in 1..Len(t.lines)
        /\ \A i \in DOMAIN t.lines : t.lines[i].kind \in MarkKinds => t.lines[i].depth > 0
ASSUME LimitAssumption == iMax \in Nat

(* The kinds of lines: an empty line, the markers of regions, and contents.  *)
Regions  == {"script", "pre", "csv"}
Contents == {"text", "header", "item", "enum", "ruler", "origin"}
IsBegin(l, r) == l.kind = "begin" /\ l.region = r
IsEnd(l, r)   == l.kind = "end" /\ l.region = r

VARIABLES
    text,       \* the source of the element, and what is behind it in the memory
    size,       \* the number of its lines that are its own
    pos,        \* its iBegin, the number of the next line
    rest,       \* the line break after a marker is still to be read
    mode,       \* its eMode
    before,     \* its eModeBefore
    tree,       \* the nodes of the result: <<block, ...>>, in the order of their creation
    parent,     \* pndParent, the node of the section of the last header
    context,    \* attribute "context" of the block: the lines of the element that set it
    replaced,   \* history: the lines of the elements that set it before
    taken,      \* the number of elements taken
    over,       \* the loop has ended
    failed      \* the program has read on in the memory until that failed

vars == <<text, size, pos, rest, mode, before, tree, parent, context, replaced, taken, over, failed>>

-----------------------------------------------------------------------------
(* The elements of a text.                                                   *)

Element(type, lines, next) ==
    [type |-> type, lines |-> lines, next |-> next, rest |-> FALSE, mode |-> mode,
     before |-> before, depth |-> 0, hidden |-> 0, enum |-> FALSE]
Marked(type, lines, next) == [Element(type, lines, next) EXCEPT !.rest = TRUE]

Least(S) == CHOOSE i \in S : \A j \in S : i <= j
Most(S) == CHOOSE i \in S : \A j \in S : i >= j
Lines(a, b) == [i \in 1..(IF b < a THEN 0 ELSE b - a + 1) |-> a + i - 1]

(* The last line before the zero that ends the source.  Once the parser has  *)
(* passed this zero it goes on in what is behind it.                         *)
LastLine == IF pos > size + 1 THEN Len(text) ELSE size

(* Nothing is left, not even a line break.                                   *)
AtEnd == pos > LastLine \/ (pos = LastLine /\ ~rest /\ text[pos].kind = "empty")

(* The first marker of the end of region r from line i on; 0: there is none. *)
EndOf(r, i) ==
    LET e == {j \in i..LastLine : IsEnd(text[j], r)}
    IN  IF e = {} THEN 0 ELSE Least(e)

(* Mutant: the region reaches on behind its last end marker.                 *)
RegionToLast(r) ==
    LET e == EndOf(r, pos)
        f == {j \in e..LastLine : IsEnd(text[j], r)}
    IN  IF e = 0 THEN Element(r, Lines(pos + 1, LastLine), LastLine + 1)
        ELSE Marked(r, Lines(pos + 1, e - 1), Most(f) + 1)

(* A region reaches to its first end marker, or to the end of the text.      *)
Region(r) ==
    LET e == EndOf(r, pos)
    IN  IF e = 0 THEN Element(r, Lines(pos + 1, LastLine), LastLine + 1)
        ELSE Marked(r, Lines(pos + 1, e - 1), e + 1)

(* What is to be skipped ends the text when its end marker is missing.       *)
Skip ==
    LET e == EndOf("skip", pos)
    IN  IF e = 0 THEN {} ELSE {Marked("skip", <<>>, e + 1)}

EndOfLine   == [Marked("skip", <<>>, pos + 1) EXCEPT !.mode = before]
BeginOfLine == [Marked("skip", <<>>, pos + 1) EXCEPT !.before = mode, !.mode = "line"]

(* The lines up to the next empty line are one paragraph, whatever they      *)
(* begin with.                                                               *)
Paragraph ==
    LET e == {j \in pos..LastLine : text[j].kind = "empty"}
        last == IF e = {} THEN LastLine ELSE Least(e) - 1
    IN  IF rest THEN Element("undefined", <<>>, pos)
        ELSE Element(IF last < pos THEN "undefined" ELSE "par", Lines(pos, last),
                     IF e = {} THEN last + 1 ELSE last + 2)

(* Empty lines are passed over, and the next line is taken whatever it is.   *)
(* The zero that ends the source looks like an empty line, too: when there   *)
(* is nothing else the first line behind it is taken, if there is one.  The  *)
(* empty lines that follow are passed over, as far as the zero.              *)
Line ==
    LET c == {j \in pos..Len(text) : text[j].kind # "empty"}
        l == Least(c)
        last == IF l > LastLine THEN Len(text) ELSE LastLine
        next == {j \in (l + 1)..last : text[j].kind # "empty"}
    IN  IF c = {} THEN {} ELSE {Element("undefined", <<l>>, IF next = {} THEN last + 1 ELSE Least(next))}

(* The next element is a line.                                               *)
TakesLine ==
    /\ ~AtEnd /\ mode \notin {"pre", "par"}
    /\ rest \/ (~IsBegin(text[pos], "skip") /\ ~IsEnd(text[pos], "line"))

(* The next element, if there is one.                                        *)
HasNext ==
    IF AtEnd THEN {}
    ELSE IF mode = "pre" THEN {Element("pre", Lines(pos, LastLine), LastLine + 1)}
    ELSE IF rest THEN IF mode = "par" THEN {Paragraph} ELSE Line
    ELSE LET l == text[pos] IN
         IF IsBegin(l, "skip") THEN Skip
         ELSE IF mode = "par" /\ \E r \in Regions : IsBegin(l, r) THEN {Region(l.region)}
         ELSE IF mode = "line" /\ IsEnd(l, "line") THEN {EndOfLine}
         ELSE IF mode = "par" /\ IsBegin(l, "line") THEN {BeginOfLine}
         ELSE IF mode = "par" THEN {Paragraph}
         ELSE Line

(* The first line of an element that is not empty; 0: there is none.         *)
First(e) ==
    LET c == {i \in DOMAIN e.lines : text[e.lines[i]].kind # "empty"}
    IN  IF c = {} THEN 0 ELSE e.lines[Least(c)]

(* Whether an element has a content, and whether this begins with "ORIGIN: ":*)
(* the line break after the begin of a script, and of a preformatted region  *)
(* without an end, belongs to the content.                                   *)
HasContent(e) ==
    \/ e.type = "script"
    \/ First(e) # 0 /\ (e.type \in {"pre", "csv"} \/ Len(e.lines) # 1 \/ ~text[e.lines[1]].bare)
IsOrigin(e) ==
    /\ First(e) # 0 /\ text[First(e)].kind = "origin"
    /\ e.type # "script" /\ (e.type = "pre" /\ mode = "par" => e.rest)
    /\ mode = "pre" => First(e) = e.lines[1]

(* The marks at the begin of an element tell its type and depth.             *)
Parsed(e) ==
    IF First(e) = 0 \/ e.type \in {"pre", "csv"} THEN e
    ELSE LET l == text[First(e)] IN
         IF l.kind \notin Contents THEN e
         ELSE [e EXCEPT
                 !.hidden = IF l.kind = "header" /\ l.percent THEN 1 ELSE l.hidden,
                 !.depth  = l.depth,
                 !.enum   = l.kind = "enum",
                 !.type   = CASE l.kind = "header" -> "header"
                              [] l.kind = "ruler" /\ Len(e.lines) = 1 -> "ruler"
                              [] l.kind \in {"item", "enum"} \/ (l.kind = "ruler" /\ Len(e.lines) # 1) -> "item"
                              [] OTHER -> e.type]

-----------------------------------------------------------------------------
(* The tree.                                                                 *)

Node(name, lines) == [name |-> name, lines |-> lines, kids |-> <<>>, enum |-> FALSE, hidden |-> 0]

(* The last child that is an element; 0: the node has only its text.         *)
LastKid(t, i) == IF t[i].kids = <<>> THEN 0 ELSE t[i].kids[Len(t[i].kids)]

Added(t, p, n) == Append([t EXCEPT ![p].kids = Append(@, Len(t) + 1)], n)

(* Tree t with k nodes of a name below p, each the child of the one before.  *)
Filled(t, p, k, name) ==
    LET f[j \in 0..k] ==
            IF j = 0 THEN t
            ELSE Added(f[j - 1], IF j = 1 THEN p ELSE Len(f[j - 1]), Node(name, <<>>))
    IN  f[k]

(* Mutant: the chain of first nodes.                                         *)
ChainOfFirst(t, i) ==
    LET c[j \in DOMAIN t] == IF t[j].kids = <<>> THEN <<j>> ELSE <<j>> \o c[t[j].kids[1]]
    IN  c[i]

(* The chain of last nodes from i down.                                      *)
Chain(t, i) ==
    LET c[j \in DOMAIN t] == IF LastKid(t, j) = 0 THEN <<j>> ELSE <<j>> \o c[LastKid(t, j)]
    IN  c[i]

(* Mutant: the search for the parent goes one section too deep.              *)
HeaderParentDeep(t, d) ==
    LET c == Chain(t, 1)
        deep == {k \in 1..(d + 1) : k <= Len(c) /\ \A j \in 2..k : t[c[j]].name = "section"}
        k == Most(deep)
        filled == Filled(t, c[k], IF k > d THEN 0 ELSE d - k, "section")
    IN  <<filled, IF k >= d THEN c[k] ELSE Len(filled)>>

(* The tree and the node a header of depth d is put into.                    *)
HeaderParent(t, d) ==
    LET c == Chain(t, 1)
        deep == {k \in 1..d : k <= Len(c) /\ \A j \in 2..k : t[c[j]].name = "section"}
        k == Most(deep)
        filled == Filled(t, c[k], d - k, "section")
    IN  <<filled, IF k = d THEN c[k] ELSE Len(filled)>>

(* The tree and the list an item of depth d is put into, below node p.       *)
ItemParent(t, p, d, enum) ==
    LET c == Chain(t, p)
        ListsTo(k) == Cardinality({j \in 1..k : t[c[j]].name = "list"})
        seen == {k \in 1..Len(c) : ListsTo(k - 1) < d}
        lists == {k \in seen : t[c[k]].name \in {"list", "p"}}
        node == IF lists = {} THEN p ELSE c[Most(lists)]
        missing == d - ListsTo(Most(seen))
        filled == Filled(t, node, missing, "list")
        list == IF missing = 0 THEN node ELSE Len(filled)
    IN  <<[filled EXCEPT ![list].enum = @ \/ enum], list>>

(* The nodes an element becomes: none, one, or a section with its heading.   *)
ToDOM(e) ==
    LET Named(name, lines) == [Node(name, lines) EXCEPT !.hidden = e.hidden]
    IN  IF mode = "pre" \/ e.type = "pre" THEN <<Named("pre", e.lines)>>
        ELSE IF e.type = "header" THEN
            IF HasContent(e) THEN <<Named("section", <<>>), Node("h", e.lines)>> ELSE <<Named("section", <<>>)>>
        ELSE IF e.type = "ruler" /\ e.hidden = 0 THEN <<Named("hr", e.lines)>>
        ELSE IF ~HasContent(e) THEN <<>>
        ELSE <<Named(IF e.type \in {"csv", "script"} THEN "import" ELSE "p", e.lines)>>

-----------------------------------------------------------------------------
Init ==
    /\ \E t \in Texts : text = t.lines /\ size = t.size
    /\ mode \in Modes /\ before = mode
    /\ pos = 1 /\ rest = FALSE /\ tree = <<Node("block", <<>>)>> /\ parent = 1
    /\ context = <<>> /\ replaced = {} /\ taken = 0 /\ over = FALSE /\ failed = FALSE

(* An element is taken, as long as there are not too many.                   *)
Advance(e) ==
    /\ taken < iMax /\ ~over
    /\ taken' = taken + 1
    /\ pos' = e.next /\ rest' = e.rest /\ mode' = e.mode /\ before' = e.before
    /\ UNCHANGED <<text, size, over, failed>>

Origin == \E e \in HasNext :
    /\ IsOrigin(e)
    /\ context' = e.lines
    /\ replaced' = replaced \cup {context[i] : i \in DOMAIN context}
    /\ Advance(e) /\ UNCHANGED <<tree, parent>>

Nothing == \E e \in HasNext :
    /\ ~IsOrigin(e) /\ ToDOM(Parsed(e)) = <<>>
    /\ Advance(e) /\ UNCHANGED <<tree, parent, context, replaced>>

Header == \E e \in HasNext :
    LET q == Parsed(e)
        at == HeaderParent(tree, q.depth)
        d == ToDOM(q)
        withSection == Added(at[1], at[2], d[1])
    IN  /\ ~IsOrigin(e) /\ mode # "pre" /\ q.type = "header"
        /\ parent' = Len(withSection)
        /\ tree' = IF Len(d) = 1 THEN withSection ELSE Added(withSection, Len(withSection), d[2])
        /\ Advance(e) /\ UNCHANGED <<context, replaced>>

Item == \E e \in HasNext :
    LET q == Parsed(e)
        at == ItemParent(tree, parent, q.depth, q.enum)
    IN  /\ ~IsOrigin(e) /\ mode # "pre" /\ q.type = "item" /\ ToDOM(q) # <<>>
        /\ tree' = Added(at[1], at[2], ToDOM(q)[1])
        /\ Advance(e) /\ UNCHANGED <<parent, context, replaced>>

Other == \E e \in HasNext :
    LET q == Parsed(e)
    IN  /\ ~IsOrigin(e) /\ (mode = "pre" \/ q.type \notin {"header", "item"}) /\ ToDOM(q) # <<>>
        /\ tree' = Added(tree, parent, ToDOM(q)[1])
        /\ Advance(e) /\ UNCHANGED <<parent, context, replaced>>

(* The loop ends at the limit, or when there is no next element.  A line     *)
(* that is not found, not in the memory either, is the end of the program.   *)
End ==
    /\ ~over /\ (taken >= iMax \/ HasNext = {})
    /\ over' = TRUE
    /\ failed' = (taken < iMax /\ TakesLine)
    /\ UNCHANGED <<text, size, pos, rest, mode, before, tree, parent, context, replaced, taken>>

Next == Origin \/ Nothing \/ Header \/ Item \/ Other \/ End
Spec == Init /\ [][Next]_vars

-----------------------------------------------------------------------------
(* Properties.                                                               *)

Parents(t, i) == {p \in DOMAIN t : \E k \in DOMAIN t[p].kids : t[p].kids[k] = i}
Ancestors(t, i) ==
    LET a[j \in DOMAIN t] == UNION {{p} \cup a[p] : p \in Parents(t, j)}
    IN  a[i]

(* The lines of the tree in document order: w[<<i, k>>] are those of node i  *)
(* and of its first k children.                                              *)
All(t, i) == <<i, Len(t[i].kids)>>
Written(t) ==
    LET w[x \in UNION {{i} \X (0..Len(t[i].kids)) : i \in DOMAIN t}] ==
            IF x[2] = 0 THEN t[x[1]].lines
            ELSE w[<<x[1], x[2] - 1>>] \o w[All(t, t[x[1]].kids[x[2]])]
    IN  w[All(t, 1)]

(* The tree has the lines of the text in the order of the text, none twice:  *)
(* GetParentElement() never leads to a place before an element already there.*)
OrderKept == LET w == Written(tree) IN \A i, j \in DOMAIN w : i < j => w[i] < w[j]

(* At the end every line of the text is in the tree or in the attribute      *)
(* "context", unless it is empty or has marks only, is the marker of a       *)
(* region, is skipped, belongs to an element that has set the origin before  *)
(* another one, or was not read when the limit of elements was reached.      *)
(* What is behind the text is read, and may get into the tree or end the     *)
(* program, only if there is nothing but empty lines from the begin of the   *)
(* text or from a marker on.                                                 *)
Skipped(j) ==
    \E b \in 1..(j - 1) : IsBegin(text[b], "skip") /\ \A i \in b..j : ~IsEnd(text[i], "skip")
InOrigin(j) == j \in replaced \/ \E i \in DOMAIN context : context[i] = j
EndsEmpty ==
    \E b \in 0..size :
        /\ b > 0 => text[b].kind \in {"begin", "end"}
        /\ \A i \in (b + 1)..size : text[i].kind = "empty"
NothingLost ==
    LET written == Written(tree)
        w == {written[i] : i \in DOMAIN written}
    IN  /\ over /\ ~failed =>
            \A j \in 1..size :
                \/ j \in w \/ text[j].kind \in {"empty", "begin", "end"} \/ text[j].bare
                \/ Skipped(j) \/ InOrigin(j)
                \/ taken = iMax /\ j >= pos
        /\ failed \/ (\E j \in w : j > size) => EndsEmpty

(* The result is a tree: every node but its root is the child of one node    *)
(* created before it.  A heading of n marks is in n sections and an item of n *)
(* marks in n lists, and everything is in the section of the last heading    *)
(* before it.                                                                *)
Count(i, name) == Cardinality({a \in Ancestors(tree, i) : tree[a].name = name})
Nested ==
    \A i \in 2..Len(tree) :
        LET sections == {s \in 1..(i - 1) : tree[s].name = "section"}
            above == {a \in Ancestors(tree, i) : tree[a].name = "section"}
            l == text[First(tree[i])]
        IN  /\ Cardinality(Parents(tree, i)) = 1 /\ Parents(tree, i) \subseteq 1..(i - 1)
            /\ tree[i].name = "h" => Count(i, "section") = l.depth
            /\ (tree[i].name = "p" /\ First(tree[i]) # 0 /\ l.kind \in {"item", "enum"}) => Count(i, "list") = l.depth
            /\ (tree[i].name \notin {"section", "h"} /\ sections # {}) => Most(sections) \in above
=============================================================================
