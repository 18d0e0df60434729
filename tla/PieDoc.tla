------------------------------- MODULE PieDoc -------------------------------
(* The markup of a structured document, recognised in its tree               *)
(* (option/pie/pie_text_blocks.c, pie_text_tags.c, pie_text.c).  A text is a  *)
(* sequence of tokens [k, v]; a kind k stands for what one of the regular    *)
(* expressions or prefixes of the code matches, v for its content:           *)
(*   word, script, subst, inline (**v**), arrow (=>), num (&#..;), high (++++), *)
(*   medium (++), cancel, ok, hidden (;), unc, auto (<v>), link ([v](u)),     *)
(*   anchor ([v](id:)), image (![v](u)), url, date, dates (v,w), task, fig,   *)
(*   tag (#v), entity (&#v;, which cannot be decoded).                        *)
EXTENDS Dom

Word(v) == [k |-> "word", v |-> v]
Kinds(text) == {text[i].k : i \in DOMAIN text}
FirstOf(text, kinds) ==
    LET at == {i \in DOMAIN text : text[i].k \in kinds}
    IN  IF at = {} THEN 0 ELSE CHOOSE i \in at : \A j \in at : i <= j

(* The names of elements whose texts are left alone.                         *)
Ignored == {"meta", "import", "include", "subst", "script", "pre", "code", "date", "link", "base64"}
Tags    == {"t", "tag", "htag"}
Hidden(n) == \/ HasProp(n, "hidden")
             \/ n.kids # <<>> /\ IsText(Last(n.kids)) /\ "cancel" \in Kinds(Last(n.kids).text)
Skipped(n) == ~Valid(n) \/ Hidden(n)

-----------------------------------------------------------------------------
(* Texts become lists of nodes: what precedes the first match, a node for    *)
(* the match, and what follows it, split in turn.  No match is no list.      *)

(* Nodes of a link: the title of an image is an attribute, and a link        *)
(* without target gets an id.                                                *)
LinkNode(t) ==
    CASE t.k = "image"  -> SetProp(SetProp(Elem("img", <<Elem("t", <<TextNode(<<Word("#img")>>)>>)>>), "title", t.v), "src", t.v)
      [] t.k = "anchor" -> SetProp(Elem("link", <<TextNode(<<Word(t.v)>>)>>), "id", t.v)
      [] OTHER          -> SetProp(Elem("link", <<TextNode(<<Word(t.v)>>)>>), "href", t.v)

(* Of a list of dates the first one and a comma are left.                    *)
DateNodes(t) == <<Elem("date", <<TextNode(<<Word(t.v)>>)>>)>> \o
                (IF t.k = "dates" THEN <<TextNode(<<Word(",")>>)>> ELSE <<>>)
InlineNode(t) == Elem("strong", <<TextNode(<<Word(t.v)>>)>>)
ScriptNode(t) == SetProp(Elem("import", <<TextNode(<<Word(t.v)>>)>>), "type", "script")
TagNode(t, name) == Elem(name, <<TextNode(<<Word(t.v)>>)>>)

Rest(text, i) == SubSeq(text, i + 1, Len(text))
TextIf(text)  == IF text = <<>> THEN <<>> ELSE <<TextNode(text)>>

NodesOf(t) ==
    CASE t.k \in {"auto", "link", "anchor", "image", "url"} -> <<LinkNode(t)>>
      [] t.k \in {"date", "dates"} -> DateNodes(t)
      [] t.k = "inline" -> <<InlineNode(t)>>
      [] t.k = "script" -> <<ScriptNode(t)>>

RECURSIVE SplitString(_, _)
SplitString(text, kinds) ==
    LET i == FirstOf(text, kinds)
    IN  IF i = 0 THEN <<>>
        ELSE LET rest == Rest(text, i)
                 post == SplitString(rest, kinds)
             IN  TextIf(SubSeq(text, 1, i - 1)) \o NodesOf(text[i])
                 \o (IF post # <<>> THEN post ELSE TextIf(rest))

(* What follows the last date is lost.                                       *)
RECURSIVE SplitDatesLast(_)
SplitDatesLast(text) ==
    LET i == FirstOf(text, {"date", "dates"})
    IN  IF i = 0 THEN <<>>
        ELSE <<TextNode(SubSeq(text, 1, i - 1))>> \o NodesOf(text[i]) \o SplitDatesLast(Rest(text, i))

(* A text with dates begins with a text, an empty one if need be.            *)
RECURSIVE SplitDates(_)
SplitDates(text) ==
    LET i == FirstOf(text, {"date", "dates"})
    IN  IF i = 0 THEN <<>>
        ELSE LET rest == Rest(text, i)
                 post == SplitDates(rest)
             IN  <<TextNode(SubSeq(text, 1, i - 1))>> \o NodesOf(text[i])
                 \o (IF post # <<>> THEN post ELSE TextIf(rest))

(* An entity ends the search for tags.                                       *)
RECURSIVE SplitTags(_, _, _)
SplitTags(text, words, name) ==
    LET hits == {i \in DOMAIN text : IF name = "htag" THEN text[i].k \in {"tag", "entity"} ELSE text[i].v \in words}
        i    == IF hits = {} THEN 0 ELSE CHOOSE h \in hits : \A j \in hits : h <= j
    IN  IF i = 0 \/ (i > 0 /\ name = "htag" /\ text[i].k = "entity") THEN <<>>
        ELSE LET rest == Rest(text, i)
                 post == SplitTags(rest, words, name)
             IN  TextIf(SubSeq(text, 1, i - 1)) \o <<TagNode(text[i], name)>>
                 \o (IF post # <<>> THEN post ELSE TextIf(rest))

SplitNodeListToTags(list, words) ==
    Joined([i \in DOMAIN list |->
        IF IsText(list[i]) THEN Replaced(list[i], SplitTags(list[i].text, words, "tag")) ELSE <<list[i]>>])

(* Hash tags first, then the words that are tags of the block.               *)
SplitToTags(text, words) ==
    LET hash == SplitTags(text, words, "htag")
    IN  IF text = <<>> \/ text[1].k = "subst" THEN <<>>
        ELSE IF words = {} THEN hash
        ELSE IF hash # <<>> THEN SplitNodeListToTags(hash, words)
        ELSE SplitTags(text, words, "tag")

-----------------------------------------------------------------------------
(* Passes over the tree.  A text that is replaced stays as an empty text.    *)

(* TranslateUncToUrl(): a name of a network file becomes a URL.              *)
TranslateUnc(text) == Joined([i \in DOMAIN text |-> <<IF text[i].k = "unc" THEN [text[i] EXCEPT !.k = "url"] ELSE text[i]>>])

(* The pass goes on with the new nodes, so that a text between two links of  *)
(* one kind is searched for those of the other kinds.                        *)
LinkList(text) ==
    LET auto == SplitString(text, {"auto"})
        md   == SplitString(text, {"link", "anchor", "image"})
    IN  IF auto # <<>> THEN auto ELSE IF md # <<>> THEN md ELSE SplitString(text, {"url"})

RECURSIVE Linked(_)
Linked(n) ==
    LET list == LinkList(TranslateUnc(n.text))
    IN  IF list = <<>> THEN <<n>>
        ELSE <<EmptyText>> \o Joined([i \in DOMAIN list |-> IF IsText(list[i]) THEN Linked(list[i]) ELSE <<list[i]>>])

RECURSIVE Urls(_)
Urls(n) ==
    IF n.name \in Ignored \/ Skipped(n) THEN n
    ELSE [n EXCEPT !.kids = Joined([i \in DOMAIN @ |-> IF IsText(@[i]) THEN Linked(@[i]) ELSE <<Urls(@[i])>>])]

RECURSIVE Scripts(_)
Scripts(n) ==
    IF n.name \in Ignored \/ Skipped(n) THEN n
    ELSE [n EXCEPT !.kids = Joined([i \in DOMAIN @ |->
             IF IsText(@[i]) THEN Replaced(@[i], SplitString(@[i].text, {"script"})) ELSE <<Scripts(@[i])>>])]

(* RecognizeInlines() replaces a text by the children of the first node of   *)
(* the list: nothing happens when the list begins with a text, and when it   *)
(* begins with the markup its content is all that is left of the text.       *)
Inlined(n) ==
    LET list == SplitString(n.text, {"inline"})
    IN  IF list = <<>> THEN <<n>> ELSE Replaced(n, list[1].kids)

RECURSIVE Inlines(_)
Inlines(n) ==
    IF n.name \in Ignored \cup Tags \cup {"img"} \/ Skipped(n) THEN n
    ELSE [n EXCEPT !.kids = Joined([i \in DOMAIN @ |-> IF IsText(@[i]) THEN Inlined(@[i]) ELSE <<Inlines(@[i])>>])]

RECURSIVE Dates(_)
Dates(n) ==
    IF n.name \in Ignored \cup Tags \cup {"img"} \/ Skipped(n) THEN n
    ELSE [n EXCEPT !.kids = Joined([i \in DOMAIN @ |->
             IF IsText(@[i]) THEN Replaced(@[i], SplitDates(@[i].text)) ELSE <<Dates(@[i])>>])]

(* A paragraph that is a substitution becomes an empty text and an element   *)
(* behind it, or a comment when it cannot be read.                           *)
SubstNode(n) ==
    LET t == n.kids[1].text
        i == FirstOf(t, {"subst"})
    IN  IF n.name # "p" \/ ~Valid(n) \/ Len(n.kids) # 1 \/ ~IsText(n.kids[1]) \/ i = 0 THEN <<>>
        ELSE IF t[i].v = "" THEN <<Comment(t)>> ELSE <<SetProp(Elem("subst", <<>>), "string", t[i].v)>>

RECURSIVE Substs(_)
Substs(n) ==
    IF ~Valid(n) \/ n.name \in {"import", "pre"} \/ Hidden(n) THEN <<n>>
    ELSE IF SubstNode(n) # <<>> THEN Replaced(n, SubstNode(n))
    ELSE IF n.name \in {"section", "block", "pie"}
    THEN <<[n EXCEPT !.kids = Joined([i \in DOMAIN @ |-> Substs(@[i])])]>>
    ELSE <<n>>

-----------------------------------------------------------------------------
(* Symbols: entities and arrows are decoded, and what a text begins or ends  *)
(* with is a property of its element; of the section, when it is a header.   *)

StringDecodeCharMarkup(text) ==
    Joined([i \in DOMAIN text |-> <<IF text[i].k = "arrow" THEN Word("⇒") ELSE text[i]>>])
DecodeNumericChars(text) == Joined([i \in DOMAIN text |-> <<IF text[i].k = "num" THEN Word(text[i].v) ELSE text[i]>>])
Decoded(n) == [n EXCEPT !.text = StringDecodeCharMarkup(DecodeNumericChars(@))]

Inheriting == {"pie", "block", "section", "task", "target", "list"}
RECURSIVE SetPropInherit(_, _, _)
SetPropInherit(n, key, value) ==
    LET m == IF n.name \in {"p", "task", "target", "section"} THEN SetProp(n, key, value) ELSE n
    IN  IF n.name \in Inheriting
        THEN [m EXCEPT !.kids = Joined([i \in DOMAIN @ |-> <<SetPropInherit(@[i], key, value)>>])] ELSE m

(* What a text begins or ends with.                                          *)
Impact(text) ==
    IF text # <<>> /\ Last(text).k = "high" THEN "1" ELSE IF text # <<>> /\ Last(text).k = "medium" THEN "2" ELSE ""
IsHiding(n, text) == n.name \notin {"th", "td"} /\ text # <<>> /\ text[1].k = "hidden"

Marked(n, text) ==
    LET impact == IF Impact(text) = "" THEN n ELSE SetProp(n, "impact", Impact(text))
    IN  IF "cancel" \in Kinds(text) THEN SetProp(impact, "valid", "no")
        ELSE IF "ok" \in Kinds(text) THEN SetProp(impact, "done", "yes") ELSE impact
MarkedParent(n, text) ==
    LET impact == IF Impact(text) = "" THEN n ELSE SetPropInherit(SetProp(n, "impact", Impact(text)), "impact", Impact(text))
    IN  IF "cancel" \in Kinds(text) THEN SetProp(impact, "valid", "no")
        ELSE IF "ok" \in Kinds(text) THEN SetPropInherit(impact, "done", "yes") ELSE impact

RECURSIVE MarkedBy(_, _), ParentMarkedBy(_, _)
MarkedBy(n, texts) == IF texts = <<>> THEN n ELSE MarkedBy(Marked(n, Head(texts).text), Tail(texts))
ParentMarkedBy(n, texts) == IF texts = <<>> THEN n ELSE ParentMarkedBy(MarkedParent(n, Head(texts).text), Tail(texts))

Texts(n) == SelectSeq(n.kids, IsText)
HeaderTexts(n) == Joined([i \in DOMAIN n.kids |-> IF n.kids[i].name = "h" /\ Valid(n.kids[i]) THEN Texts(n.kids[i]) ELSE <<>>])

RECURSIVE Symbols(_)
Symbols(n) ==
    IF ~Valid(n) \/ n.name \in {"meta", "pre", "code", "import"} THEN n
    ELSE LET lifted == ParentMarkedBy(n, HeaderTexts(n))
             own    == IF n.name = "h" THEN lifted ELSE MarkedBy(lifted, Texts(n))
             hiding == \E i \in DOMAIN n.kids : IsText(n.kids[i]) /\ IsHiding(n, n.kids[i].text)
         IN  [(IF hiding THEN SetProp(own, "hidden", "1") ELSE own) EXCEPT
                 !.kids = Joined([i \in DOMAIN @ |-> <<IF IsText(@[i]) THEN Decoded(@[i]) ELSE Symbols(@[i])>>])]

-----------------------------------------------------------------------------
(* Figures and tasks: a paragraph becomes the header of an element of its    *)
(* own, which gets its lists and properties.                                 *)

TTag(v) == Elem("t", <<TextNode(<<Word(v)>>)>>)

(* "FIG file title", or a single image with a title.                         *)
Figure(n, parent) ==
    LET i == FirstChild(n, "img")
        f == FirstChildText(n)
        t == n.kids[f].text
    IN  IF n.name # "p" \/ ~Valid(n) THEN <<>>
        ELSE IF parent # "list" /\ i > 0 /\ IsSingleElementChild(n.kids, i)
        THEN IF HasProp(n.kids[i], "title")
             THEN <<[n EXCEPT !.name = "fig",
                              !.kids = @ \o <<Elem("h", <<TextNode(<<Word(PropValue(n.kids[i], "title"))>>)>>), TTag("#fig")>>]>>
             ELSE <<>>
        ELSE IF f = 0 \/ (f > 0 /\ t[1].k # "fig") THEN <<>>
        ELSE LET title  == IF Len(t) > 1 THEN Tail(t) ELSE <<Word(t[1].v)>>
                 image  == SetProp(Elem("img", IF Len(t) > 1 THEN <<>> ELSE <<TTag("#img")>>), "src", t[1].v)
                 header == [n EXCEPT !.name = "h", !.kids[f].text = title]
             IN  <<Elem("fig", <<image, header, TTag("#fig")>>)>>

RECURSIVE Figures(_, _)
Figures(n, parent) ==
    IF Skipped(n) \/ n.name \in {"meta", "pre", "code", "import"} THEN n
    ELSE LET m == IF Figure(n, parent) = <<>> THEN n ELSE Figure(n, parent)[1]
         IN  [m EXCEPT !.kids = Joined([i \in DOMAIN @ |-> <<Figures(@[i], m.name)>>])]

(* The state of a task: "DONE" is a todo that is done.                       *)
TaskState(class, n, last) ==
    IF class = "done" \/ PropFlag(n, "done", FALSE) \/ (class = "todo" /\ "ok" \in Kinds(last)) THEN "done"
    ELSE IF "cancel" \in Kinds(last) THEN "rejected" ELSE ""

Task(n) ==
    LET f == FirstChildText(n)
        t == n.kids[f].text
        last == IF IsText(Last(n.kids)) THEN Last(n.kids).text ELSE <<>>
        class == t[1].v
        state == TaskState(class, n, last)
        IsList(c) == c.name = "list"
        IsOther(c) == ~IsList(c)
        header == [Elem("h", SelectSeq([n.kids EXCEPT ![f].text = Tail(t)], IsOther)) EXCEPT !.w = n.w]
        task == SetProp([Elem("task", <<>>) EXCEPT !.attr = n.attr], "class", IF state = "done" THEN "todo" ELSE class)
    IN  IF n.name # "p" \/ ~Valid(n) \/ f = 0 THEN <<>>
        ELSE IF t[1].k # "task" \/ (Len(t) = 1 /\ f = Len(n.kids)) THEN <<>>
        ELSE <<[(IF state = "" THEN task ELSE SetProp(task, "state", state)) EXCEPT
                  !.kids = <<header>> \o SelectSeq(n.kids, IsList) \o <<TTag("#" \o class)>>
                           \o (IF state = "" THEN <<>> ELSE <<TTag("#" \o state)>>) \o <<TTag("#task")>>]>>

RECURSIVE Tasks(_)
Tasks(n) ==
    IF Skipped(n) \/ n.name \in {"meta", "pre", "code", "import"} THEN n
    ELSE LET m == IF Task(n) = <<>> THEN n ELSE Task(n)[1]
         IN  [m EXCEPT !.kids = Joined([i \in DOMAIN @ |-> <<Tasks(@[i])>>])]

-----------------------------------------------------------------------------
(* Tags.  A t is a tag of the element it is in; an element counts a tag that *)
(* it gets again.                                                            *)

AddTag(n, content) ==
    LET at == {i \in DOMAIN n.kids : n.kids[i].name = "t" /\ ContentPtr(n.kids[i]) = content}
    IN  IF content = <<>> THEN n
        ELSE IF at = {} THEN [n EXCEPT !.kids = Append(@, Elem("t", <<TextNode(content)>>))]
        ELSE [n EXCEPT !.kids[CHOOSE i \in at : \A j \in at : i <= j] = IncrCount(@, 1)]
RECURSIVE AddTags(_, _)
AddTags(n, contents) == IF contents = <<>> THEN n ELSE AddTags(AddTag(n, Head(contents)), Tail(contents))

(* The words of a block that are tags: those of its instructions, or those   *)
(* of the block around it when it has none.                                  *)
BlockTagWords(n, words) ==
    LET own == UNION {{n.kids[i].text[k].v : k \in DOMAIN n.kids[i].text} : i \in {j \in DOMAIN n.kids : n.kids[j].name = "#pi"}}
    IN  IF own = {} THEN words ELSE own

RECURSIVE HashTags(_, _)
HashTags(n, words) ==
    IF Skipped(n) THEN n
    ELSE IF n.name \in {"pie", "block"}
    THEN [n EXCEPT !.kids = Joined([i \in DOMAIN @ |-> <<HashTags(@[i], BlockTagWords(n, words))>>])]
    ELSE IF n.name \in Ignored \cup Tags THEN n
    ELSE [n EXCEPT !.kids = Joined([i \in DOMAIN @ |->
             IF IsText(@[i]) THEN Replaced(@[i], SplitToTags(@[i].text, words)) ELSE <<HashTags(@[i], words)>>])]

(* The contents of the tags that are children of a node.                     *)
TagsIn(n) == LET IsTag(c) == c.name \in {"htag", "tag"} /\ c.kids # <<>>
                 tags == SelectSeq(n.kids, IsTag)
             IN  [i \in DOMAIN tags |-> tags[i].kids[1].text]

(* The tags in the links of a header are tags of its section, its other tags *)
(* are tags of everything that is a child of the section.                    *)
RECURSIVE HeaderTags(_, _)
HeaderTags(section, kids) ==
    LET ForAll(n, content) == [n EXCEPT !.kids = Joined([i \in DOMAIN @ |->
            <<IF IsElement(@[i]) /\ @[i].name \notin {"pre", "code"} THEN AddTag(@[i], content) ELSE @[i]>>])]
        Step(n, c) == IF c.name = "link" THEN AddTags(n, TagsIn(c))
                      ELSE IF c.name \in {"htag", "tag"} /\ c.kids # <<>> THEN ForAll(n, c.kids[1].text) ELSE n
    IN  IF kids = <<>> THEN section ELSE HeaderTags(Step(section, Head(kids)), Tail(kids))

RECURSIVE Inherit(_), InheritFrom(_, _)
Inherit(n) == IF n.name \in Ignored \cup Tags \/ ~IsElement(n) THEN n ELSE InheritFrom(n, 1)
InheritFrom(n, i) ==
    IF i > Len(n.kids) THEN n
    ELSE LET c == n.kids[i]
             m == CASE IsText(c)                                 -> n
                    [] c.name = "h" /\ n.name = "section"        -> HeaderTags(n, c.kids)
                    [] c.name \in {"link", "th", "td"} \/ (c.name = "h" /\ n.name # "section") -> AddTags(n, TagsIn(c))
                    [] c.name = "p" /\ n.name = "list"           -> [AddTags(n, TagsIn(c)) EXCEPT !.kids[i] = Inherit(c)]
                    [] c.name = "p" /\ n.name # "list"           -> [n EXCEPT !.kids[i] = Inherit(AddTags(c, TagsIn(c)))]
                    [] OTHER                                     -> [n EXCEPT !.kids[i] = Inherit(c)]
         IN  InheritFrom(m, i + 1)

(* Copies of all tags of the document, in its order.                         *)
RECURSIVE GlobalTags(_)
GlobalTags(n) ==
    IF n.name \in {"meta", "pre", "code"} \/ Skipped(n) THEN <<>>
    ELSE Joined([i \in DOMAIN n.kids |->
             IF n.kids[i].name = "t" /\ ContentPtr(n.kids[i]) # <<>> THEN <<n.kids[i]>> ELSE GlobalTags(n.kids[i])])

(* Equal tags are merged into the first one; a tag without count is one.     *)
TagCount(t) == IF t.count > 0 THEN t.count ELSE 1
RECURSIVE CleanListTagUncounted(_), CleanListTag(_)
CleanListTagUncounted(tags) ==
    IF tags = <<>> THEN <<>>
    ELSE LET Other(t) == ContentPtr(t) # ContentPtr(Head(tags))
         IN  <<Head(tags)>> \o CleanListTagUncounted(SelectSeq(Tail(tags), Other))
CleanListTag(tags) ==
    IF tags = <<>> THEN <<>>
    ELSE LET Same(t)  == ContentPtr(t) = ContentPtr(Head(tags))
             Other(t) == ~Same(t)
         IN  <<FoldLeft(LAMBDA t, u : IncrCount(t, TagCount(u)), Head(tags), SelectSeq(Tail(tags), Same))>>
             \o CleanListTag(SelectSeq(Tail(tags), Other))

(* The list replaces the one that the meta element has.                      *)
ProcessTags(root) ==
    LET tagged == Inherit(HashTags(root, {}))
        m      == FirstChild(tagged, "meta")
        list   == Elem("t", CleanListTag(GlobalTags(tagged)))
        meta   == IF m = 0 THEN Elem("meta", <<>>) ELSE tagged.kids[m]
        old    == FirstChild(meta, "t")
        newer  == [meta EXCEPT !.kids = Append(IF old = 0 THEN @ ELSE RemoveAt(@, old), list)]
    IN  IF m = 0 THEN [tagged EXCEPT !.kids = Append(@, newer)] ELSE [tagged EXCEPT !.kids[m] = newer]

-----------------------------------------------------------------------------
(* Filters.  What matches is weighted with its ancestors, a header with its  *)
(* whole section, and the rest is removed.                                   *)

(* A regular expression has words in their order, a list of words any order. *)
Values(text) == [i \in DOMAIN text |-> text[i].v]
RECURSIVE FuzzyMatch(_, _)
FuzzyMatch(text, words) ==
    IF words = <<>> THEN TRUE
    ELSE LET at == {i \in DOMAIN text : text[i].v = Head(words)}
         IN  at # {} /\ FuzzyMatch(Rest(text, CHOOSE i \in at : \A j \in at : i <= j), Tail(words))
LookaheadMatch(text, words) == ToSet(words) \subseteq ToSet(Values(text))
Matches(text, filter) ==
    text # <<>> /\ IF filter.kind = "regexp" THEN FuzzyMatch(text, filter.words) ELSE LookaheadMatch(text, filter.words)

RECURSIVE RegExpHits(_, _, _)
RegExpHits(n, p, filter) ==
    IF Skipped(n) THEN {}
    ELSE IF n.name \in {"h", "p", "list", "fig", "tr", "img", "blockquote", "pre"}
    THEN (IF Matches(ListGetString(n), filter) THEN {p} ELSE {})
    ELSE UNION {RegExpHits(n.kids[i], Append(p, i), filter) : i \in DOMAIN n.kids}

(* The places that get a weight; it never grows, whatever the code counts.   *)
Weighted(t, hits) ==
    {p \in Positions(t) : IsElement(At(t, p)) /\ \E h \in hits :
        \/ IsPrefix(p, h)
        \/ At(t, h).name = "h" /\ IsPrefix(Front(h), p)}

RECURSIVE Weigh(_, _, _)
Weigh(n, p, places) ==
    [n EXCEPT !.w = @ \/ p \in places, !.kids = Joined([i \in DOMAIN @ |-> <<Weigh(@[i], Append(p, i), places)>>])]

RECURSIVE CleanUp(_, _)
CleanUp(n, parentWeighted) ==
    LET cleaned == [n EXCEPT !.kids = Joined([i \in DOMAIN @ |-> CleanUp(@[i], n.w)])]
        whole   == \/ n.name \in {"section", "list", "table", "fig"} /\ \A i \in DOMAIN n.kids : ~n.kids[i].w
                   \/ n.name \in {"h", "p", "task", "th", "tr"}
    IN  IF ~IsElement(n) \/ n.name \in {"meta", "t"} THEN <<n>>
        ELSE IF n.w THEN (IF whole THEN <<n>> ELSE <<cleaned>>)
        ELSE IF n.name = "h" /\ parentWeighted THEN <<n>> ELSE <<>>

(* When nothing matches the root is removed as well, and used afterwards.    *)
Filtered(root, filter) ==
    IF filter.words = <<>> THEN <<root>>
    ELSE CleanUp(Weigh(root, <<>>, Weighted(root, RegExpHits(root, <<>>, filter))), FALSE)

RECURSIVE RemoveInvalids(_)
RemoveInvalids(n) ==
    IF ~IsElement(n) THEN <<n>>
    ELSE IF PropValue(n, "state") = "rejected" \/ Skipped(n) THEN <<>>
    ELSE <<[n EXCEPT !.kids = Joined([i \in DOMAIN @ |-> RemoveInvalids(@[i])])]>>

-----------------------------------------------------------------------------
(* The places of elements: the path of a node in the document it was read    *)
(* from, a new one in a block that names its document; and the structure     *)
(* above a date, as the calendar shows it.                                   *)

RECURSIVE XpathPerBlock(_, _)
XpathPerBlock(n, prefix) ==
    LET element == {i \in DOMAIN n.kids : IsElement(n.kids[i])}
        done    == n.name = "block" /\ HasProp(n, "context") /\ element # {}
                   /\ n.kids[CHOOSE i \in element : \A j \in element : i <= j].xpath # <<>>
        here    == IF n.name = "block" /\ HasProp(n, "context") THEN <<0>> ELSE prefix
        Placed(c, path) == LET m == [c EXCEPT !.xpath = path]
                           IN  IF c.name \in {"p", "h", "table"} THEN m ELSE XpathPerBlock(m, path)
    IN  IF n.name \in {"meta", "error"} \/ ~IsElement(n) \/ done THEN n
        ELSE [n EXCEPT !.xpath = IF prefix = <<>> THEN here ELSE @,
                       !.kids = Joined([i \in DOMAIN @ |->
                           <<IF ~IsElement(@[i]) \/ @[i].name \in Tags \cup {"hr", "meta", "error"} THEN @[i]
                             ELSE Placed(@[i], Append(here, ElementIndex(@, i)))>>])]

WithHeader(n, kids) ==
    LET h == FirstChild(n, "h")
    IN  [CopyPropList(Elem(n.name, <<>>), n) EXCEPT !.kids = (IF h = 0 THEN <<>> ELSE <<n.kids[h]>>) \o kids]

SelfAncestors(t, p) ==
    LET date == At(t, p)
        a    == At(t, Front(p))
        aa   == At(t, Front(Front(p)))
        aaa  == At(t, Front(Front(Front(p))))
        Copy(kids) == CopyPropList(Elem(aa.name, kids), aa)
        list == IF Len(p) > 2 /\ aaa.name = "section" THEN <<WithHeader(aaa, <<Copy(<<a>>)>>)>> ELSE <<Copy(<<a>>)>>
    IN  IF date.name = "tr"
        THEN <<Elem("block", Joined([i \in DOMAIN date.kids |->
                   IF date.kids[i].name \notin {"td", "th"} THEN <<date.kids[i]>>
                   ELSE IF date.kids[i].kids = <<>> THEN <<>> ELSE <<[date.kids[i] EXCEPT !.name = "p"]>>]))>>
        ELSE IF date.name # "date" \/ p = <<>> \/ Len(a.kids) = 1 THEN <<>>
        ELSE IF Len(p) > 1 /\ a.name = "p" /\ aa.name = "list" THEN <<Elem("block", list)>>
        ELSE IF Len(p) > 1 /\ a.name = "p" /\ aa.name \in {"section", "task"} THEN <<Elem("block", <<WithHeader(aa, <<a>>)>>)>>
        ELSE IF Len(p) > 1 /\ a.name = "h" /\ aa.name \in {"section", "task"} THEN <<Elem("block", list)>>
        ELSE <<Elem("block", <<a>>)>>

-----------------------------------------------------------------------------
(* pieProcessPieNode(): the passes in their order.                           *)

ProcessImportOptions(n)    == Dates(Urls(Symbols(Inlines(Substs(n)[1]))))
ProcessPieNodeOptions(n)   == Tasks(Figures(n, ""))
ProcessPieNode(block, filter) ==  \* no document, or one
    LET imported == Substs(Scripts(block))[1]
        root     == ProcessPieNodeOptions(ProcessImportOptions(Elem("pie", <<imported>>)))
        tagged   == ProcessTags([root EXCEPT !.kids = Append(@, Elem("meta", <<>>))])
        filtered == Filtered(tagged, filter)
    IN  IF filtered = <<>> THEN <<>> ELSE RemoveInvalids(filtered[1])

-----------------------------------------------------------------------------
(* Properties.                                                               *)

(* What is said in a text, without the marks; of dates the first is left.    *)
Marks == {"high", "medium", "cancel", "ok", "hidden", "task", "subst", "entity"}
Said(text) == Joined([i \in DOMAIN text |-> IF text[i].k \in Marks THEN <<>> ELSE IF text[i].k = "dates" THEN <<text[i].v, ",">> ELSE <<text[i].v>>])
Once(q) == LET fresh == {i \in DOMAIN q : i = 1 \/ (i > 1 /\ q[i - 1] # q[i])}
           IN  Joined([i \in DOMAIN q |-> IF i \in fresh THEN <<q[i]>> ELSE <<>>])

(* A text is hidden when it, or a part of it behind a split, begins so; the  *)
(* header of a figure does not hide the figure.                              *)
IsCancelled(text) == "cancel" \in Kinds(text)
Follows(text, i, name, splits) ==
    \/ text[i].k \in splits \ {"task", "fig"}
    \/ text[i].k \in splits \cap {"task"} /\ i = 1 /\ name = "p"
Hides(text, name, splits) == \E i \in DOMAIN text : text[i].k = "hidden" /\ (i > 1 => Follows(text, i - 1, name, splits))
HidesTitle(n, splits) ==
    n.name = "p" /\ n.kids # <<>> /\ LET text == n.kids[1].text
                                    IN  "fig" \in splits /\ text # <<>> /\ text[1].k = "fig" /\ Hides(Tail(text), "h", splits)

(* A paragraph with a substitution is nothing else.                          *)
IsSubst(n, splits) ==
    n.name = "p" /\ LET text == n.kids[1].text
                    IN  "subst" \in Kinds(text) /\ "script" \notin Kinds(text) /\ text[1].k \notin splits \cap {"task", "fig"}

(* Where an inline markup begins a text, or a part of it behind a split, the *)
(* rest of that part is lost, unless the text ends with a cancelled part.    *)
RECURSIVE Cut(_, _, _)
Cut(text, name, splits) ==
    LET Ends(i) == Follows(text, i, name, splits) \/ (i = 1 /\ name = "p" /\ text[1].k = "fig" /\ "fig" \in splits)
        ends == {i \in DOMAIN text : Ends(i)}
        i    == CHOOSE e \in ends : \A j \in ends : e <= j
        part == IF ends = {} THEN text ELSE SubSeq(text, 1, i - 1)
        kept == IF part # <<>> /\ part[1].k = "inline" THEN <<Word(part[1].v)>> ELSE part
    IN  IF ends = {} THEN kept ELSE kept \o <<text[i]>> \o Cut(Rest(text, i), "", splits)
LastPart(text, name, splits) ==
    LET ends == {i \in DOMAIN text : Follows(text, i, name, splits)}
    IN  IF ends = {} THEN text ELSE Rest(text, CHOOSE e \in ends : \A j \in ends : j <= e)

RECURSIVE CutShort(_, _)
CutShort(n, splits) ==
    IF n.name \in Ignored THEN n
    ELSE [n EXCEPT !.kids = Joined([i \in DOMAIN @ |-> <<
             IF ~IsText(@[i]) THEN (IF n.name # "list" /\ IsSubst(@[i], splits) THEN @[i] ELSE CutShort(@[i], splits))
             ELSE IF IsCancelled(LastPart(@[i].text, n.name, splits)) THEN @[i]
             ELSE [@[i] EXCEPT !.text = Cut(@, n.name, splits)]>>])]

RECURSIVE Told(_, _)
Told(n, splits) ==
    LET texts   == {n.kids[i].text : i \in {j \in DOMAIN n.kids : IsText(n.kids[j])}}
        headers == {n.kids[i] : i \in {j \in DOMAIN n.kids : n.kids[j].name = "h"}}
    IN  IF IsText(n) THEN Said(n.text)
        ELSE IF \/ ~Valid(n) \/ n.name = "meta"
                \/ \E t \in texts : IsCancelled(t) \/ (n.name # "pre" /\ Hides(t, n.name, splits) /\ ~HidesTitle(n, splits))
                \/ \E h \in headers : \E j \in DOMAIN h.kids : IsCancelled(h.kids[j].text)
        THEN <<>>
        ELSE IF HidesTitle(n, splits) THEN <<n.kids[1].text[1].v>>
        ELSE Joined([i \in DOMAIN n.kids |-> IF n.name # "list" /\ IsSubst(n.kids[i], splits) THEN <<>> ELSE Told(n.kids[i], splits)])

RECURSIVE Shown(_)
Shown(n) ==
    IF IsText(n) THEN Said(n.text)
    ELSE IF ~IsElement(n) \/ n.name \in {"meta", "t"} THEN <<>>
    ELSE (IF HasProp(n, "src") THEN <<PropValue(n, "src")>> ELSE <<>>) \o Joined([i \in DOMAIN n.kids |-> Shown(n.kids[i])])

NoFilter == [kind |-> "words", words |-> <<>>]

(* An imported text is processed twice, with its tasks first.                *)
Imported(block) == ProcessImportOptions(Scripts(ProcessPieNodeOptions(block)))
Splits == {"script", "auto", "link", "anchor", "image", "url", "unc", "date", "dates", "task", "fig"}

(* The passes lose, repeat and reorder nothing of what a text says but what  *)
(* its marks take out: a hidden or cancelled part, a substitution; and what  *)
(* RecognizeInlines() takes: all that is behind an inline markup that begins *)
(* a text (pie_text_blocks.c:2120-2127).  An imported text is processed      *)
(* twice, and so loses in its second pass what is hidden or marked inline    *)
(* behind a link, a date or a task.                                          *)
TextKept(block) ==
    LET first  == CutShort(block, {"script", "task", "fig"})
    IN  /\ Once(Shown(ProcessPieNode(block, NoFilter)[1])) = Once(Told(CutShort(block, {"script"}), {"script"}))
        /\ Once(Shown(ProcessPieNode(Imported(block), NoFilter)[1])) = Once(Told(CutShort(first, Splits), Splits))

RECURSIVE Settled(_)
Settled(n) == [n EXCEPT !.kids = Joined([i \in DOMAIN @ |-> IF IsText(@[i]) /\ @[i].text = <<>> THEN <<>> ELSE <<Settled(@[i])>>])]
(* The second pass may still split what the first one made; a third pass     *)
(* changes nothing.                                                          *)
PassesIdle(block) ==
    LET once  == Imported(block)
        twice == Imported(once)
    IN  Settled(Imported(twice)) = Settled(twice)

(* The list of tags has every tag of the document once, with its number.     *)
TagsListed(block) ==
    LET root == ProcessPieNode(block, NoFilter)[1]
        list == root.kids[FirstChild(root, "meta")].kids[1].kids
        all  == GlobalTags(root)
        Total(c) == Len(Joined([i \in DOMAIN all |-> IF ContentPtr(all[i]) = c THEN [k \in 1..TagCount(all[i]) |-> c] ELSE <<>>]))
    IN  /\ \A i, j \in DOMAIN list : i # j => ContentPtr(list[i]) # ContentPtr(list[j])
        /\ \A i \in DOMAIN list : TagCount(list[i]) = Total(ContentPtr(list[i]))
        /\ \A i \in DOMAIN all : \E j \in DOMAIN list : ContentPtr(list[j]) = ContentPtr(all[i])

RECURSIVE Blocks(_)
Blocks(n) ==
    IF ~IsElement(n) \/ n.name = "meta" THEN <<>>
    ELSE (IF n.name \in {"h", "p", "pre"} THEN <<n>> ELSE <<>>) \o Joined([i \in DOMAIN n.kids |-> Blocks(n.kids[i])])
(* A filter keeps every paragraph and header that matches it.                *)
FilterKeeps(block, filter) ==
    LET all  == Blocks(ProcessPieNode(block, NoFilter)[1])
        some == ProcessPieNode(block, filter)
    IN  \A i \in DOMAIN all : Matches(ListGetString(all[i]), filter) =>
            some # <<>> /\ \E j \in DOMAIN Blocks(some[1]) : Blocks(some[1])[j].kids = all[i].kids

(* No two elements have one path, in a document or in a block; and a date    *)
(* is shown with the paragraph it is in, below the header of its section.    *)
Unique(root) == \A p, q \in Positions(root) : At(root, p).xpath = At(root, q).xpath /\ At(root, p).xpath # <<>> => p = q
PlacesFound(block) ==
    LET root == ProcessPieNode(block, NoFilter)[1]
        Dated == {p \in Positions(root) : At(root, p).name = "date"}
    IN  /\ Unique(SetXpath(root, <<>>))
        /\ Unique(XpathPerBlock(SetProp(root.kids[1], "context", "doc"), <<>>))
        /\ \A p \in Dated :
               LET list == SelfAncestors(root, p)
                   h    == FirstChild(At(root, Front(Front(p))), "h")
               IN  list # <<>> => /\ \E q \in Positions(list[1]) : At(list[1], q) = At(root, Front(p))
                                  /\ h > 0 => \E q \in Positions(list[1]) : At(list[1], q) = At(root, Front(Front(p))).kids[h]

(* Trees are searched and pruned completely.                                 *)
TreesPruned(block) ==
    LET root == ProcessPieNode(block, NoFilter)[1]
    IN  /\ NodesAreEqual(root, root)
        /\ NumberOf(FreeByName(root, "t"), "t") = 0
        /\ Shown(FreeByName(root, "t")) = Shown(root)
        /\ \A r \in {ValidateTree(Symbols(block))} : \A i \in DOMAIN r : \A p \in Positions(r[i]) : IsElement(At(r[i], p)) => Valid(At(r[i], p))
        /\ \A p \in Positions(root) : p # <<>> /\ IsElement(At(root, p)) =>
               (HasAncestor(root, p, "section") <=> \E q \in Positions(root) : At(root, q).name = "section" /\ IsDescendant(root, q, p))

(* Changes of a tree move and add what they are told to, and an attribute is *)
(* inherited from the nearest element around that has it.                    *)
TreesEdited(block) ==
    LET root == ProcessPieNode(block, NoFilter)[1]
        part == root.kids[Len(root.kids)]
        once == AddNodeToError(root, part)
        twice == AddNodeToError(once, Elem("e", <<>>))
        meta(t) == t.kids[FirstChild(t, "meta")]
    IN  /\ ListGetString(TransferDescendants(part, root)) = ListGetString(part) \o ListGetString(root)
        /\ \A i \in DOMAIN root.kids :
              ListGetString(DocFromNode(AddNextSibling(root.kids, i, <<part>>)))
                = Joined([k \in 1..Len(root.kids) |-> ListGetString(root.kids[k]) \o (IF k = i THEN ListGetString(part) ELSE <<>>)])
        /\ NodesAreEqual(TransformToNode(root, part), part) /\ MimeTypeOf(root) = "pie" /\ ~IsHtml(root)
        /\ NumberOfChild(twice, "meta") = 1 /\ NumberOfChild(meta(twice), "error") = 1
        /\ meta(twice).kids[FirstChild(meta(twice), "error")].kids = <<part, Elem("e", <<>>)>>
        /\ \A p \in Positions(root) : (p # <<>> /\ IsElement(At(root, p))) =>
              LET up == Front(p)
                  inherited == AncestorPropValue(root, p, "class")
              IN  /\ inherited = IF PropValue(At(root, up), "class") # "" THEN PropValue(At(root, up), "class") ELSE AncestorPropValue(root, up, "class")
                  /\ AncestorsPropFlag(root, p, "valid", TRUE)
                       = IF HasProp(At(root, p), "valid") THEN PropFlag(At(root, p), "valid", TRUE) ELSE AncestorsPropFlag(root, up, "valid", TRUE)
                  /\ TreesOverlap(root, up, p) /\ TreesOverlap(root, p, up)

(* A processed document is complete: passes, tags, filters and places.       *)
DocumentSettled(block, filters) ==
    /\ PassesIdle(block)
    /\ TagsListed(block)
    /\ \A f \in filters : FilterKeeps(block, f)
    /\ PlacesFound(block)
    /\ TreesPruned(block)
    /\ TreesEdited(block)
=============================================================================
