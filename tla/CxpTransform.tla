----------------------------- MODULE CxpTransform -----------------------------
(* How the instructions of a document are expanded and applied: include, subst *)
(* and each (cxp_subst.c), the sources of plain and xml elements and the chain *)
(* of transformations behind them (cxp.c).                                    *)
(*                                                                            *)
(* A node is a record: its name, its text, its attributes, a sequence of keys *)
(* and texts in their order, its children, and in "is" the flags of its       *)
(* attributes: "invalid" for @valid="no", "noeval" and "eval" for @eval.      *)
(* Texts are sequences of codes. ctx is what the context knows:               *)
(*   value  texts by source ("cgi", "argv", "env", ...) and name              *)
(*   doc    documents by element and @name: files, caches and what the other  *)
(*          components make of their elements                                 *)
(* A stylesheet is a document named "stylesheet" with an attribute "method".  *)
EXTENDS CxpStrings

Node(name, attr, kids) == [name |-> name, text |-> <<>>, attr |-> attr, kids |-> kids, is |-> {}]
Text(t) == [Node("#text", <<>>, <<>>) EXCEPT !.text = t]

\* No text, no document, and a document without a root
None == <<-1>>
NoDoc == Node("#none", <<>>, <<>>)
Empty == Node("#empty", <<>>, <<>>)

IsText(n) == n.name = "#text"
IsElement(n) == n.name \notin {"#text", "#comment", "#pi", "#none", "#empty"}
IsValid(n) == IsElement(n) /\ "invalid" \notin n.is

KeyAt(n, key) == {i \in 1..Len(n.attr) : n.attr[i][1] = key}
HasProp(n, key) == KeyAt(n, key) # {}
Prop(n, key) == IF HasProp(n, key) THEN n.attr[Least(KeyAt(n, key))][2] ELSE None
FirstChild(n, name) == {i \in 1..Len(n.kids) : n.kids[i].name = name}

Known(ctx, source, name) == IF <<source, name>> \in DOMAIN ctx.value THEN ctx.value[<<source, name>>] ELSE None
Document(ctx, kind, name) == IF <<kind, name>> \in DOMAIN ctx.doc THEN ctx.doc[<<kind, name>>] ELSE NoDoc

RECURSIVE Joined(_)
Joined(lists) == IF lists = <<>> THEN <<>> ELSE Head(lists) \o Joined(Tail(lists))

RECURSIVE StringOf(_)
StringOf(n) == IF IsText(n) THEN n.text ELSE Joined([i \in 1..Len(n.kids) |-> StringOf(n.kids[i])])

-----------------------------------------------------------------------------
(* Substitutions.                                                             *)

\* The letters of a regular expression stand for themselves here; the empty
\* one is found everywhere
Folded(t) == [i \in 1..Len(t) |-> IF IsUpper(t[i]) THEN t[i] + 32 ELSE t[i]]

RECURSIVE RegExpReplaced(_, _, _)
RegExpReplaced(t, pattern, by) ==
    LET at == Found(Folded(t), Folded(pattern), 1)
        i  == Least(at)
    IN  IF pattern = <<>> THEN by \o Joined([k \in 1..Len(t) |-> <<t[k]>> \o by])
        ELSE IF at = {} THEN t
        ELSE SubSeq(t, 1, i - 1) \o by \o RegExpReplaced(Rest(t, i + Len(pattern)), pattern, by)

Skip(n) == n.name \in {"#comment", "#pi", "meta"}

\* The name is removed when there is no value
Replaced(sub, t) ==
    IF sub.regexp # None THEN (IF sub.value = None THEN t ELSE RegExpReplaced(t, sub.regexp, sub.value))
    ELSE ReplaceStr(t, sub.name, IF sub.value = None THEN <<>> ELSE sub.value)

\* ApplySubstText() and ApplySubstRegExp(), in the node and all it contains
RECURSIVE ApplySubst(_, _)
ApplySubst(n, sub) ==
    IF Skip(n) THEN n
    ELSE [n EXCEPT !.text = IF IsText(n) THEN Replaced(sub, @) ELSE @,
                   !.attr = [i \in 1..Len(@) |-> <<@[i][1], Replaced(sub, @[i][2])>>],
                   !.kids = [i \in 1..Len(@) |-> ApplySubst(@[i], sub)]]

\* @name hides @string, and that @regexp, even when it is empty
SubstName(s) ==
    IF HasProp(s, "name") THEN (IF Prop(s, "name") # <<>> /\ (s.kids = <<>> \/ ~IsElement(s.kids[1])) THEN Prop(s, "name") ELSE None)
    ELSE Prop(s, "string")
SubstRegExp(s) == IF HasProp(s, "name") \/ HasProp(s, "string") THEN None ELSE Prop(s, "regexp")

\* The value of each source a substitution names: none, if it is not known
Sources == <<"to", "cgi", "argv", "now", "dir", "ext", "type", "filename", "env", "host", "script", "default">>
Encodable == {"default", "to", "cgi", "argv", "env", "host"}

Default(s) ==
    IF HasProp(s, "default") THEN Prop(s, "default")
    ELSE IF HasProp(s, "select") THEN Prop(s, "select")
    ELSE IF Len(s.kids) = 1 /\ IsText(s.kids[1]) /\ s.kids[1].text # <<>> THEN s.kids[1].text ELSE None

\* A format is replaced from the highest argument down to the program itself
RECURSIVE Formatted(_, _, _)
Formatted(ctx, format, i) ==
    IF i < 0 THEN format
    ELSE LET arg == Known(ctx, "argv", <<48 + i>>)
         IN  Formatted(ctx, ReplaceStr(format, <<Percent, 48 + i>>, IF arg = None THEN <<>> ELSE arg), i - 1)

CliGetFormat(ctx, format) ==
    IF Len(format) = 1 /\ IsDigit(format[1]) THEN Known(ctx, "argv", format)
    ELSE IF Percent \in {format[i] : i \in 1..Len(format)} THEN Formatted(ctx, format, 9) ELSE None

\* A parameter of a request, or an argument of that name
CgiValue(ctx, name) == IF Known(ctx, "cgi", name) # None THEN Known(ctx, "cgi", name) ELSE Known(ctx, "named", name)

\* If the default is quoted, so is the first of three sources, which need not
\* be the one that is used
Quoted(s, value) ==
    LET first == IF value["to"] # None THEN "to" ELSE IF value["env"] # None THEN "env" ELSE "cgi"
    IN  IF s.name \in {"subst", "variable"} /\ value["default"] # None /\ HasPairQuotes(value["default"]) /\ value[first] # None
        THEN [value EXCEPT ![first] = AddPairQuotes(@, Apos)] ELSE value

Encoded(s, value) ==
    [k \in DOMAIN value |->
       IF value[k] = None THEN None
       ELSE IF "base64" \in s.is THEN (IF k \in Encodable THEN Base64Decode(value[k]) ELSE value[k])
       ELSE IF "escaping" \in s.is /\ k \notin {"now", "type"} THEN EncodeRFC1738(value[k]) ELSE value[k]]

RECURSIVE PlainNode(_, _)

Given(s, ctx) ==
    [k \in {Sources[i] : i \in 1..Len(Sources)} |->
       IF k = "to" THEN (IF HasProp(s, "to") THEN Prop(s, "to")
                         ELSE IF FirstChild(s, "plain") # {} THEN PlainNode(s.kids[Least(FirstChild(s, "plain"))], ctx) ELSE None)
       ELSE IF k = "default" THEN Default(s)
       ELSE IF ~HasProp(s, k) THEN None
       ELSE IF k = "cgi" THEN CgiValue(ctx, Prop(s, k))
       ELSE IF k = "argv" THEN CliGetFormat(ctx, Prop(s, k))
       ELSE Known(ctx, k, Prop(s, k))]

\* cxpSubstGetPtr(): the first source that has a value
FirstValue(value) ==
    LET at == {i \in 1..Len(Sources) : value[Sources[i]] # None}
    IN  IF at = {} THEN None ELSE value[Sources[Least(at)]]

SubstDetect(s, ctx) ==
    [name |-> SubstName(s), regexp |-> SubstRegExp(s), value |-> FirstValue(Encoded(s, Quoted(s, Given(s, ctx))))]

IsNamed(sub) == sub.name # None \/ sub.regexp # None

\* One substitution among the children: in all of the document when it is a
\* child of the root, else in the siblings behind it, if an element is next.
\* It leaves an empty text. Other substitutions are no exception.
SubstAt(n, i, isRoot, ctx) ==
    LET sub  == SubstDetect(n.kids[i], ctx)
        done == IF isRoot THEN ApplySubst(n, sub)
                ELSE IF i < Len(n.kids) /\ IsValid(n.kids[i + 1])
                THEN [n EXCEPT !.kids = [k \in 1..Len(@) |-> IF k > i THEN ApplySubst(@[k], sub) ELSE @[k]]]
                ELSE n
    IN  IF IsValid(n.kids[i]) /\ IsNamed(sub) THEN [done EXCEPT !.kids[i] = Text(<<>>)] ELSE n

\* Elements whose own children are looked through
HoldsSubsts(n) == n.name \in {"state", "transition", "requirement"} /\ IsValid(n)

RECURSIVE SubstFrom(_, _, _, _)
SubstFrom(n, i, isRoot, ctx) ==
    IF i > Len(n.kids) THEN n
    ELSE SubstFrom(
           IF n.kids[i].name = "subst" THEN SubstAt(n, i, isRoot, ctx)
           ELSE IF HoldsSubsts(n.kids[i])
           THEN [n EXCEPT !.kids[i] = SubstFrom(@, 1, FALSE, ctx)]
           ELSE n, i + 1, isRoot, ctx)

SubstInChildNodes(n, isRoot, ctx) == IF IsValid(n) THEN SubstFrom(n, 1, isRoot, ctx) ELSE n

-----------------------------------------------------------------------------
(* Includes. What is included may include in turn; after an include has been  *)
(* expanded the siblings behind it are visited, and visited again by the loop *)
(* of the caller, as are those behind a comment.                              *)

RECURSIVE IncludesFrom(_, _, _, _)
IncludesFrom(kids, i, isMake, ctx) ==
    IF i > Len(kids) THEN kids
    ELSE LET n    == kids[i]
             doc  == Document(ctx, "include", Prop(n, "name"))
             all  == SubSeq(kids, 1, i - 1) \o <<Text(<<>>)>> \o (IF doc.name = "make" /\ isMake THEN doc.kids ELSE <<doc>>)
                       \o SubSeq(kids, i + 1, Len(kids))
             next == IncludesFrom(kids, i + 1, isMake, ctx)
         IN  IF n.name \in {"#comment", "#pi"} THEN IncludesFrom(next, i + 1, isMake, ctx)
             ELSE IF ~IsValid(n) \/ n.name \in {"meta", "pie"} THEN next
             ELSE IF n.name # "include"
             THEN IncludesFrom([kids EXCEPT ![i].kids = IncludesFrom(@, 1, isMake, ctx)], i + 1, isMake, ctx)
             ELSE IF doc = NoDoc THEN next
             ELSE IncludesFrom(IncludesFrom(all, i + 1, isMake, ctx), i + 1, isMake, ctx)

TraverseIncludeNodes(make, ctx) ==
    IF IsValid(make) THEN [make EXCEPT !.kids = IncludesFrom(@, 1, make.name = "make", ctx)] ELSE make

-----------------------------------------------------------------------------
(* Loops: for every value of <from> a copy of every element behind it, with   *)
(* the name replaced by the value.                                            *)

IsSeparating(c) == c \in {Blank, 44, Semicolon, CR, NL}

RECURSIVE EachValues(_)
EachValues(t) ==
    LET begins == {i \in 1..Len(t) : ~IsSeparating(t[i])}
        b      == Least(begins)
        ends   == {i \in (b + 1)..Len(t) : IsSeparating(t[i])}
    IN  IF begins = {} THEN <<>>
        ELSE IF ends = {} THEN <<Rest(t, b)>>
        ELSE <<SubSeq(t, b, Least(ends) - 1)>> \o EachValues(Rest(t, Least(ends)))

RECURSIVE EachRepeated(_, _, _, _)

Times(t, name, value, k) ==
    LET times[j \in 0..k] == IF j = 0 THEN t ELSE ReplaceStr(times[j - 1], name, value) IN times[k]

\* The siblings behind a node are replaced by the call for them and once more
\* by the loop: each one twice as often as the one before it
EachSubstitute(list, name, value) ==
    [i \in 1..Len(list) |-> EachRepeated(list[i], name, value, 2^(i - 1))]

EachAttributes(attr, name, value) ==
    [i \in 1..Len(attr) |-> <<attr[i][1], Times(attr[i][2], name, value, 2^(i - 1))>>]

EachReplaced(n, name, value) ==
    IF IsText(n) THEN [n EXCEPT !.text = ReplaceStr(@, name, value)]
    ELSE IF IsElement(n) THEN [n EXCEPT !.attr = EachAttributes(@, name, value), !.kids = EachSubstitute(@, name, value)]
    ELSE n

EachRepeated(n, name, value, k) == IF k = 0 THEN n ELSE EachRepeated(EachReplaced(n, name, value), name, value, k - 1)

\* cxpProcessEachNode(): a make element for the copies
EachNode(n, ctx) ==
    LET from   == Least(FirstChild(n, "from"))
        values == PlainNode(n.kids[from], ctx)
        body   == SelectSeq(SubSeq(n.kids, from + 1, Len(n.kids)), IsElement)
        all    == EachValues(values)
    IN  IF ~IsValid(n) \/ Prop(n, "name") \in {None, <<>>} \/ FirstChild(n, "from") = {} THEN NoDoc
        ELSE IF n.kids[from].kids = <<>> \/ values = None THEN NoDoc
        ELSE Node("make", <<>>, Joined([v \in 1..Len(all) |->
                 [i \in 1..Len(body) |-> EachReplaced(body[i], Prop(n, "name"), all[v])]]))

-----------------------------------------------------------------------------
(* Transformations.                                                           *)

RECURSIVE Selected(_, _)
Selected(n, id) ==
    (IF Prop(n, "id") = id THEN <<n>> ELSE <<>>) \o Joined([i \in 1..Len(n.kids) |-> Selected(n.kids[i], id)])

\* domGetXPathDoc(): what is selected becomes the content of the root. The
\* expressions select by an identifier.
XPathDoc(doc, select) == Node(doc.name, <<>>, Selected(doc, select))

\* A variable of the instruction replaces the global one of its name, if that
\* is declared before the first template
VariableNew(v, ctx) ==
    LET value == SubstDetect(v, ctx).value
    IN  IF value = None THEN v
        ELSE IF HasProp(v, "select") THEN [v EXCEPT !.attr[Least(KeyAt(v, "select"))][2] = value]
        ELSE IF v.kids # <<>> /\ IsText(v.kids[1]) THEN [v EXCEPT !.kids[1].text = value]
        ELSE [v EXCEPT !.kids = Append(@, Text(value))]

RECURSIVE UpdateXslVariables(_, _, _)
UpdateXslVariables(sheet, vars, ctx) ==
    IF vars = <<>> THEN sheet
    ELSE LET v  == Head(vars)
             at == {i \in 1..Len(sheet.kids) : /\ sheet.kids[i].name = "variable"
                                               /\ Prop(sheet.kids[i], "name") = Prop(v, "name")
                                               /\ \A k \in 1..i : sheet.kids[k].name # "template"}
         IN  UpdateXslVariables(IF v.name = "variable" /\ HasProp(v, "name") /\ at # {}
                                THEN [sheet EXCEPT !.kids[Least(at)] = VariableNew(v, ctx)] ELSE sheet, Tail(vars), ctx)

RECURSIVE XmlNode(_, _)

\* cxpXslRetrieve(): an embedded stylesheet, or a file or entry of the cache,
\* which has to name an output method
XslRetrieve(n, ctx) ==
    LET sheet == IF FirstChild(n, "xml") # {} THEN XmlNode(n.kids[Least(FirstChild(n, "xml"))], ctx)
                 ELSE IF HasProp(n, "name") THEN Document(ctx, "xsl", Prop(n, "name")) ELSE NoDoc
    IN  IF sheet.name = "stylesheet" /\ HasProp(sheet, "method") THEN sheet ELSE NoDoc

Html == <<104>>
Xml  == <<120>>
Txt  == <<116>>

\* What libxslt makes of a document: the stylesheet and its variables are
\* kept around it, to tell what was applied
Made(sheet) == Prop(sheet, "id") \o Joined([i \in 1..Len(sheet.kids) |-> StringOf(sheet.kids[i])])
\* A fault: what cannot be transformed stays in the chain
ToDomUnchanged(doc, sheet) == IF "fails" \in sheet.is THEN doc ELSE Node("result", <<<<"by", Made(sheet)>>>>, <<doc>>)
ToDom(doc, sheet) == IF "fails" \in sheet.is THEN NoDoc ELSE Node("result", <<<<"by", Made(sheet)>>>>, <<doc>>)
ToText(doc, sheet) == IF "fails" \in sheet.is THEN None ELSE Made(sheet) \o StringOf(doc)

Xsl(st, n, ctx) ==
    LET found == XslRetrieve(n, ctx)
        sheet == UpdateXslVariables(found, n.kids, ctx)
    IN  IF st.doc = NoDoc THEN st
        ELSE IF found = NoDoc THEN [st EXCEPT !.doc = NoDoc, !.stop = TRUE]
        ELSE IF Prop(sheet, "method") \in {Xml, Html} THEN [st EXCEPT !.doc = ToDom(@, sheet)]
        ELSE IF Prop(sheet, "method") = Txt THEN [st EXCEPT !.doc = NoDoc, !.text = ToText(st.doc, sheet)]
        ELSE [st EXCEPT !.doc = NoDoc]

XPath(st, n) ==
    IF st.doc = NoDoc THEN [st EXCEPT !.stop = TRUE]
    ELSE IF HasProp(n, "select") /\ Prop(n, "select") # <<Slash, 42>> THEN [st EXCEPT !.doc = XPathDoc(@, Prop(n, "select"))]
    ELSE st

\* In a text only a literal name is replaced
Subst(st, n, ctx) ==
    LET sub == SubstDetect(n, ctx)
    IN  IF st.text # None
        THEN [st EXCEPT !.text = IF sub.name = None THEN @ ELSE Replaced([sub EXCEPT !.regexp = None], @)]
        ELSE IF IsValid(st.doc) /\ IsNamed(sub) THEN [st EXCEPT !.doc = ApplySubst(@, sub)] ELSE st

\* The instructions behind the source, in their order; once there is a text,
\* the next path or stylesheet ends the chain
RECURSIVE Chain(_, _, _)
Chain(kids, st, ctx) ==
    IF kids = <<>> \/ st.stop THEN st
    ELSE LET n == Head(kids)
         IN  Chain(Tail(kids),
                   IF ~IsValid(n) THEN st
                   ELSE IF n.name = "subst" THEN Subst(st, n, ctx)
                   ELSE IF n.name \in {"xpath", "xsl"} /\ st.text # None THEN [st EXCEPT !.stop = TRUE]
                   ELSE IF n.name = "xpath" THEN XPath(st, n)
                   ELSE IF n.name = "xsl" THEN Xsl(st, n, ctx) ELSE st, ctx)

Transformations(doc, n, ctx) == Chain(n.kids, [doc |-> doc, text |-> None, stop |-> FALSE], ctx)

\* For a text the document that is left is written out
Dump(doc) == IF doc = NoDoc THEN None ELSE <<60>> \o StringOf(doc) \o <<62>>
TextOf(st) == IF st.text # None THEN st.text ELSE Dump(st.doc)

-----------------------------------------------------------------------------
(* Sources.                                                                   *)

\* A plain element: what its children make, one behind the other, or a file
PlainChild(n, i, ctx) ==
    LET c   == n.kids[i]
        doc == XmlNode(c, ctx)
    IN  IF IsText(c) THEN c.text
        ELSE IF c.name = "plain" THEN PlainNode(c, ctx)
        ELSE IF c.name = "xml" THEN (IF doc = NoDoc THEN None ELSE TextOf(Transformations(doc, n, ctx)))
        ELSE IF c.name \in {"db", "script", "image"} THEN Known(ctx, c.name, Prop(c, "name")) ELSE None

PlainNode(n, ctx) ==
    LET done  == SubstInChildNodes(n, FALSE, ctx)
        texts == SelectSeq([i \in 1..Len(done.kids) |-> PlainChild(done, i, ctx)], LAMBDA t : t # None)
    IN  IF ~IsValid(n) \/ n.name \notin {"plain", "from"} THEN None
        ELSE IF n.kids # <<>> THEN (IF texts = <<>> THEN None ELSE Joined(texts))
        ELSE Known(ctx, "file", Prop(n, "name"))

\* cxpGetXmlSourceNode(): the first child that is an element, whatever it is:
\* a substitution, too. A later stylesheet or path is passed over, a later db
\* is taken instead, and any other element ends the search.
RECURSIVE SourceFrom(_, _, _)
SourceFrom(kids, i, found) ==
    IF i > Len(kids) THEN found
    ELSE IF kids[i].name = "db" THEN SourceFrom(kids, i + 1, i)
    ELSE IF ~IsElement(kids[i]) \/ kids[i].name = "include" THEN SourceFrom(kids, i + 1, found)
    ELSE IF found = 0 THEN SourceFrom(kids, i + 1, i)
    ELSE IF kids[i].name \in {"xpath", "xsl", "stylesheet"} THEN SourceFrom(kids, i + 1, found)
    ELSE found

XmlSource(n) == SourceFrom(n.kids, 1, 0)

\* cxpProcessXmlNodeEmbedded(): the nodes that take the place of a node; an
\* embedded plain element is always removed. The body of an HTML document
\* becomes a div.
HtmlPart(root) ==
    LET part(name) == {i \in FirstChild(root, name) : i = Least(FirstChild(root, name)) /\ root.kids[i].kids # <<>>}
    IN  IF part("body") # {} THEN <<[root.kids[Least(part("body"))] EXCEPT !.name = "div"]>>
        ELSE IF part("head") # {} THEN <<root.kids[Least(part("head"))]>> ELSE <<>>

IsHtml(root) == root.name = "html" /\ FirstChild(root, "head") \cup FirstChild(root, "body") # {}

RECURSIVE Embedded(_, _)
Embedded(n, ctx) ==
    IF n.name = "xml"
    THEN IF ~IsValid(n) \/ "noeval" \in n.is THEN <<>>
         ELSE LET doc == XmlNode(n, ctx)
              IN  IF doc \in {NoDoc, Empty} THEN <<>> ELSE IF IsHtml(doc) THEN HtmlPart(doc) ELSE <<doc>>
    ELSE IF n.name = "plain" THEN <<>>
    ELSE <<[n EXCEPT !.kids = Joined([i \in 1..Len(@) |->
              IF @[i].name = "xml" /\ Embedded(@[i], ctx) # <<>> THEN <<Text(<<>>)>> \o Embedded(@[i], ctx) ELSE Embedded(@[i], ctx)])]>>

\* cxpProcessXmlChildNodes(): a literal document. Of its own children only
\* those that stay what they are get into it, and if just one child is left,
\* that is the root.
XmlChildNodes(n, ctx) ==
    LET kept == Joined([i \in 1..Len(n.kids) |-> IF n.kids[i].name = "xml" THEN <<>> ELSE Embedded(n.kids[i], ctx)])
        left == Len(kept) + 2 * Cardinality({i \in 1..Len(n.kids) : n.kids[i].name = "xml" /\ Embedded(n.kids[i], ctx) # <<>>})
    IN  IF left > 1 THEN [n EXCEPT !.kids = kept] ELSE IF kept = <<>> THEN Empty ELSE kept[1]

\* What the component of the source makes of it
Sourced(n, i, ctx) ==
    LET c == n.kids[i]
    IN  IF c.name = "xml" THEN XmlNode(c, ctx)
        ELSE IF c.name \in {"plain", "script"}
        THEN Document(ctx, "parsed", IF c.name = "plain" THEN PlainNode(c, ctx) ELSE Known(ctx, "script", Prop(c, "name")))
        ELSE IF c.name \in {"dir", "file", "pie", "calendar", "pathnet", "pathtable", "json", "info", "db", "zip"}
        THEN Document(ctx, c.name, Prop(c, "name"))
        ELSE XmlChildNodes(n, ctx)

\* cxpProcessXmlNode(): a copy, the document of the source transformed, and
\* with @eval="yes" what that makes in turn, or a document of the cache or a
\* file. The substitutions are made in the instructions, before the source is
\* processed; they are used up then.
XmlNode(n, ctx) ==
    LET i    == XmlSource(n)
        done == SubstInChildNodes(n, FALSE, ctx)
        doc  == Sourced(done, i, ctx)
        made == Transformations(doc, done, ctx).doc
    IN  IF ~IsValid(n) THEN NoDoc
        ELSE IF "noeval" \in n.is THEN [n EXCEPT !.is = @ \ {"noeval"}]
        ELSE IF i = 0 THEN (IF Prop(n, "name") \in {None, <<>>} THEN NoDoc ELSE Document(ctx, "xml", Prop(n, "name")))
        ELSE IF doc = NoDoc THEN NoDoc
        ELSE IF "eval" \in n.is /\ made.name = "make" THEN NoDoc
        ELSE IF "eval" \in n.is /\ made.name = "xml" THEN XmlNode(made, ctx)
        ELSE made

-----------------------------------------------------------------------------
(* Properties.                                                                *)

\* What the children of an element become when every substitution is in force
\* behind itself and nowhere else, in the order they are written
RECURSIVE Scoped(_, _, _)
Scoped(kids, subs, ctx) ==
    IF kids = <<>> THEN <<>>
    ELSE LET made[i \in 0..Len(subs)] == IF i = 0 THEN Head(kids) ELSE ApplySubst(made[i - 1], subs[i])
             n   == made[Len(subs)]
             sub == SubstDetect(n, ctx)
         IN  IF n.name = "subst" /\ IsValid(n) /\ IsNamed(sub)
             THEN <<Text(<<>>)>> \o Scoped(Tail(kids), Append(subs, sub), ctx)
             ELSE <<IF HoldsSubsts(n) THEN [n EXCEPT !.kids = Scoped(@, <<>>, ctx)] ELSE n>> \o Scoped(Tail(kids), subs, ctx)

\* A substitution changes every text and attribute behind it, those of other
\* substitutions included, nothing before it, and no comment or meta data,
\* unless a text follows it directly (cxp_subst.c:987).
ScopeOfSubst(kids, ctx) ==
    (\A i \in 1..(Len(kids) - 1) : kids[i].name = "subst" => IsValid(kids[i + 1]))
       => SubstInChildNodes(Node("xml", <<>>, kids), FALSE, ctx).kids = Scoped(kids, <<>>, ctx)

\* Texts that are the same after one replacement and after many
RECURSIVE Steady(_, _, _)
Steady(n, name, value) ==
    /\ \A i \in 1..Len(n.attr) : LET once == ReplaceStr(n.attr[i][2], name, value) IN ReplaceStr(once, name, value) = once
    /\ LET once == ReplaceStr(n.text, name, value) IN ReplaceStr(once, name, value) = once
    /\ \A i \in 1..Len(n.kids) : Steady(n.kids[i], name, value)

\* A loop makes the copies of all its elements for the first value, then those
\* for the second, in their order; no name is left in a text or an attribute,
\* and no text outside <from> gets lost (cxp.c:302).
EachExpanded(n, ctx) ==
    LET from   == Least(FirstChild(n, "from"))
        name   == Prop(n, "name")
        body   == SelectSeq(SubSeq(n.kids, from + 1, Len(n.kids)), IsElement)
        values == EachValues(PlainNode(n.kids[from], ctx))
        once(v) == [name |-> name, regexp |-> None, value |-> values[v]]
        made   == EachNode(n, ctx).kids
    IN  EachNode(n, ctx) # NoDoc =>
          /\ Len(made) = Len(values) * Len(body)
          /\ \A v \in 1..Len(values), i \in 1..Len(body) :
               Steady(body[i], name, values[v]) => made[(v - 1) * Len(body) + i] = ApplySubst(body[i], once(v))

\* The stylesheets around a document, the one that was applied first in front
RECURSIVE Applied(_)
Applied(doc) == IF doc.name = "result" THEN Append(Applied(doc.kids[1]), Prop(doc, "by")) ELSE <<>>

\* What an element of documents and stylesheets promises
RECURSIVE Promised(_, _)
Promised(n, ctx) ==
    LET i      == XmlSource(n)
        inner  == Promised(n.kids[i], ctx)
        sheets == SelectSeq(n.kids, LAMBDA c : c.name = "xsl" /\ IsValid(c))
        found  == [k \in 1..Len(sheets) |-> XslRetrieve(sheets[k], ctx)]
        works(sheet) == sheet # NoDoc /\ Prop(sheet, "method") \in {Xml, Html} /\ "fails" \notin sheet.is
    IN  IF ~IsValid(n) THEN [ok |-> FALSE, by |-> <<>>]
        ELSE IF "noeval" \in n.is THEN [ok |-> TRUE, by |-> <<>>]
        ELSE IF i = 0 THEN [ok |-> Document(ctx, "xml", Prop(n, "name")) # NoDoc, by |-> <<>>]
        ELSE [ok |-> inner.ok /\ \A k \in 1..Len(found) : works(found[k]),
              by |-> inner.by \o [k \in 1..Len(found) |-> Made(found[k])]]

\* The result of nested xml elements is there if, and only if, every document
\* and stylesheet is; the inner stylesheets were applied before the outer
\* ones, each once, in the order they are written. A text comes from the first
\* stylesheet that makes one, and none behind it is used.
AppliedInOrder(n, ctx) ==
    LET doc  == XmlNode(n, ctx)
        st   == Transformations(Document(ctx, "xml", <<1>>), n, ctx)
        text == {i \in 1..Len(n.kids) : /\ n.kids[i].name = "xsl" /\ IsValid(n.kids[i])
                                        /\ Prop(XslRetrieve(n.kids[i], ctx), "method") = Txt}
    IN  (XmlSource(n) # 0 /\ n.kids[XmlSource(n)].name = "xml" /\ \A i \in 1..Len(n.kids) : n.kids[i].name \in {"xml", "xsl", "#text", "#comment"})
          => /\ doc # NoDoc <=> Promised(n, ctx).ok
             /\ doc # NoDoc => Applied(doc) = Promised(n, ctx).by
             /\ st.text # None =>
                  /\ st.doc = NoDoc
                  /\ IsPrefix(Made(XslRetrieve(n.kids[Least(text)], ctx)), st.text)
                  /\ \A i \in text : i > Least(text) => Found(st.text, Made(XslRetrieve(n.kids[i], ctx)), 2) = {}

\* What an element becomes when what it includes takes the place of it
RECURSIVE Expanded(_, _, _)
Expanded(n, isMake, ctx) ==
    LET doc == Document(ctx, "include", Prop(n, "name"))
    IN  IF ~IsValid(n) \/ n.name \in {"meta", "pie"} THEN <<n>>
        ELSE IF n.name # "include" THEN <<[n EXCEPT !.kids = Joined([i \in 1..Len(@) |-> Expanded(@[i], isMake, ctx)])]>>
        ELSE IF doc = NoDoc THEN <<n>>
        ELSE IF doc.name = "make" /\ isMake THEN Joined([i \in 1..Len(doc.kids) |-> Expanded(doc.kids[i], isMake, ctx)])
        ELSE Expanded(doc, isMake, ctx)

\* Includes are expanded in their places and in what they include, however
\* often the loops come across them (cxp_subst.c:222).
IncludesMade(kids, ctx) ==
    \A name \in {"make", "xml"} :
        LET made == TraverseIncludeNodes(Node(name, <<>>, kids), ctx).kids
            Spaceless(list) == SelectSeq(list, LAMBDA n : n # Text(<<>>))
            RECURSIVE Tidy(_)
            Tidy(n) == [n EXCEPT !.kids = Spaceless([i \in 1..Len(@) |-> Tidy(@[i])])]
        IN  Tidy(Node(name, <<>>, made)) = Tidy(Node(name, <<>>, Joined([i \in 1..Len(kids) |-> Expanded(kids[i], name = "make", ctx)])))
=============================================================================
