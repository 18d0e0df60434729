----------------------------- MODULE PieImport -----------------------------
(* Includes and imports of structured documents (option/pie/pie_text.c):     *)
(* pieProcessPieNode() copies a document, replaces the include elements by   *)
(* the contents of files and makes every import element a block of its own,  *)
(* whose own includes and imports are processed in turn.  The recursion is   *)
(* bounded by the attribute "context" of the blocks around an import only.   *)
(*                                                                           *)
(* A content is a sequence of items: a paragraph, an import or an include of *)
(* a file, an import of the standard input, an import element with a text of *)
(* its own, which is the instruction to import a file, or with an            *)
(* instruction <xml> or <plain> to make a document or a text of a file, or   *)
(* an import element with nothing at all.                                    *)
EXTENDS Naturals, Sequences, FiniteSets

CONSTANTS
    Files,          \* names of files
    Root,           \* the file of the document that is processed
    Inputs,         \* what the files may be: records [content, kind, readable, cached]
    StdinContent,   \* what is read from the standard input
    MaxDepth,       \* the calls that the stack of the process has room for
    None

(* What is not the name of a file says what an import element holds.         *)
Inner == {"inline", "xml", "plain"}
Bare  == {"stdin", "bare"}
ASSUME RootAssumption == Root \in Files /\ (Inner \cup Bare) \cap (Files \cup {None}) = {} /\ None \notin Files
ASSUME DepthAssumption == MaxDepth \in Nat

(* The kinds of files: text is parsed, elements are taken as they are.       *)
Text     == {"plain", "markdown"}
Elements == {"pie", "xml"}

Item == [k : {"p"} \cup Bare, f : {None}] \cup [k : {"import", "include"} \cup Inner, f : Files]
ASSUME InputAssumption ==
    /\ \A in \in Inputs : /\ in.content \in [Files -> Seq(Item)]
                          /\ in.readable \subseteq Files /\ in.cached \subseteq Files
    /\ StdinContent \in Seq(Item)

VARIABLES
    input,      \* the files
    stdin,      \* the standard input has not been read
    nodes,      \* the nodes of the result, in the order of their creation
    kids,       \* the children of every node
    stack       \* the traversals that have not ended

vars == <<input, stdin, nodes, kids, stack>>

-----------------------------------------------------------------------------
(* Nodes.  A directive is a paragraph of text that has not been recognised.  *)

Node(name, of, file, inner, parent) ==
    [name |-> name, of |-> of, file |-> file, inner |-> inner, parent |-> parent,
     context |-> None, error |-> "none"]

(* The node of an item of file "of": in a text, imports and includes are     *)
(* paragraphs at first.                                                      *)
Directive(insert) == IF insert = "include" THEN "#include" ELSE "#import"
ItemNode(item, textual, of, parent) ==
    LET insert == IF item.k = "include" THEN "include" ELSE "import"
    IN  IF item.k = "p" THEN Node("p", of, None, None, parent)
        ELSE IF item.k \in Inner THEN Node("import", of, item.k, item.f, parent)
        ELSE IF item.k = "bare" THEN Node("import", of, "bare", None, parent)
        ELSE Node(IF textual THEN Directive(insert) ELSE insert, of,
                  IF item.k = "stdin" THEN "stdin" ELSE item.f, None, parent)

Fresh(content, textual, of, parent) ==
    [i \in DOMAIN content |-> ItemNode(content[i], textual, of, parent)]
Ids(n, k) == [i \in 1..k |-> n + i]

(* RecognizeInserts(): the directives of one kind become elements.           *)
Recognized(ns, insert, ids) ==
    [i \in DOMAIN ns |->
        IF ns[i].name = Directive(insert) /\ \E k \in DOMAIN ids : ids[k] = i
        THEN [ns[i] EXCEPT !.name = insert] ELSE ns[i]]

(* Node i and those around it; the root has parent 0.                        *)
Around(ns, i) ==
    LET a[j \in 0..Len(ns)] == IF j = 0 THEN {} ELSE {j} \cup a[ns[j].parent]
    IN  a[i]

(* Mutant: the block around the element is looked at only.                   *)
IsCircularBlock(i) ==
    /\ input.kind[nodes[i].file] \in {"plain", "pie"}
    /\ nodes[i].parent # 0 /\ nodes[nodes[i].parent].context = nodes[i].file

(* The document that a make instruction has given is processed apart from    *)
(* the one around the import element, which is not seen until it is done.    *)
Unseen(a) == \E k \in DOMAIN stack : stack[k].phase = "made" /\ a <= stack[k].at

(* IsImportCircular(): an element around has the file as its context; files  *)
(* of two types are looked at only.                                          *)
Checked == {"plain", "pie"}
IsCircular(i) ==
    /\ input.kind[nodes[i].file] \in Checked
    /\ \E a \in Around(nodes, nodes[i].parent) : ~Unseen(a) /\ nodes[a].context = nodes[i].file

Readable(f) == f \in input.readable

-----------------------------------------------------------------------------
(* Traversals: of the includes of a node, then of its imports.  What an      *)
(* instruction has made is processed, and when it has become a block of the  *)
(* document, its includes and imports are traversed again, at all depths.    *)
Including == {"include", "again"}
Importing == {"import", "retry"}

Frame(phase, at, todo, recognize) ==
    [phase |-> phase, at |-> at, todo |-> todo, recognize |-> recognize]
Top == stack[Len(stack)]
Rest == [stack EXCEPT ![Len(stack)].todo = Tail(@)]
Under(phases) == stack # <<>> /\ Top.phase \in phases /\ Top.todo # <<>>
Done(phases)  == stack # <<>> /\ Top.phase \in phases /\ Top.todo = <<>>
Here == Head(Top.todo)
Call(frame) == Len(stack) < MaxDepth /\ stack' = Append(Rest, frame)

(* The document: its block has the context of its file.                      *)
Init ==
    /\ input \in Inputs
    /\ stdin = TRUE
    /\ LET c == input.content[Root]
           block == [Node("block", None, None, None, 0) EXCEPT !.context = Root]
       IN  /\ nodes = <<block>> \o Fresh(c, FALSE, Root, 1)
           /\ kids = <<Ids(1, Len(c))>> \o [i \in DOMAIN c |-> <<>>]
           /\ stack = <<Frame("include", 1, Ids(1, Len(c)), TRUE)>>

(* Mutant: the traversal does not go on.                                     *)
ErrorStays(i, e) ==
    /\ nodes' = [nodes EXCEPT ![i].error = e]
    /\ UNCHANGED <<input, stdin, kids, stack>>

(* Mutant: the element gets no error.                                        *)
ErrorSilent(i, e) ==
    /\ stack' = Rest
    /\ UNCHANGED <<input, stdin, nodes, kids>>

Error(i, e) ==
    /\ nodes' = [nodes EXCEPT ![i].error = e]
    /\ stack' = Rest
    /\ UNCHANGED <<input, stdin, kids>>

(* IncludeNodeFile() puts the nodes of a file behind the include element,    *)
(* which becomes an empty text.  The traversal goes on behind them.          *)
Included(i) ==
    LET f == nodes[i].file
        c == input.content[f]
        new == Ids(Len(nodes), Len(c))
        p == nodes[i].parent
        at == CHOOSE k \in DOMAIN kids[p] : kids[p][k] = i
    IN  /\ nodes' = [nodes EXCEPT ![i].name = "text"]
                    \o Fresh(c, input.kind[f] \in Text, f, p)
        /\ kids' = [kids EXCEPT ![p] = SubSeq(@, 1, at) \o new \o SubSeq(@, at + 1, Len(@))]
                   \o [k \in DOMAIN c |-> <<>>]
        /\ stack' = Rest

Include ==
    /\ Under(Including) /\ nodes[Here].name = "include"
    /\ LET f == nodes[Here].file
       IN  IF IsCircular(Here) THEN Error(Here, "circular")
           ELSE IF ~Readable(f) THEN Error(Here, "read")
           ELSE IF input.content[f] # <<>> THEN Included(Here) /\ UNCHANGED <<input, stdin>>
           ELSE Error(Here, IF input.kind[f] \in Elements THEN "none" ELSE "empty")

(* Everything else is left alone, as are the nodes an include has brought,   *)
(* but for the blocks that are met when a document is traversed again.       *)
PassInclude ==
    /\ Under(Including) /\ nodes[Here].name \notin {"include", "block"}
    /\ stack' = Rest
    /\ UNCHANGED <<input, stdin, nodes, kids>>

(* When the includes are done the imports of the node are recognised, those  *)
(* of a file of elements are not, and traversed.                             *)
IncludesDone ==
    /\ Done({"include"})
    /\ nodes' = IF Top.recognize THEN Recognized(nodes, "import", kids[Top.at]) ELSE nodes
    /\ stack' = [stack EXCEPT ![Len(stack)] = Frame("import", Top.at, kids[Top.at], Top.recognize)]
    /\ UNCHANGED <<input, stdin, kids>>

(* Import i becomes a block with a content, whose traversal begins.          *)
Expanded(i, context, content, textual, of, phase, recognize) ==
    LET new == Ids(Len(nodes), Len(content))
        ns == [nodes EXCEPT ![i].name = "block", ![i].context = context]
              \o Fresh(content, textual, of, i)
    IN  /\ nodes' = IF textual THEN Recognized(ns, "include", new) ELSE ns
        /\ kids' = [kids EXCEPT ![i] = new] \o [k \in DOMAIN content |-> <<>>]
        /\ Call(Frame(phase, i, new, recognize))

IsImport(i) == nodes[i].name = "import"

(* The name of an import is taken away when its file turns out to be empty,  *)
(* and leaves nothing if it is met again.                                    *)
Named(i) == nodes[i].file \in Files /\ nodes[i].context = None

(* ImportNodeFile() for a file that can be parsed.                           *)
ImportFile ==
    /\ Under(Importing) /\ IsImport(Here) /\ Named(Here)
    /\ nodes[Here].file \notin input.cached
    /\ ~IsCircular(Here) /\ Readable(nodes[Here].file)
    /\ LET f == nodes[Here].file IN
       /\ input.kind[f] \in Text \cup Elements
       /\ input.content[f] # <<>>
       /\ LET textual == input.kind[f] \in Text
          IN  Expanded(Here, f, input.content[f], textual, f, "include", textual)
    /\ UNCHANGED <<input, stdin>>

(* A file of another kind has no imports: a table or a preformatted text.    *)
ImportLeaf ==
    /\ Under(Importing) /\ IsImport(Here) /\ Named(Here)
    /\ nodes[Here].file \notin input.cached
    /\ Readable(nodes[Here].file)
    /\ LET f == nodes[Here].file IN
       /\ input.kind[f] \notin Text \cup Elements
       /\ input.content[f] # <<>>
       /\ nodes' = [nodes EXCEPT ![Here].name = "block", ![Here].context = f]
    /\ stack' = Rest
    /\ UNCHANGED <<input, stdin, kids>>

(* An import that fails keeps its element and gets an error; the context is  *)
(* set before the file is read.                                              *)
ErrorAfter(i, e, f) ==
    /\ nodes' = [nodes EXCEPT ![i].error = e, ![i].context = f]
    /\ stack' = Rest
    /\ UNCHANGED <<input, stdin, kids>>

ImportFails ==
    /\ Under(Importing) /\ IsImport(Here) /\ Named(Here)
    /\ nodes[Here].file \notin input.cached
    /\ \/ IsCircular(Here) /\ Error(Here, "circular")
       \/ ~IsCircular(Here) /\ ~Readable(nodes[Here].file) /\ Error(Here, "read")
       \/ /\ ~IsCircular(Here) /\ Readable(nodes[Here].file)
          /\ LET f == nodes[Here].file IN
             /\ input.content[f] = <<>>
             /\ ErrorAfter(Here, IF input.kind[f] \in Elements THEN "struct" ELSE "empty", f)

(* A document found in the cache is copied; the block gets no context, and   *)
(* the circle is not looked for.  What its includes bring is recognised.  If *)
(* the document is empty the element is left as it is, without an error.     *)
EmptyCached(n) == n.file \in input.cached /\ input.content[n.file] = <<>>
ImportCached ==
    /\ Under(Importing) /\ IsImport(Here) /\ nodes[Here].file \in input.cached
    /\ ~EmptyCached(nodes[Here])
    /\ LET f == nodes[Here].file IN Expanded(Here, None, input.content[f], FALSE, f, "include", TRUE)
    /\ UNCHANGED <<input, stdin>>

(* ImportNodeStdin() for a text: read once, its imports are not processed.   *)
ImportStdin ==
    /\ Under(Importing) /\ IsImport(Here) /\ nodes[Here].file = "stdin"
    /\ LET new == Ids(Len(nodes), Len(StdinContent)) IN
       IF stdin
       THEN /\ nodes' = [nodes EXCEPT ![Here].name = "block", ![Here].context = "stdin"]
                        \o Fresh(StdinContent, TRUE, "stdin", Here)
            /\ kids' = [kids EXCEPT ![Here] = new] \o [k \in DOMAIN StdinContent |-> <<>>]
       ELSE /\ nodes' = [nodes EXCEPT ![Here].name = "block", ![Here].context = "stdin",
                                      ![Here].error = "empty"]
            /\ UNCHANGED kids
    /\ stdin' = FALSE
    /\ stack' = Rest
    /\ UNCHANGED input

(* ImportNodeContent(): the text of the element itself, without a context.   *)
ImportContent ==
    /\ Under(Importing) /\ IsImport(Here) /\ nodes[Here].file = "inline"
    /\ Expanded(Here, None, <<[k |-> "import", f |-> nodes[Here].inner]>>, TRUE, nodes[Here].of, "include", TRUE)
    /\ UNCHANGED <<input, stdin>>

(* ImportNodeCxp() for an instruction <plain>: the text that it makes, here  *)
(* that of a file, is parsed.                                                *)
ImportPlain ==
    /\ Under(Importing) /\ IsImport(Here) /\ nodes[Here].file = "plain"
    /\ LET f == nodes[Here].inner
       IN  IF Readable(f) /\ input.content[f] # <<>>
           THEN /\ Expanded(Here, None, input.content[f], TRUE, f, "include", TRUE)
                /\ UNCHANGED <<input, stdin>>
           ELSE Error(Here, "empty")

(* ImportNodeCxp() for an instruction <xml>: the document that it makes,     *)
(* here that of a file, is a structured one, becomes the only child of the   *)
(* element in the end and is processed as pieProcessPieNode() does, without  *)
(* looking for a circle.                                                     *)
MakesDocument(f) == f \in input.cached \cup input.readable /\ input.kind[f] \in Elements /\ input.content[f] # <<>>
ImportMake ==
    /\ Under(Importing) /\ IsImport(Here) /\ nodes[Here].file = "xml"
    /\ MakesDocument(nodes[Here].inner)
    /\ Expanded(Here, None, <<[k |-> "import", f |-> nodes[Here].inner]>>, FALSE, None, "made", TRUE)
    /\ UNCHANGED <<input, stdin>>

ProcessMade ==
    /\ Under({"made"})
    /\ LET f == nodes[Here].file IN Expanded(Here, f, input.content[f], FALSE, f, "include", TRUE)
    /\ UNCHANGED <<input, stdin>>

(* It replaces the element, and includes and imports are looked for again.   *)
MadeDone ==
    /\ Done({"made"})
    /\ stack' = [stack EXCEPT ![Len(stack)] = Frame("include", Top.at, kids[Top.at], TRUE)]
    /\ UNCHANGED <<input, stdin, nodes, kids>>

EnterBlock ==
    /\ Under(Including \cup Importing) /\ nodes[Here].name = "block"
    /\ LET include == Top.phase \in Including
       IN  /\ nodes' = Recognized(nodes, IF include THEN "include" ELSE "import", kids[Here])
           /\ Call(Frame(IF include THEN "again" ELSE "retry", Here, kids[Here], TRUE))
    /\ UNCHANGED <<input, stdin, kids>>

(* An import without a name, an instruction or a text.                       *)
ImportNothing ==
    /\ Under(Importing) /\ IsImport(Here)
    /\ nodes[Here].file \in {"bare"} \cup Files
    /\ nodes[Here].file \in Files => nodes[Here].context # None
    /\ Error(Here, "unknown")

(* An instruction that makes no structured document leaves the element as it *)
(* is, without an error, as does the empty document in the cache.            *)
Silent(n) == EmptyCached(n) \/ (n.file = "xml" /\ ~MakesDocument(n.inner))
PassImport ==
    /\ Under(Importing) /\ nodes[Here].name # "block"
    /\ ~IsImport(Here) \/ Silent(nodes[Here])
    /\ stack' = Rest
    /\ UNCHANGED <<input, stdin, nodes, kids>>

Return ==
    /\ Done({"again"} \cup Importing)
    /\ stack' = SubSeq(stack, 1, Len(stack) - 1)
    /\ UNCHANGED <<input, stdin, nodes, kids>>

Next ==
    \/ Include \/ PassInclude \/ IncludesDone
    \/ ImportFile \/ ImportLeaf \/ ImportFails \/ ImportCached \/ ImportStdin \/ ImportContent
    \/ ImportPlain \/ ImportMake \/ ProcessMade \/ MadeDone \/ EnterBlock \/ ImportNothing
    \/ PassImport \/ Return

(* The processing is one call, which goes on until it returns, or until the  *)
(* stack of the process has no room for another.                             *)
Spec == Init /\ [][Next]_vars /\ WF_vars(Next)

-----------------------------------------------------------------------------
(* Properties.                                                               *)

(* The nodes are a tree, children name their parent, and no file of a kind   *)
(* that is looked at is expanded inside its own expansion, unless it is in a *)
(* document that an instruction inside it has made: this is what             *)
(* IsImportCircular(), which climbs the parents, is there for.               *)
NotInItself ==
    \A i \in DOMAIN nodes :
        /\ \A k \in DOMAIN kids[i] : nodes[kids[i][k]].parent = i
        /\ Cardinality({kids[i][k] : k \in DOMAIN kids[i]}) = Len(kids[i])
        /\ nodes[i].context \in Files /\ input.kind[nodes[i].context] \in Checked =>
            \A a \in Around(nodes, nodes[i].parent) :
                nodes[a].context = nodes[i].context =>
                    \E d \in Around(nodes, nodes[i].parent) : nodes[d].file = "xml" /\ a < d

(* Once the processing has returned every import element that was recognised *)
(* is a block or says why it is not, and every file that was expanded has    *)
(* its items in the order of the file, if it is of a kind that is looked at  *)
(* each once.  But for those that nobody processes: the elements in a text   *)
(* that was read from the standard input, those of an empty document in the  *)
(* cache, and instructions that make no structured document.                 *)
Neglected(n) == n.of = "stdin" \/ Silent(n)
KindOf(n) ==
    IF n.name \in {"include", "text", "#include"} THEN "include"
    ELSE IF n.name = "p" THEN "p"
    ELSE IF n.file \in Inner \cup Bare THEN n.file ELSE "import"
FileOf(n) == IF n.file \in Inner THEN n.inner ELSE IF n.file \in Bare THEN None ELSE n.file

(* The nodes of the items of f, below i with those that includes bring.      *)
ItemsOf(f, i) ==
    LET items == input.content[f]
        own == {k \in DOMAIN kids[i] : nodes[kids[i][k]].of = f}
    IN  \E at \in [DOMAIN items -> own] :
            /\ \A j, k \in DOMAIN items : j < k => at[j] < at[k]
            /\ input.kind[f] \in Checked => \A k \in own : \E j \in DOMAIN items : at[j] = k
            /\ \A j \in DOMAIN items :
                   LET n == nodes[kids[i][at[j]]] IN KindOf(n) = items[j].k /\ FileOf(n) = items[j].f
AllProcessed ==
    stack = <<>> =>
        \A i \in DOMAIN nodes :
            /\ nodes[i].name = "import" /\ ~Neglected(nodes[i]) => nodes[i].error # "none"
            /\ (nodes[i].name = "block" /\ nodes[i].context \in Files
                  /\ input.kind[nodes[i].context] \in Text \cup Elements) => ItemsOf(nodes[i].context, i)

(* The processing ends, or a file is being expanded inside its own expansion *)
(* and nothing that the search for circles looks at has come in between: the *)
(* inner expansion then does what the outer one has done, again and again.   *)
(* The standard input is no part of this, as it is read but once.            *)
Seen(k) ==
    {nodes[a].context : a \in {b \in Around(nodes, nodes[stack[k].at].parent) :
        \A m \in 1..(k - 1) : stack[m].phase = "made" => stack[m].at < b}}
    \cap {f \in Files : input.kind[f] \in Checked}
Alike(k, l) ==
    LET n == nodes[stack[k].at]
        o == nodes[stack[l].at]
    IN  /\ n.file \in Files \cup {"inline", "plain"}
        /\ n.file = o.file /\ n.inner = o.inner /\ n.context = o.context
        /\ stack[k].recognize = stack[l].recognize /\ Seen(k) = Seen(l)
        /\ \A m \in k..l : nodes[stack[m].at].file # "stdin"
Endless ==
    \E l \in DOMAIN stack : \E k \in 1..(l - 1) :
        {stack[k].phase, stack[l].phase} \subseteq {"include", "import"} /\ Alike(k, l)
Terminates == <>(stack = <<>>) \/ <>[]Endless
=============================================================================
