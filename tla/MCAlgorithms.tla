---------------------------- MODULE MCAlgorithms ----------------------------
(* The pure algorithms over bounded inputs. A state is an input: a kind and a *)
(* word of its letters, which grows by one letter in a step up to the length  *)
(* of its kind; the properties are about what the algorithms make of the      *)
(* input of every step.                                                       *)
EXTENDS Integers, Sequences, FiniteSets, TLC

P == INSTANCE ResPath
S == INSTANCE CxpStrings
C == INSTANCE PieCsv
D == INSTANCE CxpCalendar WITH Today <- 738900
R == INSTANCE CxpRequest
T == INSTANCE CxpTransform
E == INSTANCE PieDoc

VARIABLES kind, word
vars == <<kind, word>>

-----------------------------------------------------------------------------
(* Paths: names, separators, dots and archives behind every kind of beginning *)
PathStarts == {<<>>, <<"/">>, <<"http:", "/", "/", "a">>, <<"file:", "/", "/">>, <<"C:", "/">>, <<"'">>}
PathLetters == {"/", ".", "a", "zip", "\\"}
Cwd == <<"/", "a", "a">>
(* Longer paths, of steps up and other names with their separators            *)
PathSteps == {<<"/", ".", ".">>, <<"/", ".">>, <<"/", "a">>, <<"/">>, <<".">>, <<"a">>}

(* Texts: blanks, quotes, codes, entities, upper and lower case, UTF-8        *)
TextLetters == {10, 13, 32, 34, 37, 38, 39, 47, 59, 65, 92, 98, 195}

(* The same with whole entities and bytes of one digit                        *)
TextPieces == {e.text : e \in S!EntityNames} \cup {<<c>> : c \in {1, 10, 15, 16, 32, 37, 38, 49, 59, 65, 71, 92, 102, 195}}

(* Tables: cells, two separators, quotes, headers, lines                      *)
TableLetters == {65, 66, C!Semicolon, C!Comma, C!NL, C!Quote, C!Star, C!Blank}

-----------------------------------------------------------------------------
(* Dates: the parts of the text of a calendar element                         *)
Date(y, m, d, sec, zone) == [is |-> "date", y |-> y, m |-> m, d |-> d, sec |-> sec, zone |-> zone]
Period(offset, amounts) == [is |-> "period", offset |-> offset, p |-> D!PeriodOf(amounts)]
Amount(n, unit) == [n |-> n, unit |-> unit]
Lasting == {<<Amount(1, "M")>>, <<Amount(2, "W")>>, <<Amount(2, "D")>>, <<Amount(1, "W"), Amount(1, "D")>>,
            <<Amount(1, "Y"), Amount(1, "M"), Amount(2, "D")>>, <<Amount(0, "T"), Amount(30, "H")>>}
Dates ==
    {Date(2024, 1, 31, -1, 0), Date(0, 2, 29, 3600, 120), Date(2023, 5, 5, -1, 0)}
    \cup [is : {"year"}, y : {2023, 2024}] \cup [is : {"month"}, y : {2023, 2024}, m : {2, 12, 13}]
    \cup [is : {"week"}, y : {2023, 2024}, w : {1, 52}] \cup [is : {"quarter"}, y : {2024}, q : {1, 4, 5}]
    \cup [is : {"repeat"}, n : {0, 2}] \cup {Period(o, a) : o \in BOOLEAN, a \in Lasting}
StampLetters == {"1", " ", "/", "O", "P", "T", "-", ":", "minus"}
FixedText == <<Date(2023, 5, 5, -1, 0)>>

-----------------------------------------------------------------------------
(* Command lines: options, and files, directories and texts of every type     *)
Arg(is, slash, type, method) == [opt |-> "", is |-> is, slash |-> slash, type |-> type, method |-> method]
Option(o) == [opt |-> o, is |-> "none", slash |-> 0, type |-> "other", method |-> R!None]
Arguments ==
    {Option(o) : o \in {"-?", "-p", "-t", "-s", "-i", "-v", "-f", "-x", "-e"}}
    \cup {Arg("file", 0, t, R!None) : t \in {"cxp", "pie", "zip", "db", "other"}}
    \cup {Arg("none", 0, t, R!None) : t \in {"year", "sql", "empty", "cxp", "zip"}}
    \cup {Arg("file", 0, "xsl", m) : m \in {"none", "text", "html", "xml"}}
    \cup {Arg("dir", s, "other", R!None) : s \in 0..2}
    \cup {Arg("search", 0, "xsl", "html"), Arg("link", 0, "other", R!None), Arg("url", 0, "other", R!None)}

(* Requests: parameters, and the places their values name                     *)
Place(at, found, read, ok, type, method) == [at |-> at, found |-> found, read |-> read, ok |-> ok, type |-> type, method |-> method]
Places == [file  |-> Place("file", "file", TRUE, TRUE, "cxp", "html"),    dir    |-> Place("dir", "dir", TRUE, TRUE, "other", "broken"),
           deep  |-> Place("none", "file", TRUE, TRUE, "js", "text"),     locked |-> Place("file", "file", FALSE, FALSE, "cxp", "broken"),
           away  |-> Place("none", "none", FALSE, TRUE, "other", "broken"), empty |-> Place("dir", "none", TRUE, TRUE, "other", "broken")]
Params == [name : {"path", "file", "xsl", "xpath", "redir", "spath", "script", "cxp", "year", "", "v"}, value : DOMAIN Places]

(* Environments: entries with a name, a value and, or not, a "=" between them *)
Entries == [name : {"a", "b", ""}, value : {"yes", "no"}, sep : BOOLEAN]

-----------------------------------------------------------------------------
(* Instructions: substitutions among texts and elements, the bodies of loops, *)
(* chains of stylesheets, in a context that knows some values and documents   *)
LetterA == <<65>>
LetterB == <<66>>
LetterC == <<99>>
Sub(attr) == T!Node("subst", attr, <<>>)
Plain(t) == T!Node("plain", <<>>, <<T!Text(t)>>)
Named(element, name) == T!Node(element, <<<<"name", name>>>>, <<>>)
Sheet(id, method) == T!Node("stylesheet", <<<<"id", <<id>>>>, <<"method", method>>>>, <<>>)
Invalid(n) == [n EXCEPT !.is = {"invalid"}]
Include(i) == Named("include", <<i>>)

Ctx == [value |-> (<<"cgi", LetterA>> :> <<T!Quote, 66, T!Quote>>) @@ (<<"env", LetterA>> :> LetterC)
                  @@ (<<"argv", <<49>>>> :> <<T!Percent, 48>>) @@ (<<"argv", <<48>>>> :> <<100>>),
        doc   |-> (<<"xml", <<1>>>> :> T!Node("d", <<>>, <<T!Text(<<7>>)>>))
                  @@ (<<"xsl", <<11>>>> :> Sheet(21, T!Xml)) @@ (<<"xsl", <<12>>>> :> Sheet(22, T!Html)) @@ (<<"xsl", <<13>>>> :> Sheet(23, T!Txt))
                  @@ (<<"xsl", <<14>>>> :> Sheet(24, <<1>>)) @@ (<<"xsl", <<15>>>> :> [Sheet(25, T!Xml) EXCEPT !.is = {"fails"}])
                  @@ (<<"xsl", <<17>>>> :> Sheet(27, T!Txt))
                  @@ (<<"include", <<1>>>> :> T!Node("make", <<>>, <<Plain(LetterA), Include(2), T!Node("#comment", <<>>, <<>>)>>))
                  @@ (<<"include", <<2>>>> :> T!Node("xml", <<>>, <<T!Text(LetterB), Include(3)>>))]

Replacing == <<<<"string", LetterA>>, <<"to", LetterB>>>>
Substs == { Sub(Replacing), Invalid(Sub(Replacing)), Sub(<<<<"string", LetterB>>, <<"to", <<>>>>>>),
            Sub(<<<<"name", <<65, 66>>>>, <<"env", LetterA>>, <<"default", LetterA>>>>),
            Sub(<<<<"string", LetterB>>, <<"cgi", LetterA>>, <<"env", LetterA>>, <<"default", <<T!Quote, T!Quote>>>>>>),
            Sub(<<<<"regexp", <<97>>>>, <<"argv", <<T!Percent, 49>>>>>>),
            T!Node("subst", <<<<"string", LetterA>>>>, <<Plain(<<66, 66>>)>>), T!Node("plain", <<<<"name", LetterB>>>>, <<T!Text(<<65, 66>>)>>),
            T!Node("state", <<>>, <<Sub(<<<<"string", LetterA>>, <<"to", LetterC>>>>), Plain(<<65, 97>>)>>),
            T!Node("meta", <<>>, <<T!Text(LetterA)>>), T!Text(<<65, 65, 66>>) }

Includes == { Include(1), Include(2), Include(3), Invalid(Include(1)), T!Node("#comment", <<>>, <<>>), T!Node("pie", <<>>, <<Include(2)>>),
              T!Node("xml", <<>>, <<Include(1), Plain(LetterC)>>), T!Node("make", <<>>, <<T!Node("#pi", <<>>, <<>>), Include(2)>>) }

From(t) == T!Node("from", <<>>, <<T!Text(t)>>)
Froms == { From(<<66, 32, 99>>), From(<<44, 99, 59, 59, 100, 10>>), From(<<65, 65, 32, 99>>), From(<<>>),
           T!Node("from", <<>>, <<Sub(<<<<"string", LetterB>>, <<"to", <<99, 32, 100>>>>>>), Plain(LetterB)>>) }
Bodies == { T!Text(LetterA), Plain(<<65, 66, 65>>), T!Node("#comment", <<>>, <<>>), T!Node("xsl", <<<<"id", LetterB>>>>, <<>>),
            T!Node("xml", <<<<"name", LetterA>>, <<"a", <<66, 65>>>>>>, <<T!Text(LetterA), Plain(LetterA), Plain(LetterB)>>) }

Inner(kids) == T!Node("xml", <<>>, kids)
XmlDoc == Named("xml", <<1>>)
XslNo(i) == Named("xsl", <<i>>)
Chains == { XmlDoc, Named("xml", <<2>>), Inner(<<XmlDoc, XslNo(12)>>), Inner(<<XmlDoc, XslNo(16)>>), Inner(<<XmlDoc, XslNo(13)>>),
            [Inner(<<XmlDoc, XslNo(11)>>) EXCEPT !.is = {"noeval"}], Invalid(XslNo(14)), T!Node("#comment", <<>>, <<>>) }
          \cup {XslNo(i) : i \in 11..17}

-----------------------------------------------------------------------------
(* Documents: tokens in the slots of a section with a header, a paragraph, a  *)
(* list and a preformatted text; two of all kinds in one slot, and in two     *)
(* slots, or three, those that have to do with each other                     *)
Token(k, v) == [k |-> k, v |-> v]
Core == {Token("hidden", ";"), Token("link", "l"), Token("dates", "d"), Token("task", "todo"), Token("fig", "f"),
         Token("tag", "#g"), Token("subst", "x"), Token("inline", "q")}
Tokens == Core \cup {Token("script", "s"), Token("word", "a"), Token("cancel", "no"), Token("arrow", "⇒"), Token("high", "++++"),
         Token("medium", "++"), Token("ok", "ok"), Token("image", "i"), Token("url", "u"), Token("unc", "w"), Token("num", "n"),
         Token("auto", "o"), Token("anchor", "h"), Token("date", "e"), Token("entity", "y"), Token("subst", "")}
Slotted == [slot : 1..4, token : Tokens]
Fits(w, x) ==
    /\ w # <<>> => w[Len(w)].slot <= x.slot
    /\ (Len(w) = 1 /\ x.slot # w[1].slot) => {w[1].token, x.token} \subseteq Core
    /\ Len(w) = 2 => x.slot = w[2].slot /\ x.slot < 3 /\ {w[1].token, w[2].token, x.token} \subseteq Core

TextIn(w, slot) ==
    LET InSlot(x) == x.slot = slot
        own == SelectSeq(w, InSlot)
    IN  <<E!TextNode(E!Joined([i \in 1..Len(own) |-> <<own[i].token>>] \o (IF own = <<>> THEN <<<<Token("word", "b")>>>> ELSE <<>>)))>>
Block(w) == E!Elem("block", <<E!Elem("section",
    <<E!Elem("h", TextIn(w, 1)), E!Elem("p", TextIn(w, 2)), E!Elem("list", <<E!Elem("p", TextIn(w, 3))>>), E!Elem("pre", TextIn(w, 4))>>)>>)
Filters == {[kind |-> "words", words |-> <<"b", "a">>], [kind |-> "regexp", words |-> <<"b">>]}

-----------------------------------------------------------------------------
(* The bound of every kind, its letters and the words it starts with          *)
MaxLen  == [path |-> 7, steps |-> 6, text |-> 4, coded |-> 3, table |-> 5, dates |-> 3, args |-> 3, request |-> 2, subst |-> 4, each |-> 4, chain |-> 4, pie |-> 3,
            stamp |-> 4, lookup |-> 3, include |-> 4]
Letters == [path |-> PathLetters, steps |-> PathSteps, text |-> TextLetters, coded |-> TextPieces, table |-> TableLetters, dates |-> Dates, args |-> Arguments,
            request |-> Params, subst |-> Substs, each |-> Bodies, chain |-> Chains, pie |-> Slotted, stamp |-> StampLetters, lookup |-> Entries, include |-> Includes]
Starts(k) == IF k = "path" THEN PathStarts ELSE IF k = "steps" THEN {<<p>> : p \in PathStarts} ELSE IF k = "each" THEN {<<f>> : f \in Froms} ELSE {<<>>}

Init == /\ kind \in DOMAIN MaxLen
        /\ word \in Starts(kind)
Next == /\ Len(word) < MaxLen[kind]
        /\ \E c \in Letters[kind] : (kind = "pie" => Fits(word, c)) /\ word' = Append(word, c)
        /\ UNCHANGED kind
Spec == Init /\ [][Next]_vars

-----------------------------------------------------------------------------
(* A normalized path leads to where the path led, and nothing is written      *)
(* before it, but for what MeaningKept() names (resPathCollapseStr()).        *)
PathMeaningKept ==
    [][/\ kind = "path" => P!MeaningKept(word', Cwd)
       /\ kind = "steps" => P!MeaningKept(P!FlattenSeq(word'), Cwd)]_vars

(* Directory, name, extension and archive of a path fit together              *)
(* (resPathGetBasedir(), resPathGetBasename(), resPathIsInArchive()), and the *)
(* questions asked of a path do not contradict each other (resPathIsURL(),    *)
(* resPathIsAbsolute(), resPathIsRelative(), resPathIsEquivalent()).          *)
PathPartsFit == [][kind = "path" => P!PartsOfPath(word') /\ P!PathsAgree(word', Cwd)]_vars

(* The encodings of texts can be taken back, in RFC 1738 exactly for texts    *)
(* without bytes below 16 (utils.c, cxp_context_enc.c).                       *)
EncodingsReversible ==
    [][/\ kind = "text" => S!TextsSurvive(word')
       /\ kind = "coded" => S!TextsSurvive(P!FlattenSeq(word'))]_vars

(* No cell of a table is lost or split (ParseCsvBuffer(), CompressTable()).   *)
TableCellsKept == [][kind = "table" => C!CsvKept(word')]_vars

(* Different texts for the same days give the same days                       *)
(* (ScanCalendarElementDate(), CalendarElementUpdate()), but for a period of  *)
(* months or days before a date, which begins earlier; and separators do not  *)
(* count.                                                                     *)
DateSpansAgree ==
    [][/\ kind = "dates" => D!SpansAgree(word')
       /\ kind = "stamp" => D!StampsSimple(word')]_vars

(* Every day of an entry has its place in the calendar, beside an element of  *)
(* another year (RegisterAndParseDateNodes(), GetYearArray(),                 *)
(* calProcessCalendarNode()); months and weeks are tried for short texts.     *)
DateEntriesPlaced ==
    [][kind = "dates" =>
         \A type \in IF Len(word') = 3 THEN {"mday"} ELSE {"mday", "week", "month"} : D!EntriesPlaced(<<word', FixedText>>, type)]_vars

(* Every argument is used in its order and a request is answered once, with   *)
(* or without a path and a query of the server (cxpCtxtCliParse(),            *)
(* cxpCtxtCgiParse()); a value is found by its name, and by the index of the  *)
(* name (cxpCtxtEnvGetIndexByName()).                                         *)
RequestsKept ==
    [][/\ kind = "args" => R!ArgumentsUsed(word')
       /\ kind = "lookup" => R!LookupsAgree(word')
       /\ kind = "request" => \A query \in {R!None, "file", "away"}, path \in {R!None, "file"} : R!AnsweredOnce(path, query, word', Places)]_vars

(* A substitution is in force behind itself only, a loop makes every copy,    *)
(* stylesheets are applied in their order or there is no result, and includes *)
(* are expanded in place (cxpSubstInChildNodes(), cxpProcessEachNode(),       *)
(* cxpProcessXmlNode(), cxpTraverseIncludeNodes()).                           *)
InstructionsKept ==
    [][/\ kind = "subst" => T!ScopeOfSubst(word', Ctx)
       /\ kind = "include" => T!IncludesMade(word', Ctx)
       /\ kind = "each" => T!EachExpanded(T!Node("each", <<<<"name", LetterA>>>>, word'), Ctx)
       /\ kind = "chain" => T!AppliedInOrder(T!Node("xml", <<>>, word'), Ctx)]_vars

(* The passes over a document lose, repeat and reorder nothing of what its    *)
(* text says, but for what its marks take out and what is lost behind an      *)
(* inline markup at its beginning (pieProcessPieNode(), RecognizeInlines()).  *)
DocumentTextSaid == [][kind = "pie" => E!TextKept(Block(word'))]_vars

(* A processed document is complete: a third pass changes nothing, every      *)
(* tag is listed once with its number, filters keep what matches, every block *)
(* is found by its place, and pruning leaves the rest (ProcessTags(),         *)
(* CleanUpTree(), pieWeightWordsInBlocks(), domSetPropXpath()).               *)
DocumentSettles == [][kind = "pie" => E!DocumentSettled(Block(word'), Filters)]_vars
=============================================================================
