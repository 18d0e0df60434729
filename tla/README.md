# cxproc in TLA+

cxproc is a configurable XML processor: it reads a document of `make`
elements and executes their instructions, which copy and list files, read,
transform and save XML and text, call commands, and nest.  Its instructions
come from files, from the command line or from HTTP requests; its texts may
be structured text, tables, calendars and petri nets.  This directory models
what is hard to get right in it: links, handles and caches over sequences of
calls, threads, contexts, recursive imports, searches, and the algorithms on
paths, texts, dates, instructions and documents.  Source paths below are
relative to `src/src/`.

## The system

| Component | State | Operations | Hard behaviour | Correct if |
|---|---|---|---|---|
| resource node tree (`res_node/res_node.c`, `res_node_list.c`) | per node: parent, children, last, next, prev | allocate, append as child or sibling, unlink, free, free list, reset, resolve link | five redundant links patched one by one; ownership is implicit | links agree, nothing dangles, every list owned once, order kept |
| content of nodes (`res_node/res_node_io.c`) | handle, mode, text, DOM, size, status | open, read, save, put, swap, parse, eat, close | truncation before writing, reading limit, status cached between calls | handles are owned, what is read is the resource, size and status are right |
| file operations (`res_node/res_node_ops.c`) | the file system | transfer (copy, move), make directory, unlink | every system call may fail between two others | no content lost |
| paths (`res_node/res_path.c`) | none | normalize, split, join, compare | edited in place; "..", drives, URLs, quotes, archives within a path | a normalized path means the same, its parts fit together |
| content cache (`cxp/cxp_context_cache.c`) | list of nodes per context | append text, DOM or node, look up, enable | lookups run over ancestors, entries have a text and a DOM | a name finds what was stored under it |
| interpreter (`cxp/cxp.c`) | position in each element, its context | the instructions of `make`, `each`, `xml`, `xsl`, `plain`, `copy`, `system` | recursion, cancelling, threads; chains of transformations | instructions in order, all of them, once |
| thread pool (`cxp/cxp_threadp.c`) | array of handles | new, append, join | creation and wait may fail | joined before return |
| contexts (`cxp/cxp_context.c`) | parent, children, root, location, search list, log level, exit code | new, dup, from attributes, add, free, save | values are inherited or copied; errors are passed on or not | private to a thread, freed once, never more permitted than the main context |
| command line, CGI, environment (`cxp/cxp_context_cli.c`, `_cgi.c`, `_enc.c`) | arguments and parameters of a context | parse, get values | position, type and options decide what an argument is | every argument used, every request answered once |
| substitutions (`cxp/cxp_subst.c`) | list of pairs | include, detect, apply, `each` | instructions that change the instructions behind them | scope, order |
| structured text (`option/pie`) | element being parsed, tree, blocks around | parse, include, import, recognise, filter, tag | modes and regions, nesting by markers, recursive imports, passes over imported text | nothing lost or said twice, imports end |
| calendar (`cxp/cxp_calendar.c`, `calendar_element.c`) | list of entries, arrays of nodes | scan, split periods, build years, register, insert | date arithmetic, repetitions, years added on demand | equal spans are equal, every day is placed |
| petri nets (`option/petrinet`) | path, paths, marks | read net, search, table, exclude | backtracking in place | all simple paths, each once |
| XML and string helpers (`dom.c`, `utils.c`) | none | edit trees and texts | quotes, codes, entities, UTF-8 | what is written reads back |
| directory listings, archives, output formats, databases, MIME types, other formats | none beyond the tree | traverse, list, insert | release while traversing | everything listed once and released |

The programs `cxproc` and `cxproc-cgi` make a main context of their
arguments (`CxpRequest`), build instructions and give them to the
interpreter.  An instruction works in the context of its element
(`CxpContext`): it resolves names (`ResPath`) to resource nodes
(`ResNodeTree`) through the location, the search list and the root of the
context, reads contents (`ResNodeIO`) through the cache of the context and of
its ancestors (`CxpCache`), and saves to the cache and to the file.  Before it
is executed its element is changed by includes, substitutions and `each`, and
its result goes through its stylesheets (`CxpTransform`).  A nested `make` is
called in the same context, or in a context of its own if its attributes ask
for one, or runs in a thread with a copy of the context when its parent has
`thread="yes"` (`CxpMake`).  A structured text is parsed into a tree
(`PieBlocks`), whose imports are expanded (`PieImport`) and whose texts are
then recognised, tagged and filtered (`PieDoc`, on the trees of `Dom`); tables
in it are parsed by `PieCsv`, its dates by `CxpCalendar`.

## Modules with state

| Module | Models | State and actions |
|---|---|---|
| `ResNodeTree` | link functions of `res_node.c` and `res_node_list.c` | `heap` is a record of the five links and the set of allocated nodes, `held` the heads of lists that the program has a pointer to, and the history `lost` those of lists that it has dropped.  One action per function, each a pure function of the heap; two callers that release child lists (`DumpRelease`, `DbRelease`) |
| `ResNodeIO` | `res_node_io.c`, `resNodeReadStatus()` | one `node`, what is on `disk`, a `memory` content to exchange, the open `streams`.  `written` is what the last save has made of the file.  One action per call, every call of the operating system may fail; `Elsewhere` is another process that writes or removes the file |
| `ResNodeOps` | `res_node_ops.c` with what it uses of `res_node_io.c` | `disk`, `dirs` and the last result `ok`.  One action per instruction; a system call that may fail makes an operation a set of outcomes |
| `CxpCache` | `cxp_context_cache.c` and the reading and saving instructions | `cache` per context, files on `disk`, the version of the last content made, and the history `stored` of names and versions.  One action per instruction |
| `CxpContext` | `cxp_context.c` and its callers in `cxp.c`, `cxp_archive.c`, `pie_text.c`, `cxproc*.c` | a record per context with links, own values and error count; `cgi` is the build, `file` the directories that hold the file asked for.  One action per way to make a context, `LogError`, `Save`, `Leave`, and `Exit` with the release of all |
| `CxpMake` | `cxpProcessMakeNode()`, `cxp_threadp.c`, contexts of threads | `pc`, `pos`, `pool`, `joined` and `ctx` per element, `parent` per context.  One action per step between which other threads run |
| `CxpForkJoin` | nothing in the source: the promise of `CxpMake` | `status` of each instruction |
| `Petrinet` | `petrinet.c` | the net read from `doc`, `path`, the `paths` found, the marks.  One action per step of the search: forward along the first free edge, back to the last branch, next target |
| `PieBlocks` | `pie_element.c`, `ParseTextBuffer()` of `pie_text_blocks.c` | the element's position and mode, the `tree` made so far, the number of elements `taken`; and what is behind the text in memory, since the parser may read on there.  One action per kind of element, and `End` of the loop: no more elements, or `iMax` of them |
| `PieImport` | includes and imports of `pie_text.c` | the nodes and, as a `stack` of traversals, the recursion.  One action per branch of the traversal, with imports of files, cached documents, contents, make instructions (`ImportMake`, `ProcessMade`, `MadeDone`) and plain elements (`ImportPlain`).  The stack of the process is `MaxDepth` traversals deep.  As in the code, a text from the standard input is not processed, nor is an empty document from the cache |

`CxpMake` implements `CxpForkJoin` under the mapping `Status`: an element is
active from its call or the start of its thread until its return, a step is
done when it was executed.

## Modules of algorithms

| Module | Models | Inputs in `MCAlgorithms` |
|---|---|---|
| `ResPath` | `res_path.c` for POSIX | seven tokens: separators of both kinds, dots, a name, an archive, behind URLs, drives and quotes; and five steps of names, "..", "." and separators behind each of these beginnings |
| `CxpStrings` | conversions of `utils.c` | texts of four bytes out of thirteen; three pieces of bytes, codes and entities |
| `PieCsv` | `pie_csv.c` | five of: letters, separators, line break, quote, star, blank |
| `CxpCalendar` | `calendar_element.c`, `cxp_calendar.c`, date parsers | three parts of a date text (dates, years, months, weeks, quarters, repetitions, periods of one and of several units), stamps of four characters; today is one day |
| `CxpRequest` | `cxp_context_cli.c`, `cxp_context_cgi.c`, `cxp_context_enc.c` | three arguments of any type, two parameters with values that name files, directories, unreadable or missing places, three environment entries |
| `CxpTransform` | `cxp_subst.c`, `plain`, `xml`, `each` and transformations of `cxp.c` | four instructions out of substitutions, includes, bodies of loops, or stylesheets, and a context that knows some of what they name |
| `PieDoc` | the passes of `pie_text_blocks.c`, `pie_text_tags.c`, `pie_text.c` over a tree | three tokens (words, dates, tags, links, marks, inline markup and others) in a section with a header, a paragraph, a list and a preformatted text; tokens that have nothing to do with each other in pairs of one text only |
| `Dom` | `dom.c` as far as `PieDoc` uses it | |

`MCAlgorithms` has one state per input: a kind and a word over the letters of
its kind, which grows by one letter in a step up to `MaxLen`.  The properties
say of the word of each step what the algorithms of its kind make of it, so
that all shorter words are inputs, too.  The bounds are chosen so that a case
needs no more letters: "a/../b" in an archive is six tokens, a quoted
separator with a doubled quote five characters; a date text of four parts
means nothing that three parts do not, and no pass over a document looks at
more than the text next to a token and the elements around it.

A module `X_proofs` has the theorems about `X`, `ResNode_proofs` those about
`ResNodeTree` and `ResNodeOps`, see "Proofs" below.  Since it extends both,
`ResNodeOps` names its specification `FileSpec`.

What a data value is, is abstracted: a content is a version and a length, a
name a model value with a base name and a directory, a line of structured text
its kind and its number, a text of a document a sequence of tokens for what
the regular expressions of the code match.  Bytes are bytes only in
`CxpStrings`, `PieCsv` and `CxpTransform`, where quoting and encoding depend
on them.

In the tree the program appends what it holds, a single node or a list by its
head (as `cxp_dir.c:582` and `res_node_formats.c:531` do, too).  It takes nodes
it can get at (`Known`): what hangs on a lost list is out of its reach.
`resNodeReset()` is called on nodes that the program holds.

The POSIX and Windows threads are conditional code: the default
`CMakeLists.txt` has its thread options commented out (lines 394-411), so an
ordinary build is `Library = "none"` and all nested elements are called.  The
threads are modelled from `cxp_threadp.c` as it would run when enabled.
`HAVE_CGI` is conditional, too; `CxpContext` starts in either build.

## Checks

| Run | Shows | Bounds |
|---|---|---|
| `tree` | `LinksConsistent`: the five links of all nodes agree and all loops over them end; `Owned`: no double free, and no leak but the rest of a list that is appended by its head; `OrderKept`: siblings never change places | 6 nodes, up to symmetry: a list of three with neighbours on both sides, a parent, and another tree.  All operations look at most two links away |
| `io` | `HandlesOwned`: the open streams are exactly the node's handle; `ReadWholeOrError`: what is read is the whole resource or an error is set; `SavedIsContent`: a save that reports success has written the content and nothing else, but for the cases listed below; `StatusRight`: a status tells whether the file exists until others change it, and its size until the node itself writes | contents of less than a block and of more than the limit of one block (`MaxLoop`), so that reading is cut short; four kinds of nodes |
| `ops` | `SourceKept`: copying never changes the source; `MoveLosesNothing`: moving loses neither the file moved nor a readable one in its way | four directories on two file systems, one not writable; a file of two blocks with a reading limit of one, and an unreadable file |
| `cache` | `UniqueKeys`: no entry of a list hides a later one; `SameBaseName`: only what belongs to a base name is found under it; `SavedIsFound`: what is saved is found under its name, and what is found changes to nothing but what a step saves or reads | two nested contexts in two directories, two files of the same base name and one symbol; one save (`MaxVersion`) and two entries (`MaxEntries`), both bounds in guards: enough for an entry in each list, one hiding the other |
| `context` | `TreeWhole`: each context is in one list and is freed once; `CountsExact`: errors are carried to the parent once, or not at all; `PermittedInMain`: under CGI no context may touch what the main one may not; `ReadsBack`: a file written under a relative name is the one read by it, unless, under CGI, the location of the context has one, too | three contexts, so that one may be sibling, child or grandchild; three directories, one outside the root; one error per context |
| `make` | with POSIX threads whose creation may fail: `TypeOK`, `ContextPrivate`, `ContextRooted`, fork and join (`ForkJoinSpec`), and under fairness `Terminates` | six elements three levels deep: two of them threaded, one with a nested thread in a thread, a called one with a failing command, one from an `each`, and contexts by attribute |
| `make_windows_wait` | `JoinedAll`: the same elements with the single wait of Windows end after their threads | `MaxWait` 3 for at most three threads |
| `petrinet` | `PathsSimple`: no knot twice in a path, no path twice; `Complete`: all simple paths are found and counted; marked as invalid are exactly the knots and edges on none of them and repeated edges, and filtered is what shares an id with them | three states and two transitions with any edges between two states and the transitions; ids that are missing, or the same for two states or for a state and a transition, and then two of the edges repeated; limits of length, and a table that is full after `NMax` paths.  `LoopsMax` stands for the 100000 steps after which the code gives up |
| `blocks` | `OrderKept`: the tree has the lines in their order, none twice; `NothingLost`: but for what is skipped by request, sets the origin or is beyond the limit, all of them, and nothing from behind the text but in one case; `Nested`: it is a tree, headings and items are as deep as their marks | texts of three lines of any kind, four lines with regions, five lines of headings, items and text, texts with lines behind them in memory, in three modes; a limit `iMax` of five elements, which the texts of six lines exceed |
| `imports` | `NotInItself`: the result is a tree, and no file of a kind that is looked at is expanded inside itself, but in a document that an instruction inside it has made; `AllProcessed`: in the end every import but the `Neglected` ones is a block or has an error, and what was expanded has the items of its file in their order; under fairness `Terminates`: the processing ends, or a file is expanded inside its own expansion without end and nothing that is looked at comes in between (`Endless`) | three files that include and import each other and themselves, of kinds that are looked at and of others, cached, missing and non-XML ones, the standard input, plain and make instructions; a stack of nine traversals (`MaxDepth`), which a circle fills and the longest expansion that ends does not |
| `algorithms` | ten properties, one or two per algorithm module, see below | `MaxLen` and the letters above |
| `make_create` | expected to fail, see below | as `make` |

`ForkJoinSpec` says that an instruction begins only when all before it that
are not forked are done, and that an element ends only with none of its
instructions running.  It is not a restatement of the loop: the mutants of
the calls, the joins and the waits violate it.

`MoveLosesNothing` holds for a reason that the source did not intend: a move
to another file system should copy and unlink, but marks its source with an
error first and the copy then refuses that source (`res_node_ops.c:252`,
`:110`).  The mutant `FallbackCopies` does what the message "Cant move to an
other filesystem, will copy instead" says, and then a file beyond the reading
limit is cut short and unlinked.

The properties of `algorithms`:

- `PathMeaningKept`: a normalized path or URL of any kind leads to where the
  path led, and nothing is written before it, with the exact cases where the
  code does otherwise (`MeaningKept`, listed below).  `PathPartsFit`:
  directory, base name, extension and archive can be put together again, and
  the predicates on paths do not contradict each other.
- `EncodingsReversible`: base64, quotes, doubled quotes and entities are read
  back as written, and so is RFC 1738 exactly for texts without a byte below
  16.  `TableCellsKept`: cells are split at separators outside quotes only,
  and compressing a table loses no cell.
- `DateSpansAgree`: texts that name the same years, quarters, months or weeks
  give the same days.  A period behind a date ends on the day before the one
  that the same offset leads to; where a period before a date begins is
  stated exactly, and so is its day in a repetition (see below).
  `DateEntriesPlaced`: every day of an entry has its node in the calendar,
  even beside entries of other years.
- `RequestsKept`: every argument is read, applied or written in its order, and
  a request is answered once; values of the environment, of arguments and of
  parameters are found by name.
- `InstructionsKept`: a substitution changes what is behind it only, a loop
  makes every copy with its value, stylesheets are applied in their order or
  there is no result, and includes are expanded in place.
- `DocumentTextSaid`: what the text of a document says is in the result, once,
  in its order, but for what its marks take out, and what is lost behind an
  inline markup that begins the text.  `DocumentSettles`: a third pass changes
  nothing (the second may still split what the first has made), tags are
  counted right, filters keep what matches, pruning keeps the rest, and edits
  of trees put nodes where they are told to.

Every property of a passing run has a mutant of the code (an operator of the
module, next to the one it replaces) under which the run violates it.

Deadlock is not checked where the system really stops: a program that has
exited (`context`), a search or an expansion that has ended (`petrinet`,
`imports`), a text that is read (`blocks`), a word at its bound
(`algorithms`).

Fairness is assumed in `CxpMake`: weak fairness of each element's next step.
Threads are scheduled by the operating system, and a called element runs in
the thread of its caller.  It assumes that a single instruction ends, which a
command started by `<system exec>` need not.  In `PieImport` it is weak
fairness of the one traversal, which is a single call.

## Where code and comments disagree

`make_create` shows one as a run: `cxp.c:1832` says "simple recursive call if
no threads are available", but the result of the creation is ignored at
`:1829` and the element is dropped.  The models were written to what the code
does; the following were met on the way, and the properties are stated so that
they hold of the code.

Files, nodes and contexts:

- `resNodeAddSibling()`, said to append "a resource node list as siblings"
  (`res_node.c:751`), unlinks the head and appends it alone (`:786`).  The
  rest of the list stays without an owner, also where the program itself
  appends a list (`cxp_dir.c:580-582`, `res_node_formats.c:531`); `Owned`
  counts these lists (`lost`) and no other.  Releasing a directory while a
  database is filled frees its first child only (`cxp_database.c:378`).
- Files of one base name share a cache entry (`cxp_context_cache.c:257`).  A
  DOM saved over a cached text leaves the old text to be found
  (`cxp_context.c:291`); a text saved or read where a DOM was leaves no DOM or
  the old one; an entry of a nearer context hides what is saved in one
  further up (`cxp_context_cache.c:97`).  `SavedIsFound` says when.
- An empty content is saved with the size of the file as the status knows it
  (`resNodeGetSize()`, `res_node.c:3864`), so that as many bytes of something
  are written; a second save after a failed one appends to what that has
  written; `resNodeListPut()` ignores the result of closing.  The size in a
  status is not renewed after a write of the node itself.
- Under CGI a file is written beside the document, or below the root, but read
  from the location of the context first, where another may be.
- `WaitForMultipleObjects()` fails for more than 64 handles
  (`cxp_threadp.c:217`) and the threads are then not joined.
- A copy whose source cannot be read, a failed `rename()` and a failed
  `rmdir()` report success (`res_node_ops.c:276`, `:263`, `:566`).
- Errors logged in the context of a `make` element do not reach the exit code
  (`cxp.c:1742`).
- `resNodeOpen()` of an open node sets the new mode and keeps the old handle
  (`res_node_io.c:103`); reading stops after 1024 blocks and reports success;
  `resNodeConcat()` always returns FALSE.
- Normalizing a path twice may change it again; the root name is wrong when
  the text of the extension occurs before (`res_path.c:1178`); a name of one
  character has no base name (`:1133`).
- Collapsing "/../a" writes one byte before the buffer (`res_path.c:1794`),
  and so does every first step up from the root that no other one follows.
  A "." behind a step up that is kept is a name that the next step up takes
  back ("a/.././../b"); dots at the end of the last name are cut, those of a
  ".." too; a step up leaves the host and the protocol of an URL
  ("http://a/../../b" becomes "b"), and dots behind "file://" are a name.
  "/.//a" becomes "//a", a name in the network (`:1643`).

Requests and instructions:

- A byte below 16 is encoded with one hexadecimal digit, which cannot be
  decoded (`utils.c:1562`).
- The branches for archives and databases test a name but not whether it
  exists: `test.db3 'SELECT ...'` and `test.db3 a.xsl` write the database;
  stylesheets are then packed and applied (`cxp_context_cli.c:795`, `:871`).
- A missing CGI path is answered with a 404 and an empty page
  (`cxp_context_cgi.c:433`, `:557`); `xpath` is never added to the make
  element (`:466`); a redirection to a file that is found but not permitted is
  searched for again without end (`:232`).
- A substitution directly followed by a text does nothing
  (`cxp_subst.c:987`); `each` replaces later siblings repeatedly
  (`cxp.c:302`); a direct `<xml>` child of a literal document is processed and
  not copied (`:1166`); `<subst>` as first child of `<xml>` is taken for its
  source (`:1333`); siblings of an include are visited repeatedly and circles
  are not detected (`cxp_subst.c:222`).

Texts, dates and nets:

- The search of a petri net leaves out its start by its number ("no circles
  are allowed here", `petrinet.c:1428-1460`); another state with the id of
  the start is not left out, so a circle is searched for after all.
- A path shorter than the minimum is reported when the search comes to it
  forward (`petrinet.c:1182`, against `:123`).
- Of an edge that is repeated only the first element is ever looked at
  (`petrinet.c:803`, `:1345`): the others are taken for unused although a path
  goes along the edge.  The filter names knots by their id (`:1523`, `:1537`,
  `:1556`), so it removes every knot that shares the id of an unused one, and
  the first element of a repeated edge with the others.
- Circles of imports are looked for in files of the types plain text and pie
  only (`pie_text_blocks.c:792`): a Markdown or XML file, a cached one
  ("circular check for cache too", `pie_text.c:812`) or a document made by an
  instruction that imports itself is imported without end.  `NotInItself` and
  `Terminates` name these cases.
- A `make` instruction that makes no document stays in the text without an
  error (`pie_text.c:621-715`).
- A parser that reads single lines reads on behind the text when only empty
  lines are left (`pie_element.c:717-723`); behind 512*1024 elements the rest
  of a text is dropped without a message (`pie_text_blocks.c:602`, `:614`); of
  several origins the last one replaces the others.
- A period of months or days before a date begins the day before the one that
  leads to it, `P1M/20240131` on December 30 (`calendar_element.c:843-853`
  against `:707-711`), in a repetition of days a day later than alone.
- An inline markup at the beginning of a text loses all that is behind it
  (`pie_text_blocks.c:2120-2127`).
- A text that is read from the standard input is attached as it is: its
  includes and imports are not processed (`pie_text.c:765`), as they are in a
  file, in a cached document (`:1610`) or in a document in XML from the
  standard input (`:756`), which is an expansion of its own and not modelled.
- The import of an empty document that is found in the cache keeps its element
  without an error (`pie_text.c:1606`), and no file is tried instead.
- Cleaning a text keeps a blank behind a leading line break (`utils.c:1018`).
- The date format `%D` is never replaced.
- A weight is never more than one (`pie_text.c:1869`); "#subst" in a paragraph
  of one text replaces all of it (`pie_text_blocks.c:2268`); preformatted text
  ending with a cross is removed (`:1760`); a list of dates keeps its first
  date and a comma (`:1687`).

## Proofs

TLC checks the instances above; what follows TLAPS proves for every value of
the constants.  Each property holds of the states that one invariant
describes, which is proved to be inductive and which says more than the
property: what follows says what more, and why.

- `ResNode_proofs`, the tree: `Typing`, `Consistency`, `Ordering` and
  `Ownership`, whatever is appended.  `LinksConsistent` is not inductive by
  itself: an operation takes any node that the program holds, so the invariant
  must say that what is held is the head of a list, that a head not held was
  lost as the rest of an appended list (`Owned`), and that a freed node keeps
  no links, so that a node allocated again starts clean.  The lemmas follow the
  link functions: what each loop visits, that a set which nothing links to can
  be released, that each function keeps a heap good and how it changes the set
  of heads.  `Ordering` is an action property: each function only links the
  end of a list, or takes one node or the whole list away.
- `ResNodeIO_proofs`: `Handles`, `Saves`, `StatusStaysRight` and
  `WholeOrError`, for any contents, block sizes and limits.  A call of the
  model is the set of its outcomes, so there is one lemma per call, that the
  outcomes of a good state are good, and calls made of others cite the lemmas
  of those.  The invariant adds how the access of a node, its kind and the
  file behind its handle go together: without it closing could be shown to
  close a handle of another kind.  It also says that a content keeps its size
  through exchanges and reads (`Sized`), which is what a save writes, and that
  each outcome leaves a status as right as it was (`Right`), existence and
  size.  `Saves` then follows the outcomes of a save from any such state.
- `ResNode_proofs`, the operations on files: `CopyKeepsSource`,
  `MoveKeepsContents` and, as the invariant they need, `Placement`: files are
  in directories that exist.  Any system call may fail.
- `CxpCache_proofs`: `Unique`, `BaseNames` and `SavesFound`, for any chain of
  contexts, files and names.  All that instructions do to the lists is done in
  steps of two kinds: an entry that is found by its name gets another content,
  or one of a name that is not found is appended.  Of each function it is
  proved that what is found under a name afterwards is what was found before
  or what the function was given (`Alters`), and of the saving ones that it is
  found in all contexts where no nearer entry hides it.  The invariant adds
  that an entry has an alias or a path but not both, and that what the disk
  holds was stored under its base name, since reading fills the cache from
  there.
- `CxpMake_proofs`: `Typing`, `Privacy` and `Rooting` for any finite set of
  nested elements and any library, and under `WaitSuffices` `Joining` and
  `Implementation`, the refinement of `CxpForkJoin` step by step.  The
  invariant of the last two says that instructions ahead of the current one
  are untouched together with all below them, that those behind are done or in
  the pool, that an active element is either the one called or has a handle
  that is not joined, and that pools hold only what was passed.  `Privacy`
  needs that elements ahead are not started and that a context for a thread
  belongs to one element (`ContextInv`); `Rooting` that contexts not yet made
  have no parent, and distances from the main context, so that the way over
  the parents ends (`RootedInv`).  Both hold with the faults of `make_create`
  and of the Windows wait, too.
- `CxpContext_proofs`: `Confinement`, `Rereading`, `Counting` and
  `Wholeness`, for any number of contexts and any directories.  The invariant
  is `Typed /\ Tree /\ Nested /\ Values /\ Counts`.  `Tree` says that every
  context but the main one is linked from exactly one other, and that contexts
  can be numbered so that all links lead to later ones (`Births`), which ends
  the walks over siblings and ancestors and makes the release meet each once.
  `Rereading` follows the candidates of both resolutions, of either build.
  `Nested`, that the parent of an open context is open, is what keeps a count
  that was carried over from changing afterwards.
- `Petrinet_proofs`: `Simple` and `Exhaustion`, for any net.  The invariant
  orders paths by the index of the knot where they part: a path that was
  reported is before the one being built, which gives that none is reported
  twice; and every simple path to the target that is before the one being
  built was reported (`Exhaustive`), which gives completeness once there is
  no branch to go back to.  `Aims` and `Marks` carry this over the targets of
  a `pathnet` to the marks: marked are exactly the knots on some path, and of
  each edge of a path its first element (`Exact`).  What the copy and the
  filter make of the other marks follows from how ids and repeated elements
  are looked up.
- `PieBlocks_proofs`: `Ordering`, `Lossless` and `Nesting`, for any text in
  any mode.  The invariant says that the tree is whole, that the section of
  the last header is on the chain of last children from the root (`Spine`),
  that every node has its depth (`Deep`), that the lines in the tree ascend
  and are behind the position (`Placing`), and that each line read is in the
  tree or is one of the exceptions (`Ledger`).  It counts the elements up to
  `iMax`, says that below it nothing is left at the end (`Finished`), and that
  the position gets behind the text only over empty lines (`Beyond`).  All
  places that `GetParentElement()` finds are on such a chain, so what is
  appended there comes last; the lemmas say what a node added on a chain does
  to the lines, ancestors and depths of all others.
- `PieImport_proofs`: `NeverInItself` and `Processed`, for any files, contents
  and documents in the cache.  The invariant says that parents are older than
  their children and that child lists and parents agree (`Tree`), that no
  element has the context of one around it if its kind is looked at, unless
  an element made by an instruction is between them (`Apart`), that each block
  has the items of its file in their order, however many nodes its includes
  have put between them (`HasItems`), that a traversal is over children of one
  node (`Frames`), and that an import without block or error is ahead of one
  or `Neglected` (`Waits`), so that none is left when all have returned.  It
  is inductive because a context is only set on an element that has no
  children yet: what is around an element never changes its context.  Files of
  kinds that are not looked at may be expanded inside themselves, and then
  their blocks have the items of the inner one, too; that each item is there
  once, `HasItems` says of the kinds that are looked at.

The definitions of trees, walks and sums by recursion over a finite set are
used in these proofs by their defining equation only.  That such a function
exists, that a walk ends, or that a set of numbers has a least element is
proved by well-founded order where it is needed.

The theorems assume what the modules say of their constants, which TLC
evaluates for the instances:

| Assumption | Says | Because |
|---|---|---|
| `NodeAssumption`, `NullAssumption`, `NoneAssumption`, `KnotAssumption` and the parts about `None` of `CtxAssumption` and `LimitAssumption` of `Petrinet` | no node, name, element, context, content or knot is a null pointer, nor `ERROR_INDEX` a length | pointers and indexes in the code are tested against these |
| `MakeAssumption` | finitely many elements, each instruction at one place of one element, nested below the top | the elements are a DOM tree |
| `LibraryAssumption` | one of the three builds of `cxp_threadp.c` | conditional compilation |
| `WaitSuffices` | a hypothesis of two theorems, not of the model: POSIX threads or none, or a Windows wait that gets valid handles and no more than it can wait for | else the elements are not joined (`cxp_threadp.c:217`) |
| `ChainAssumption`, `InitialAssumption` of `CxpCache` | a context comes first in the chain of its ancestors, which goes on with their chains; finitely many files, with a version each | contexts are linked by their parent |
| `CtxAssumption`, `DirAssumption`, `BoundAssumption` of `CxpContext` | the main context is one; the directories named are directories, each within itself; log levels are numbers | |
| `KindAssumption`, `SizeAssumption`, `ContentAssumption` of `ResNodeIO`, `InitialAssumption`, `LockedAssumption`, `MaxLoopAssumption` of `ResNodeOps` | contents have a size, limits are not zero | `sizeof()` and the macro `MAX_LOOP` |
| `DocAssumption`, `LimitAssumption`, `BoundAssumption` of `Petrinet` | a net has a number of states and transitions, limits are numbers or none | |
| `RootAssumption`, `InputAssumption`, `DepthAssumption` of `PieImport` | the document is a file; contents are sequences of items; what an element can have in place of a file, and "no name", are no files; the stack has a size | |
| `TextAssumption`, `LimitAssumption` of `PieBlocks` | what is in memory is a sequence of lines, of which the text is a beginning; a limit is a number; and a line known by its marks has some | `pieElementParse()` decides by the first mark and then counts them (`pie_element.c:817-852`) |

Only model-checked:

- `Terminates` of `CxpMake` and `PieImport`: liveness under fairness is beyond
  the prover.
- The algorithms of `MCAlgorithms`, which are recursions over data: induction
  over them is beyond the prover, and a module with a `RECURSIVE` operator
  cannot be proved about at all.


## Not modelled, and why

- Two threads in the cache at a time.  The lists have no lock
  (`res_node.c:753`); `CxpCache` takes each lookup and append as one step.
- Several nodes on one file at a time; `ResNodeOps` takes each operation as
  one step, `ResNodeIO` one call.
- Standard input and output, URLs, members of archives, symbolic links and
  nested directories as source or target of file operations.
- Archives, directory listings, output formats: traversals over the tree that
  format or call libarchive; what they release is in `ResNodeTree`.
- The export of petri nets to dot and svg, of calendars to columns, sunrise
  and coordinates; time zones only move the seconds of a date.
- The regular expressions of structured text and of substitutions: what they
  match is an input (kinds of lines and tokens), or a single letter.
- MIME types, properties, EXIF, vCard, iCalendar, JSON and audio formats:
  tables and conversions without state.
- Formatting, wording of messages, character sets, and the third-party
  libraries (libxml2, libxslt, SQLite, libarchive, PCRE2, cmark, duktape).
- The small programs and the test driver.

## Plan

1. Lookups and appends of several threads in the cache step by step, with the
   elements of `CxpMake` as clients.
2. The tree made of the members of an archive in any order.
