----------------------------- MODULE CxpContext -----------------------------
(* Processing contexts (cxp_context.c): the tree of contexts that one run of  *)
(* the program builds, what a context inherits from its ancestors, which      *)
(* locators it may touch and how a locator is found, and the count of errors  *)
(* that ends as the exit code.                                                *)
(*                                                                            *)
(* A locator is a directory of Dirs together with the one file name asked     *)
(* for; Below[d] is the set of directories at or below d.                     *)
EXTENDS Integers, Sequences, FiniteSets

CONSTANTS
    Ctxs,        \* contexts that can be allocated
    Main,        \* the context of main()
    None,        \* NULL
    Dirs,        \* directories of the file system
    Below,       \* Dirs -> SUBSET Dirs
    Root,        \* directory of the environment variable DOCUMENT_ROOT
    Cwd,         \* the current working directory of the process
    Locs,        \* directories that attributes name
    Searches,    \* search lists that attributes and the environment name
    Levels,      \* log levels that attributes ask for
    MaxErrors    \* bound on the errors of one context

ASSUME CtxAssumption == Main \in Ctxs /\ None \notin Ctxs /\ None \notin Dirs /\ None \notin Levels
ASSUME DirAssumption ==
    /\ {Root, Cwd} \cup Locs \subseteq Dirs /\ Searches \subseteq Seq(Dirs)
    /\ Below \in [Dirs -> SUBSET Dirs] /\ \A d \in Dirs : d \in Below[d]
ASSUME BoundAssumption == Levels \subseteq Int /\ MaxErrors \in Nat

VARIABLES
    cgi,     \* the build: HAVE_CGI or not
    ctx,     \* Ctxs -> context record
    file,    \* the directories that hold a readable file of the name asked for
    freed,   \* how often the memory of each context was released
    exit     \* the exit code of the program, None while it runs

vars == <<cgi, ctx, file, freed, exit>>

-----------------------------------------------------------------------------
(* A context: links of the tree, own values (None, -1 or <<>> when it has     *)
(* none) and error count. "use" names the caller that made it: "eval" stands  *)
(* for the elements that keep the errors of their context, "pie" for archives *)
(* and structured text, which pass them on. "own" are the errors logged in    *)
(* this very context, kept to compare with the count.                         *)

Uses == {"unused", "main", "make", "eval", "thread", "pie", "import"}

Blank ==
    [use |-> "unused", parent |-> None, next |-> None, child |-> None,
     loc |-> None, root |-> None, search |-> <<>>, level |-> -1,
     open |-> FALSE, count |-> 0, own |-> 0]

New(use) == [Blank EXCEPT !.use = use, !.open = TRUE]

Used == {c \in Ctxs : ctx[c].use # "unused"}

\* There is a context to allocate, and which one it is
Fresh == Ctxs # Used
Alloc == CHOOSE c \in Ctxs \ Used : TRUE

\* Contexts from c up to the main context
Up[c \in Ctxs] == IF ctx[c].parent = None THEN <<c>> ELSE <<c>> \o Up[ctx[c].parent]

\* First of the contexts up from c whose own value satisfies Has
Nearest(c, Has(_)) ==
    LET hits == {i \in 1..Len(Up[c]) : Has(Up[c][i])}
    IN  IF hits = {} THEN None ELSE Up[c][CHOOSE i \in hits : \A j \in hits : i <= j]

LocationGet(c) ==
    LET n == Nearest(c, LAMBDA x : ctx[x].loc # None) IN IF n = None THEN None ELSE ctx[n].loc

RootGet(c) ==
    LET n == Nearest(c, LAMBDA x : ctx[x].root # None) IN IF n = None THEN None ELSE ctx[n].root

SearchGet(c) ==
    LET n == Nearest(c, LAMBDA x : ctx[x].search # <<>>) IN IF n = None THEN <<>> ELSE ctx[n].search

LevelGet(c) ==
    LET n == Nearest(c, LAMBDA x : ctx[x].level > -1) IN IF n = None THEN -1 ELSE ctx[n].level

LevelMax == 4

\* The level that cxpCtxtLogSetLevel() leaves behind for the argument l
LevelSet(l) == IF l > LevelMax THEN LevelMax ELSE IF l > 0 THEN l ELSE 0

-----------------------------------------------------------------------------
(* Links *)

Siblings[c \in Ctxs] == IF ctx[c].next = None THEN <<c>> ELSE <<c>> \o Siblings[ctx[c].next]

Children(p) == IF ctx[p].child = None THEN <<>> ELSE Siblings[ctx[p].child]

\* A fault: the list of children is replaced
AddChildFirst(p, c, rec) == [ctx EXCEPT ![c] = [rec EXCEPT !.parent = p], ![p].child = c]

\* The contexts after c is added behind the last child of p; rec is c's record
AddChild(p, c, rec) ==
    LET list  == Children(p)
        added == [ctx EXCEPT ![c] = [rec EXCEPT !.parent = p]]
    IN  IF list = <<>> THEN [added EXCEPT ![p].child = c]
        ELSE [added EXCEPT ![list[Len(list)]].next = c]

-----------------------------------------------------------------------------
(* Access and resolution *)

\* Is the directory d permitted in c? Without a root a build for the command
\* line permits everything.
AccessIsPermitted(c, d) ==
    \/ RootGet(c) # None /\ d \in Below[RootGet(c)]
    \/ RootGet(c) = None /\ ~cgi
    \/ \E i \in 1..Len(Up[c]) : \E s \in {SearchGet(Up[c][i])[k] : k \in 1..Len(SearchGet(Up[c][i]))} :
          d \in Below[s]

\* First directory of the search lists up from c below which the file is found
SearchFind(c) ==
    LET lists[i \in 0..Len(Up[c])] == IF i = 0 THEN <<>> ELSE lists[i - 1] \o ctx[Up[c][i]].search
        all   == lists[Len(Up[c])]
        hits  == {k \in 1..Len(all) : Below[all[k]] \cap file # {}}
    IN  IF hits = {} THEN None
        ELSE CHOOSE d \in Below[all[CHOOSE k \in hits : \A j \in hits : k <= j]] \cap file : TRUE

\* A fault: the directory of the document comes first
CandidatesUrlFirst(c, urlDir, search) ==
    <<urlDir, LocationGet(c), RootGet(c), IF search THEN SearchFind(c) ELSE None>>

\* The directories that reading tries in turn, None for one that is not there;
\* urlDir is that of the XML document
Candidates(c, urlDir, search) ==
    <<LocationGet(c), urlDir, RootGet(c), IF search THEN SearchFind(c) ELSE None>>

\* The file a reading instruction gets, None if there is none
ResolveRead(c, urlDir, search) ==
    LET tried == Candidates(c, urlDir, search)
        hits  == {i \in DOMAIN tried : tried[i] \in file}
        first == tried[CHOOSE i \in hits : \A j \in hits : i <= j]
    IN  IF hits = {} \/ ~AccessIsPermitted(c, first) THEN None ELSE first

\* The directory that a writing instruction writes to
ResolveWrite(c, urlDir) ==
    IF ~cgi THEN LocationGet(c)
    ELSE IF urlDir # None THEN urlDir
    ELSE IF RootGet(c) # None THEN RootGet(c) ELSE Cwd

-----------------------------------------------------------------------------
(* Operations. Every one needs the program to run still and the context it    *)
(* works for to be open, that is, its element is being processed.             *)

Running(c) == exit = None /\ ctx[c].open

\* A fault: a search path is taken in a build for CGI, too
FromAttrSearching(p, use, loc, level, search) ==
    /\ Running(p)
    /\ ctx' = [ctx EXCEPT ![p].search = search]
    /\ UNCHANGED <<cgi, file, freed, exit>>

\* cxpCtxtFromAttr(): a context of its own for an element with another
\* location or log level; a search path goes to the context p it was given.
\* A make element without a directory is at the working directory. A build for
\* CGI asks for no context for make elements.
FromAttr(p, use, loc, level, search) ==
    LET newLoc   == loc # None /\ loc # LocationGet(p)
        newLevel == level # None /\ level # LevelGet(p)
        parent   == IF cgi \/ search = <<>> THEN ctx[p] ELSE [ctx[p] EXCEPT !.search = search]
        rec      == [New(use) EXCEPT !.loc = IF newLoc THEN loc ELSE None,
                                     !.level = IF newLevel THEN LevelSet(level) ELSE -1]
    IN  /\ Running(p)
        /\ use = "make" => ~cgi /\ loc # None
        /\ IF newLoc \/ newLevel
           THEN /\ Fresh
                /\ ctx' = [AddChild(p, Alloc, rec) EXCEPT ![p].search = parent.search]
           ELSE ctx' = [ctx EXCEPT ![p] = parent]
        /\ UNCHANGED <<cgi, file, freed, exit>>

\* cxpCtxtDup() and cxpCtxtAddChild() for a thread. cxpCtxtRootSet() asks the
\* environment of the copy, which is still empty, and contexts of the command
\* line have no root to copy: the copy gets no root of its own.
Thread(p) ==
    LET rec == [New("thread") EXCEPT !.loc = LocationGet(p),
                                     !.search = SearchGet(p),
                                     !.level = LevelSet(LevelGet(p))]
    IN  /\ Running(p)
        /\ Fresh
        /\ ctx' = AddChild(p, Alloc, rec)
        /\ UNCHANGED <<cgi, file, freed, exit>>

\* Import or inclusion of a text file: always a new context at its directory
Import(p, dir) ==
    /\ Running(p)
    /\ Fresh
    /\ ctx' = AddChild(p, Alloc, [New("import") EXCEPT !.loc = dir, !.level = LevelSet(2)])
    /\ UNCHANGED <<cgi, file, freed, exit>>

\* A file is written, if that is permitted
Save(c, urlDir) ==
    /\ Running(c)
    /\ AccessIsPermitted(c, ResolveWrite(c, urlDir))
    /\ file' = file \cup {ResolveWrite(c, urlDir)}
    /\ UNCHANGED <<cgi, ctx, freed, exit>>

\* A message of level 0 or below
LogError(c) ==
    /\ Running(c)
    /\ ctx[c].own < MaxErrors
    /\ ctx' = [ctx EXCEPT ![c].count = @ + 1, ![c].own = @ + 1]
    /\ UNCHANGED <<cgi, file, freed, exit>>

\* The element of a context is done. Archives and structured text add the
\* errors to those of the context they came from.
Propagating == {"pie"}

\* A fault: the errors that a context got from others are not passed on
LeaveOwn(c) ==
    /\ Running(c) /\ c # Main
    /\ \A d \in Used : ctx[d].parent = c => ~ctx[d].open
    /\ ctx' = LET more == IF ctx[c].use \in Propagating THEN ctx[c].own ELSE 0
              IN  [ctx EXCEPT ![c].open = FALSE, ![ctx[c].parent].count = @ + more]
    /\ UNCHANGED <<cgi, file, freed, exit>>

Leave(c) ==
    /\ Running(c) /\ c # Main
    /\ \A d \in Used : ctx[d].parent = c => ~ctx[d].open
    /\ ctx' = LET p    == ctx[c].parent
                  more == IF ctx[c].use \in Propagating THEN ctx[c].count ELSE 0
              IN  [ctx EXCEPT ![c].open = FALSE, ![p].count = @ + more]
    /\ UNCHANGED <<cgi, file, freed, exit>>

\* cxpCtxtFree(): siblings first, then children, then the context itself
FreeTree[c \in Ctxs] ==
    (IF ctx[c].next = None THEN <<>> ELSE FreeTree[ctx[c].next])
    \o (IF ctx[c].child = None THEN <<>> ELSE FreeTree[ctx[c].child]) \o <<c>>

\* The end of main(); a process keeps the low byte of its exit code
Exit ==
    /\ Running(Main)
    /\ \A d \in Used \ {Main} : ~ctx[d].open
    /\ exit' = ctx[Main].count % 256
    /\ freed' = [c \in Ctxs |-> Cardinality({i \in 1..Len(FreeTree[Main]) : FreeTree[Main][i] = c})]
    /\ UNCHANGED <<cgi, ctx, file>>

\* cxpCtxtCliNew() and cxpCtxtCgiNew()
Init ==
    /\ cgi \in BOOLEAN
    /\ \E path \in Searches :
          ctx = [c \in Ctxs |->
                    IF c # Main THEN Blank
                    ELSE [New("main") EXCEPT !.loc = IF cgi THEN Root ELSE Cwd,
                                             !.root = IF cgi THEN Root ELSE None,
                                             !.search = path, !.level = 1]]
    /\ file = {}
    /\ freed = [c \in Ctxs |-> 0]
    /\ exit = None

Next ==
    \/ \E p \in Used, use \in {"make", "eval", "pie"} :
          \E loc \in Locs \cup {None}, level \in Levels \cup {None}, search \in Searches :
             FromAttr(p, use, loc, level, search)
    \/ \E p \in Used : Thread(p) \/ \E dir \in Locs : Import(p, dir)
    \/ \E c \in Used : LogError(c) \/ Leave(c) \/ \E dir \in Locs \cup {None} : Save(c, dir)
    \/ Exit

Spec == Init /\ [][Next]_vars

-----------------------------------------------------------------------------
(* Properties *)

\* A context is in the list of its parent and of no other context, so that at
\* the end of main() each allocated one is released, and once only.
TreeWhole ==
    /\ \A c \in Used \ {Main} : \E p \in Used :
          /\ ctx[c].parent = p
          /\ \E i \in 1..Len(Children(p)) : Children(p)[i] = c
    /\ exit # None => \A c \in Ctxs : freed[c] = IF c \in Used THEN 1 ELSE 0

\* Errors are counted where they are logged and carried over to the parent by
\* archives and structured text alone, each once, however contexts nest.
CountsExact ==
    \A c \in Used :
        LET carried == {d \in Used : ctx[d].parent = c /\ ~ctx[d].open /\ ctx[d].use \in Propagating}
            sum[S \in SUBSET carried] ==
                IF S = {} THEN 0
                ELSE LET d == CHOOSE x \in S : TRUE IN ctx[d].count + sum[S \ {d}]
        IN  ctx[c].count = ctx[c].own + sum[carried]

\* With CGI no context that elements, threads or imports make may touch a
\* directory that the main context may not.
PermittedInMain ==
    cgi => \A c \in Used, d \in Dirs : AccessIsPermitted(c, d) => AccessIsPermitted(Main, d)

\* A file that an instruction has written under a relative name is the one that
\* reading by the same name gets in the same context, whatever the search lists
\* hold. With CGI a file is written beside the document, or else below the root,
\* but read from the location first: a file there comes before the one written,
\* and is refused if it is not permitted.
ReadsBack ==
    \A c \in Used, u \in Locs \cup {None} :
        LET w == ResolveWrite(c, u)
            at == LocationGet(c)
        IN  w \in file /\ AccessIsPermitted(c, w) =>
                ResolveRead(c, u, TRUE) =
                    IF ~cgi \/ at \notin file \ {w} THEN w
                    ELSE IF AccessIsPermitted(c, at) THEN at ELSE None

=============================================================================
