----------------------------- MODULE CxpRequest -----------------------------
(* What the program is asked to do: cxpCtxtCliParse() turns the arguments of  *)
(* the command line, and cxpCtxtCgiParse() the parameters of an HTTP request, *)
(* into the make instructions that the interpreter processes.                 *)
(*                                                                            *)
(* An argument of the command line is a record:                               *)
(*   opt    the option it is, "" for every other argument                     *)
(*   is     what lstat() finds: "dir", "file", "link" or "none"; "url" for a  *)
(*          URL, "search" for a file found in the search path only            *)
(*   slash  the number of separators at its end: 0, 1 or 2 ("dir//")          *)
(*   type   "year" for a number above 1900, "sql" for a statement, "empty",   *)
(*          or the MIME type its extension gives                              *)
(*   method the output method of a stylesheet, "broken" if it cannot be read  *)
(* Members of archives are left out.                                          *)
EXTENDS Integers, Sequences, FiniteSetsExt

None == "none"

\* An instruction: its element, where it writes, the attributes that control
\* it, what it reads and the stylesheets it applies, as positions of arguments
Do(is, to, with, read, xsl) == [is |-> is, to |-> to, with |-> with, read |-> read, xsl |-> xsl]

Read(at, as, deep) == [at |-> at, as |-> as, deep |-> deep]

\* The positions i..Len(args) for which Test holds, in order
Where(args, i, Test(_)) == SelectSeq([k \in 1..Len(args) |-> k], LAMBDA k : k >= i /\ Test(args[k]))

Each(at, Made(_)) == [k \in 1..Len(at) |-> Made(at[k])]

-----------------------------------------------------------------------------
(* What a node made from an argument is.                                      *)

\* resNodeIsDir() after the status was read: a name that ends in a separator
\* is a directory even if nothing or a file is there
IsDir(a) == a.is = "dir" \/ (a.slash > 0 /\ a.is \in {"file", "none", "search"})

\* resNodeIsFile() after the status was read: every other name is a file
IsFile(a) == a.is \in {"file", "none", "search"} /\ a.slash = 0 /\ a.type # "empty"

IsExist(a) == a.is \in {"dir", "file", "link"}

\* The same without a status: the name alone decides
NamedDir(a) == a.is # "url" /\ a.slash > 0
NamedFile(a) == a.is # "url" /\ a.slash = 0 /\ a.type # "empty"

\* resPathCutTrailingChars() of a recursive path takes all separators away
Cut(a) == IF a.slash = 2 THEN [a EXCEPT !.slash = 0] ELSE a

IsOption(a) == a.opt # ""

-----------------------------------------------------------------------------
(* cxpCtxtCliAddXsl(): every argument that names a stylesheet is one to       *)
(* apply, until one produces text or names no output method.                  *)

IsStylesheet(a) == a.type = "xsl" /\ a.is \in {"file", "search", "url"} /\ a.slash = 0

Stops(a) == a.method \in {"none", "text"}

\* A fault: a stylesheet that produces text does not end the list
StylesheetsAll(args) == Where(args, 1, IsStylesheet)

Stylesheets(args) ==
    LET all  == Where(args, 1, IsStylesheet)
        stop == {i \in 1..Len(all) : Stops(args[all[i]])}
    IN  IF stop = {} THEN all ELSE SubSeq(all, 1, Min(stop))

\* The parent becomes the element of the output
Output(args, is) ==
    LET used == Stylesheets(args)
        by   == {args[used[i]].method : i \in 1..Len(used)}
    IN  IF "text" \in by THEN "plain" ELSE IF "html" \in by THEN "xhtml" ELSE is

AddXsl(args, do) == [do EXCEPT !.is = Output(args, do.is), !.xsl = Stylesheets(args)]

\* Where the result goes when none is named
Out(with, read) == Do("xml", "-", with, read, <<>>)

-----------------------------------------------------------------------------
(* The options.                                                               *)

Help(args) ==
    IF Len(args) > 1 /\ args[2].type = "cxp"
    THEN <<Out({"xpath"}, <<Read(2, "cxp", FALSE)>>)>> ELSE <<>>

Years(args, j) == Where(args, j, LAMBDA a : a.type = "year")

\* All years make one calendar; a pause is asked for behind it
CalendarOf(args, j, pause) ==
    <<AddXsl(args, Out({}, Each(Years(args, j), LAMBDA k : Read(k, "year", FALSE))))>>
      \o (IF pause THEN <<Do("system", None, {"pause"}, <<>>, <<>>)>> ELSE <<>>)

Literal(args, j) ==
    IF Len(args) > j /\ args[j + 1].type = "other" THEN <<Do("literal", None, {}, <<Read(j + 1, "xml", FALSE)>>, <<>>)>>
    ELSE <<>>

\* "dirs" stands for the directories of the search lists
Search(args, j) ==
    IF Len(args) <= j THEN <<>>
    ELSE IF args[j + 1].type = "empty" THEN <<Do("plain", "-", {}, <<>>, <<>>)>>
    ELSE <<Do("plain", "-", IF Len(args) = j + 1 THEN {"imatch", "dirs"} ELSE {"imatch"},
              Each(Where(args, j + 2, LAMBDA a : a.type # "empty"), LAMBDA k : Read(k, "dir", TRUE)), <<>>)>>

Includes(args, j) ==
    Each(Where(args, j + 1, LAMBDA a : a.type # "empty"),
         LAMBDA k : Do("include", None, {}, <<Read(k, "include", FALSE)>>, <<>>))

Validations(args, j) ==
    Each(Where(args, j + 1, LAMBDA a : a.type = "cxp"),
         LAMBDA k : Do("xml", None, IF IsExist(args[k]) THEN {"noeval"} ELSE {"noeval", "search"},
                       <<Read(k, "cxp", FALSE)>>, <<>>))

-----------------------------------------------------------------------------
(* The first argument that is no option names what is asked for.              *)

ListingOf(args, j) ==
    AddXsl(args, Out({"verbosity"}, Each(Where(args, j, IsDir), LAMBDA k : Read(k, "dir", args[k].slash = 2))))

Interpreted(args, j) ==
    Do("xml", None, IF IsFile(args[j]) /\ IsExist(args[j]) THEN {"eval"} ELSE {"eval", "search"},
       <<Read(j, "cxp", FALSE)>>, <<>>)

Structured(args, j) ==
    AddXsl(args, Out(IF IsFile(args[j]) /\ IsExist(args[j]) THEN {"pie"} ELSE {"pie", "search"},
                     <<Read(j, "import", FALSE)>>))

\* What is written to an archive or a database: the type tested to leave out
\* stylesheets is that of the archive, so none is left out
Stored(args, j) ==
    Each(Where(args, j + 1, LAMBDA a : NamedFile(Cut(a)) \/ NamedDir(Cut(a))),
         LAMBDA k : Read(k, IF NamedDir(Cut(args[k])) THEN "dir" ELSE "file",
                         args[k].slash = 2 /\ NamedDir(Cut(args[k]))))

Archive(args, j) ==
    IF Len(args) = j THEN <<Out({"verbosity"}, <<Read(j, "file", FALSE)>>)>>
    ELSE IF NamedDir(args[j + 1]) \/ NamedFile(args[j + 1])
    THEN <<[Do("zip", j, {"append", "write"}, Stored(args, j), Stylesheets(args)) EXCEPT !.with = @ \cup {Output(args, "xml")}]>>
    ELSE <<>>

Database(args, j) ==
    IF Len(args) > j /\ (NamedDir(args[j + 1]) \/ NamedFile(args[j + 1]))
    THEN <<Do("db", j, {"append", "write"}, Stored(args, j), <<>>)>>
    ELSE IF ~IsFile(args[j]) THEN <<>>
    ELSE IF Len(args) > j /\ args[j + 1].type = "sql" THEN <<Out({"query"}, <<Read(j, "db", FALSE), Read(j + 1, "query", FALSE)>>)>>
    ELSE <<AddXsl(args, Out({"verbosity"}, <<Read(j, "file", FALSE)>>))>>

\* Files that exist, no link and no stylesheet
IsListed(a) == a.type # "empty" /\ a.is \in {"dir", "file", "url"} /\ a.type # "xsl"

FilesOf(args, j) ==
    AddXsl(args, Out({"verbosity"}, Each(Where(args, j, IsListed), LAMBDA k : Read(k, "file", FALSE))))

Place(args, j) ==
    LET a == args[j]
    IN  IF a.type = "empty" THEN <<>>
        ELSE IF IsDir(a) THEN <<ListingOf(args, j)>>
        ELSE IF a.is = "url" THEN <<AddXsl(args, Out({"verbosity"}, <<Read(j, "file", FALSE)>>))>>
        ELSE IF a.type = "cxp" THEN <<Interpreted(args, j)>>
        ELSE IF a.type = "pie" THEN <<Structured(args, j)>>
        ELSE IF a.type = "zip" THEN Archive(args, j)
        ELSE IF a.type = "db" THEN Database(args, j)
        ELSE IF a.is = "link" \/ a.type = "lnk" THEN <<Out({"verbosity"}, <<Read(j, "file", FALSE)>>)>>
        ELSE <<FilesOf(args, j)>>

\* cxpCtxtCliParse(): the make element and whether it is to be processed. A
\* leading "-p" or "-t" is taken off; the pause is only used by the calendar.
CliParse(args) ==
    IF args = <<>> THEN [ok |-> TRUE, make |-> <<>>]
    ELSE LET j    == IF args[1].opt \in {"-p", "-t"} THEN 2 ELSE 1
             opt  == args[j].opt
             made == IF args[1].opt = "-?" THEN Help(args)
                     ELSE IF args[j].type = "year" THEN CalendarOf(args, j, args[1].opt = "-p")
                     ELSE IF opt = "-e" THEN <<Out({"info"}, <<>>)>>
                     ELSE IF opt = "-x" THEN Literal(args, j)
                     ELSE IF opt = "-s" THEN Search(args, j)
                     ELSE IF opt = "-i" THEN Includes(args, j)
                     ELSE IF opt = "-v" THEN Validations(args, j)
                     ELSE IF opt = "-f" THEN <<AddXsl(args, Out({"pie"}, <<>>))>>
                     ELSE Place(args, j)
         IN  [ok |-> args[1].opt # "-t" /\ opt # "-i", make |-> made]

\* Arguments the parser can be called with: it reads the one behind "-p" and
\* "-t" without asking whether there is one
Callable(args) == args # <<>> /\ args[1].opt \in {"-p", "-t"} => Len(args) > 1

-----------------------------------------------------------------------------
(* The lookup of environment variables, arguments and parameters.             *)

FirstAt(S) == IF S = {} THEN 0 ELSE Min(S)

\* cxpCtxtEnvGetIndexByName(): an entry without "=" ends the search
EnvGetIndexByName(env, name) ==
    FirstAt({i \in 1..Len(env) : env[i].name = name /\ \A k \in 1..i : env[k].sep})

EnvGetValueByName(env, name) ==
    LET i == EnvGetIndexByName(env, name) IN IF i = 0 THEN None ELSE env[i].value

EnvGetBoolByName(env, name, default) == IF EnvGetValueByName(env, name) = "yes" THEN TRUE ELSE default

\* cxpCtxtCliGetValueByName(): arguments without "=" are passed over
CliGetValueByName(named, name) ==
    LET i == FirstAt({i \in 1..Len(named) : named[i].sep /\ named[i].name = name})
    IN  IF i = 0 THEN None ELSE named[i].value

\* cxpCtxtCgiGetValueByName(): a parameter without a name ends the search
CgiGetValueByName(params, name) ==
    LET i == FirstAt({i \in 1..Len(params) : params[i].name = name /\ \A k \in 1..i : params[k].name # ""})
    IN  IF i = 0 THEN None ELSE params[i].value

CgiGetNameByValue(params, value) ==
    LET i == FirstAt({i \in 1..Len(params) : params[i].value = value})
    IN  IF i = 0 THEN None ELSE params[i].name

CgiHasName(params, name) == CgiGetValueByName(params, name) # None

-----------------------------------------------------------------------------
(* The parameters of a request, a sequence of names and values. What a value  *)
(* names is given by place[v]:                                                *)
(*   at     what is at the path below the root: "none", "dir", "file", "link" *)
(*   found  what a search of the tree below the root finds                    *)
(*   read   whether it can be read        ok  whether access is permitted     *)
(*   type   its MIME type                 method  as above                    *)

Answer(is, status, read, xsl, vars) == [is |-> is, to |-> "-", status |-> status, read |-> read, xsl |-> xsl, vars |-> vars]
Page(read) == Answer("xml", "200", read, None, <<>>)
Missing == Answer("plain", "404", None, None, <<>>)

\* resNodeRootNew() and, if that cannot be read, resNodeListFindPath()
Target(p) == IF p.at # "none" /\ p.read THEN p.at ELSE p.found

Permitted(p) == p.ok /\ p.read

\* The search for a redirection starts again from the beginning until what it
\* finds can be used: it does not end if it cannot
Redirect(p) ==
    IF p.found = "none" THEN [ends |-> TRUE, make |-> <<Missing>>]
    ELSE IF Permitted(p) THEN [ends |-> TRUE, make |-> <<Answer("plain", "302", None, None, <<>>)>>]
    ELSE [ends |-> FALSE, make |-> <<>>]

Script(p) ==
    IF Target(p) = "file" /\ p.ok /\ p.type = "js" THEN Answer("plain", "200", "script", None, <<>>)
    ELSE Answer("plain", "200", "not found", None, <<>>)

\* What the parameter of a path shows, and the answer that it is missing
Shown(p) ==
    IF Target(p) = "none" THEN "nothing" ELSE IF ~p.ok THEN "nothing" ELSE Target(p)

Absent(p) == IF Target(p) = "none" THEN <<Missing>> ELSE <<>>

\* The parameters that are passed to a stylesheet as variables
IsVariable(q) == q.name \notin {"", "xpath", "xsl", "path", "file", "dir"} /\ q.value # "empty"

XslOutput(method) == CASE method = "html" -> "xhtml" [] method = "text" -> "plain" [] OTHER -> "xml"

\* The stylesheet is applied to what is shown. If it is not found, the content
\* is not shown; if it is found and cannot be parsed, nothing is answered.
Transformed(shown, params, p) ==
    IF Target(p) = "none" THEN <<Answer("plain", "200", "unknown stylesheet", None, <<>>)>>
    ELSE IF p.method = "broken" THEN <<>>
    ELSE <<Answer(XslOutput(p.method), "200", shown, "xsl", SelectSeq(params, IsVariable))>>

FirstNamed(params, names) ==
    LET at == {i \in 1..Len(names) : CgiHasName(params, names[i])}
    IN  IF at = {} THEN None ELSE names[Min(at)]

General(params, place) ==
    LET Val(n) == CgiGetValueByName(params, n)
        by     == FirstNamed(params, <<"path", "dir", "file">>)
        shown  == IF by # None THEN Shown(place[Val(by)])
                  ELSE IF Val("year") # None THEN "calendar" ELSE "info"
        absent == IF by # None THEN Absent(place[Val(by)]) ELSE <<>>
    IN  absent \o
        (IF Val("xpath") # None THEN <<>>
         ELSE IF Val("xsl") # None THEN Transformed(shown, params, place[Val("xsl")])
         ELSE <<Page(shown)>>)

\* cxpCtxtCgiParse(): an element without a name answers nothing, and one that
\* is made for @xpath is never added. translated is the place the server names, None if it
\* does not; query is the place of a query string without a parameter
CgiParse(translated, query, params, place) ==
    LET Val(n) == CgiGetValueByName(params, n)
        Made(make) == [ends |-> TRUE, make |-> make]
    IN  IF translated # None
        THEN LET p == place[translated] IN Made(IF p.read /\ p.type = "cxp" THEN <<Answer("xml", "200", "cxp", None, <<>>)>> ELSE <<>>)
        ELSE IF Val("redir") # None THEN Redirect(place[Val("redir")])
        ELSE IF Val("spath") # None
        THEN Made(IF place[Val("spath")].found # "none" THEN <<Answer("filecopy", "200", "file", None, <<>>)>> ELSE <<>>)
        ELSE IF Val("script") # None THEN Made(<<Script(place[Val("script")])>>)
        ELSE IF Val("cxp") \notin {None, "empty"}
        THEN Made(IF Target(place[Val("cxp")]) # "none" THEN <<Answer("xml", "200", "cxp", None, <<>>)>> ELSE <<>>)
        ELSE IF query # None
        THEN Made(IF place[query].at # "none" /\ place[query].read THEN <<Answer("filecopy", "200", "file", None, <<>>)>> ELSE <<>>)
        ELSE Made(General(params, place))

-----------------------------------------------------------------------------

\* Nothing named on the command line is lost, used twice or used in another
\* order than it was named in: the arguments that are read are read in the
\* order they were given in, once; a stylesheet is either applied or read; the
\* stylesheets applied are the first of those given, and the kind of output is
\* the one that the last of them produces; a directory or file that exists and
\* comes first is always used. What is written to an archive is the exception
\* (cxp_context_cli.c:795): its stylesheets are both packed and applied.
ArgumentsUsed(args) ==
    Callable(args) =>
    \A i \in 1..Len(CliParse(args).make) :
        LET do     == CliParse(args).make[i]
            all    == Where(args, 1, IsStylesheet)
            read   == {do.read[k].at : k \in 1..Len(do.read)}
            done   == {do.xsl[k] : k \in 1..Len(do.xsl)}
            listed == ~IsOption(args[1]) /\ args[1].is = "file" /\ args[1].type = "other" /\ args[1].slash = 0
            after  == {k \in 1..Len(args) : \E s \in done : s < k /\ Stops(args[s])}
        IN  /\ \A k, l \in 1..Len(do.read) : k < l => do.read[k].at < do.read[l].at
            /\ \A k \in 1..Len(do.xsl) : do.xsl[k] = all[k]
            /\ \A k \in 1..Len(do.xsl) - 1 : ~Stops(args[do.xsl[k]])
            /\ do.is # "zip" => done \cap read = {}
            /\ do.is # "zip" /\ done # {} => (do.is = "plain" <=> args[do.xsl[Len(do.xsl)]].method = "text")
            /\ listed => {k \in 1..Len(args) : args[k].is = "file" /\ args[k].slash = 0 /\ args[k].type # "empty"} \ after
                           \subseteq read \cup done

\* Environment, arguments and parameters answer alike, up to the first entry
\* without a name or value, and a parameter is found by its value.
LookupsAgree(list) ==
    \A i \in 1..Len(list) :
        LET n == list[i].name
            v == list[i].value
        IN  (\A k \in 1..i : list[k].sep /\ list[k].name # "") =>
              /\ EnvGetValueByName(list, n) = CliGetValueByName(list, n)
              /\ EnvGetValueByName(list, n) = CgiGetValueByName(list, n)
              /\ CgiHasName(list, CgiGetNameByValue(list, v))
              /\ (\A k \in 1..(i - 1) : list[k].name # n) =>
                    CgiGetValueByName(list, n) = v /\ (EnvGetBoolByName(list, n, FALSE) <=> v = "yes")

\* A request is answered once: a page, a copied file or a message, never two
\* of them, unless a path is missing (cxp_context_cgi.c:433), where an empty
\* page or the transformation of one follows the message. A page shows nothing
\* only if the path, script or instructions cannot be found or are not
\* permitted, and no variable of a stylesheet is one of the parameters that
\* control the request itself.
AnsweredOnce(translated, query, params, place) ==
    LET r == CgiParse(translated, query, params, place)
        missing == \E i \in 1..Len(r.make) : r.make[i].status = "404"
    IN  /\ Len(r.make) <= (IF missing THEN 2 ELSE 1)
        /\ \A i \in 1..Len(r.make) :
             /\ r.make[i].read = "nothing" =>
                  missing \/ \E k \in 1..Len(params) : LET p == place[params[k].value] IN ~p.ok \/ Target(p) = "none"
             /\ \A k \in 1..Len(r.make[i].vars) : r.make[i].vars[k].name \notin {"xsl", "path"}
             /\ r.make[i].xsl # None => r.make[i].status = "200"
=============================================================================
