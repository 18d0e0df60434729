------------------------------ MODULE ResPath -------------------------------
(* Paths of resource nodes (res_path.c, for POSIX): normalizing, splitting,  *)
(* joining and comparing, and the archives within a path.                    *)
(*                                                                           *)
(* A path is a sequence of tokens: separators, dots, quotes, the letters of  *)
(* names, and the tokens "http:", "file:" and "C:" for the beginnings that   *)
(* the code recognizes; the token "zip" stands for the extension of an       *)
(* archive.  Case and encodings are left out.                                *)
EXTENDS Naturals, Sequences, SequencesExt

Separators == {"/", "\\"}
Quotes == {"'"}
Digits == {"1"}
End == "end"

At(p, i) == IF i \in 1..Len(p) THEN p[i] ELSE End
IsSep(c) == c \in Separators
IsSepOrEnd(c) == IsSep(c) \/ c = End
From(p, i) == SubSeq(p, i, Len(p))
Upto(p, i) == SubSeq(p, 1, i)

RECURSIVE SkipAny(_, _, _)
SkipAny(p, i, S) == IF At(p, i) \in S THEN SkipAny(p, i + 1, S) ELSE i

Unquoted(p) == IF At(p, 1) \in Quotes THEN Tail(p) ELSE p

-----------------------------------------------------------------------------
(* What a path begins or ends with.                                          *)

(* Two separators follow the token of a protocol.                            *)
GetProtocol(p) ==
    LET q == Unquoted(p)
    IN  IF At(q, 1) \in {"http:", "file:"} /\ At(q, 2) = "/" /\ (At(q, 1) = "http:" => At(q, 3) = "/")
        THEN At(q, 1) ELSE "nil"
IsURL(p) == GetProtocol(p) # "nil"
IsHttpURL(p) == GetProtocol(p) = "http:"
IsFileURL(p) == GetProtocol(p) = "file:"
IsDosDrive(p) == LET q == Unquoted(p) IN At(q, 1) = "C:" /\ IsSep(At(q, 2))
IsUNC(p) == LET q == Unquoted(p) IN IsSep(At(q, 1)) /\ IsSep(At(q, 2)) /\ ~IsSepOrEnd(At(q, 3))
IsStd(p) == p = <<"-">>
IsLeadingSeparator(p) == IsSep(At(Unquoted(p), 1))
IsTrailingSeparator(p) ==
    LET n == Len(p)
        quoted == At(p, n) \in Quotes
        body == IF quoted THEN Upto(p, n - 1) ELSE p
        dotted == At(body, Len(body)) = "."
    IN  IsSep(At(IF dotted THEN Upto(body, Len(body) - 1) ELSE body, IF dotted THEN Len(body) - 1 ELSE Len(body)))
IsRelative(p) ==
    LET q == Unquoted(p)
    IN  \/ At(q, 1) \in {End} \cup Quotes
        \/ At(q, 1) = "." /\ At(q, 2) \in {End} \cup Quotes
        \/ ~(IsStd(q) \/ IsURL(q) \/ IsDosDrive(q) \/ IsUNC(q) \/ IsSep(At(q, 1)))
IsDir(p) ==
    LET n == Len(p) IN IsSep(At(p, n)) \/ (n > 1 /\ At(p, n) \in Quotes /\ IsSep(p[n - 1]))
IsDirRecursive(p) ==
    LET n == Len(p)
        m == IF At(p, n) \in Quotes THEN n - 1 ELSE n
    IN  m > 2 /\ IsSep(p[m]) /\ IsSep(p[m - 1])
IsRoot(p) ==
    LET q == Unquoted(p)
        r == IF q # p /\ At(q, Len(q)) \in Quotes THEN Upto(q, Len(q) - 1) ELSE q
    IN  \/ Len(r) = 1 /\ (IsSep(r[1]) \/ r[1] = "C:")
        \/ Len(r) = 2 /\ r[1] = "C:" /\ IsSep(r[2])

SkipPrefixFile(p) ==
    LET q == IF At(p, 1) = "file:" /\ At(p, 2) = "/" /\ At(p, 3) = "/" THEN From(p, 4) ELSE p
    IN  IF IsSep(At(q, 1)) /\ IsSep(At(q, 2)) THEN q
        ELSE IF IsSep(At(q, 1)) /\ At(q, 2) = "C:" /\ IsSep(At(q, 3)) THEN From(q, 3)
        ELSE IF At(q, 1) = "C:" /\ IsSep(At(q, 2)) THEN From(q, 2)
        ELSE q

-----------------------------------------------------------------------------
(* Comparing.                                                                *)

(* resPathIsMatchingBegin(): the name is the beginning of the path, up to a  *)
(* separator.                                                                *)
RECURSIVE MatchingBegin(_, _)
MatchingBegin(p, n) ==
    LET both == IsSep(At(p, 1)) /\ IsSep(At(n, 1))
        q == IF both THEN From(p, SkipAny(p, 1, Separators)) ELSE p
        m == IF both THEN From(n, SkipAny(n, 1, Separators)) ELSE n
    IN  IF both /\ m = <<>> THEN TRUE
        ELSE IF q = <<>> \/ m = <<>> THEN m = <<>> /\ IsSepOrEnd(At(q, 1))
        ELSE q[1] = m[1] /\ MatchingBegin(Tail(q), Tail(m))
IsMatchingBegin(p, n) == p # <<>> /\ n # <<>> /\ MatchingBegin(p, n)

(* resPathIsMatchingEnd(), from the last tokens back.                        *)
LastOther(p, i) == IF \E j \in 2..i : ~IsSep(p[j]) /\ j <= i
                   THEN CHOOSE j \in 2..i : ~IsSep(p[j]) /\ \A k \in (j + 1)..i : IsSep(p[k]) ELSE 1
RECURSIVE MatchingEnd(_, _, _, _)
MatchingEnd(p, i, n, j) ==
    LET both == IsSep(p[i]) /\ IsSep(n[j])
        i2 == IF both THEN LastOther(p, i) ELSE i
        j2 == IF both THEN LastOther(n, j) ELSE j
    IN  IF both /\ (i2 = 1 \/ j2 = 1) THEN TRUE
        ELSE IF p[i2] # n[j2] THEN FALSE
        ELSE IF i2 = 1 \/ j2 = 1 THEN j2 = 1 /\ (i2 = 1 \/ IsSep(p[i2 - 1]))
        ELSE MatchingEnd(p, i2 - 1, n, j2 - 1)
IsMatchingEnd(p, n) ==
    LET l == SkipAny(Reverse(n), 1, Separators)
    IN  p # <<>> /\ l <= Len(n) /\ MatchingEnd(p, Len(p), n, Len(n) - l + 1)

(* resPathDiffPtr(): what follows the path in its descendant.                *)
RECURSIVE Diff(_, _)
Diff(p, d) ==
    LET rest == From(d, SkipAny(d, 1, Separators))
    IN  IF p = <<>> \/ (IsSep(p[1]) /\ Len(p) = 1) THEN [found |-> TRUE, rest |-> rest]
        ELSE IF d = <<>> \/ (IsSep(d[1]) /\ Len(d) = 1) THEN [found |-> FALSE, rest |-> <<>>]
        ELSE IF (IsSep(p[1]) /\ IsSep(d[1])) \/ p[1] = d[1] THEN Diff(Tail(p), Tail(d))
        ELSE [found |-> FALSE, rest |-> <<>>]
IsDescendant(p, d) == p # <<>> /\ d # <<>> /\ Diff(SkipPrefixFile(p), SkipPrefixFile(d)).found

(* resPathIsEquivalent(): redundant separators, one trailing separator or    *)
(* "/." , drives and "file://" do not count.                                 *)
RECURSIVE Equivalent(_, _)
Equivalent(a, b) ==
    LET ended(p) == p \in {<<>>} \cup {<<s>> : s \in Separators} \cup {<<s, ".">> : s \in Separators}
    IN  IF IsSep(At(a, 1)) /\ IsSep(At(b, 1))
        THEN Equivalent(From(a, SkipAny(a, 1, Separators)), From(b, SkipAny(b, 1, Separators)))
        ELSE IF a # <<>> /\ b # <<>> /\ a[1] = b[1] THEN Equivalent(Tail(a), Tail(b))
        ELSE ended(a) /\ ended(b)
IsEquivalent(a, b) ==
    LET local(p) == IF IsFileURL(p) THEN SkipPrefixFile(p) ELSE p
        undriven(p) == IF At(p, 1) = "C:" /\ IsSep(At(p, 2)) THEN Tail(p) ELSE p
    IN  /\ a # <<>> /\ b # <<>>
        /\ GetProtocol(a) = GetProtocol(b) \/ {GetProtocol(a), GetProtocol(b)} = {"file:", "nil"}
        /\ Equivalent(undriven(local(a)), undriven(local(b)))

-----------------------------------------------------------------------------
(* Splitting; a part that is not there is the empty path.                    *)

(* The last token that is neither a separator nor a dot, or the first.       *)
LastNamed(p) ==
    IF \E i \in 2..Len(p) : p[i] \notin Separators \cup {"."}
    THEN CHOOSE i \in 2..Len(p) : /\ p[i] \notin Separators \cup {"."}
                                  /\ \A j \in (i + 1)..Len(p) : p[j] \in Separators \cup {"."}
    ELSE 1

(* Slashes are looked for before backslashes: a backslash counts only when   *)
(* no slash follows it.                                                      *)
RECURSIVE LastSeparator(_, _, _)
LastSeparator(p, from, end) ==
    LET slashes == {i \in from..Len(p) : p[i] = "/"}
        others == {i \in from..Len(p) : p[i] = "\\"}
        first(S) == CHOOSE i \in S : \A j \in S : i <= j
        next == IF slashes # {} THEN first(slashes) ELSE IF others # {} THEN first(others) ELSE 0
    IN  IF next = 0 \/ next >= end THEN from - 1 ELSE LastSeparator(p, next + 1, end)

(* resPathGetBasedirStr()                                                    *)
GetBasedir(p) ==
    LET end == LastNamed(p)
        sep == LastSeparator(p, 1, end)
    IN  IF p = <<>> \/ end = 1 \/ sep = 0 THEN <<>>
        ELSE IF sep = 1 THEN <<"/">>
        ELSE Upto(p, sep)

(* Mutant: the name up to the end of the path, trailing dots included.       *)
GetBasenameDotted(p) ==
    LET end == LastNamed(p)
        sep == LastSeparator(p, 1, end)
    IN  IF p = <<>> \/ IsRoot(p) \/ end = 1 THEN <<>>
        ELSE IF sep = 0 THEN p
        ELSE SubSeq(p, sep, end)

(* resPathGetBasenameStr()                                                   *)
GetBasename(p) ==
    LET end == LastNamed(p)
        sep == LastSeparator(p, 1, end)
    IN  IF p = <<>> \/ IsRoot(p) \/ end = 1 THEN <<>>
        ELSE IF sep = 0 THEN p
        ELSE SubSeq(p, sep + 1, end)

(* resPathGetExtensionStr(): what follows the last dot, or, if digits or     *)
(* nothing are left behind a dot, what is between it and the dot before.     *)
GetExtension(p) ==
    LET dots == {i \in 1..Len(p) : p[i] = "."}
        last(S) == CHOOSE i \in S : \A j \in S : j <= i
        versions == {i \in dots : \A j \in (i + 1)..Len(p) : p[j] \in Digits}
        version == CHOOSE i \in versions : \A j \in versions : i <= j
        before == {i \in dots : versions # {} => i < version}
        to == IF versions = {} THEN Len(p) ELSE version - 1
    IN  IF before = {} \/ last(before) < 2 THEN <<>> ELSE SubSeq(p, last(before) + 1, to)

(* resPathGetRootnameStr(): cut where the extension appears first.           *)
GetRootname(p) ==
    LET base == GetBasename(p)
        ext == GetExtension(base)
        found == {i \in 1..(Len(base) - Len(ext) + 1) : SubSeq(base, i, i + Len(ext) - 1) = ext}
        pos == CHOOSE i \in found : \A j \in found : i <= j
    IN  IF ext = <<>> \/ pos = 1 THEN <<>> ELSE Upto(base, pos - 2)

(* resPathCutTrailingChars(): the first token stays.                         *)
CutTrailingChars(p) == IF p = <<>> THEN p ELSE Upto(p, LastNamed(p))
RemoveQuotes(p) == SelectSeq(p, LAMBDA c : c \notin Quotes)
ChangeToSlashes(p) == [i \in 1..Len(p) |-> IF p[i] = "\\" THEN "/" ELSE p[i]]
GetNextSeparator(p, from) ==
    LET seps == {i \in from..Len(p) : IsSep(p[i])}
    IN  IF seps = {} THEN 0 ELSE CHOOSE i \in seps : \A j \in seps : i <= j

(* resPathGetQuotedStr(): a backslash before each backslash.                 *)
GetQuoted(p) == FlattenSeq([i \in 1..Len(p) |-> IF p[i] = "\\" THEN <<"\\", "\\">> ELSE <<p[i]>>])

(* resPathFindDirStr(): the path up to the end of the name that contains the *)
(* needle first.                                                             *)
FindDir(p, needle) ==
    LET found == {i \in 1..Len(p) : IsPrefix(needle, From(p, i))}
        i == CHOOSE i \in found : \A j \in found : i <= j
        sep == GetNextSeparator(p, i)
    IN  IF needle = <<>> \/ found = {} THEN <<>> ELSE IF sep = 0 THEN p ELSE Upto(p, sep - 1)

(* resPathGetDepth()                                                         *)
RECURSIVE DepthFrom(_, _)
DepthFrom(p, i) ==
    IF i > Len(p) THEN 1
    ELSE IF ~IsSep(p[i]) THEN DepthFrom(p, i + 1)
    ELSE (IF i > 1 THEN 1 ELSE 0) + DepthFrom(p, SkipAny(p, i, Separators) + 1)
GetDepth(p) == IF IsDosDrive(p) /\ Len(p) > 2 THEN DepthFrom(p, 3) ELSE DepthFrom(p, 1)

-----------------------------------------------------------------------------
(* Joining and normalizing.                                                  *)

(* CopyPath(): without quotes.                                               *)
CopyPath(p) == RemoveQuotes(p)

ConcatStr(a, b) ==
    LET c == CopyPath(a)
    IN  IF a = <<>> \/ b = <<>> THEN c
        ELSE IF IsDosDrive(b) THEN c \o CopyPath(Tail(b))
        ELSE IF IsSep(b[1]) \/ IsSep(At(c, Len(c))) THEN c \o CopyPath(b)
        ELSE c \o <<"/">> \o CopyPath(b)

(* The loop of resPathCollapseStr() reads the path at A and has written out  *)
(* before B.  "lost" says that B is in front of the buffer, and "before"     *)
(* that something is written there, which is undefined: the loop is not      *)
(* followed any further then.                                                *)
Buffer(out) == [out |-> out, lost |-> FALSE, before |-> FALSE, valid |-> TRUE]

(* Mutant: the step up stops behind the name.                                *)
ClimbedShort(out) == Buffer(out)

(* One step up: over the separators and the name before them.                *)
Climbed(out) ==
    LET names == {i \in 1..Len(out) : ~IsSep(out[i])}
        j == CHOOSE i \in names : \A k \in names : k <= i
        seps == {i \in 1..j : IsSep(out[i])}
    IN  IF names = {} THEN [Buffer(<<>>) EXCEPT !.lost = TRUE]
        ELSE IF seps = {} THEN Buffer(<<>>)
        ELSE Buffer(Upto(out, CHOOSE i \in seps : \A k \in seps : k <= i))

(* The steps up, with the separators behind them.                            *)
RECURSIVE Ups(_, _, _)
Ups(p, a, b) ==
    IF ~(At(p, a) = "." /\ At(p, a + 1) = "." /\ IsSepOrEnd(At(p, a + 2))) THEN [b |-> b, a |-> a]
    ELSE IF b.lost \/ b.out = <<>> THEN [b |-> [b EXCEPT !.valid = FALSE], a |-> a]
    ELSE Ups(p, SkipAny(p, a + 2, Separators), Climbed(b.out))

RECURSIVE Selfs(_, _)
Selfs(p, a) == IF At(p, a) = "." /\ IsSep(At(p, a + 1)) THEN Selfs(p, a + 2) ELSE a

Written(b, c) == IF b.lost THEN [b EXCEPT !.before = TRUE] ELSE [b EXCEPT !.out = Append(@, c)]

RECURSIVE Collapsing(_, _, _, _, _)
Collapsing(p, a, b, up, file) ==
    IF ~b.valid \/ b.before \/ a > Len(p) THEN b
    ELSE IF ~IsSep(p[a]) THEN Collapsing(p, a + 1, Written(b, p[a]), up, file)
    ELSE LET a1 == Selfs(p, SkipAny(p, a, Separators))
             u == IF up THEN Ups(p, a1, Written(b, "/")) ELSE [b |-> Written(b, "/"), a |-> a1]
             drive == IsDosDrive(From(p, u.a)) /\ ~(file /\ u.a <= 5)
         IN  Collapsing(p, IF drive THEN u.a + 2 ELSE u.a, u.b, up, file)

RECURSIVE Undotted(_)
Undotted(p) == IF p # <<>> /\ p[Len(p)] = "." THEN Undotted(Upto(p, Len(p) - 1)) ELSE p

(* What resPathCollapseStr() takes of a path: what is between quotes, below  *)
(* the current directory if it begins with dots.                             *)
BetweenQuotes(arg) ==
    LET p == From(arg, SkipAny(arg, 1, Quotes))
        quote == {i \in 1..Len(p) : p[i] \in Quotes}
    IN  IF quote = {} THEN p ELSE Upto(p, (CHOOSE i \in quote : \A j \in quote : i <= j) - 1)
Taken(arg, cwd) ==
    LET p == BetweenQuotes(arg)
        dots == At(p, 1) = "." /\ (IsSepOrEnd(At(p, 2)) \/ (At(p, 2) = "." /\ IsSepOrEnd(At(p, 3))))
    IN  IF dots THEN ConcatStr(cwd, p) ELSE p

(* resPathCollapseStr() with FS_PATH_FULL, and again without the steps up    *)
(* when there are too many of them.                                          *)
CollapseStr(arg, cwd) ==
    LET p == Taken(arg, cwd)
        protocol == GetProtocol(BetweenQuotes(arg))
        start == CASE protocol = "http:" -> [a |-> 4, out |-> Upto(p, 3)]
                   [] protocol = "file:" -> [a |-> Len(p) - Len(SkipPrefixFile(p)) + 1, out |-> <<>>]
                   [] protocol = "nil" /\ IsUNC(p) -> [a |-> 3, out |-> <<"/", "/">>]
                   [] protocol = "nil" /\ IsDosDrive(p) -> [a |-> 2, out |-> <<>>]
                   [] OTHER -> [a |-> 1, out |-> <<>>]
        done(up) == Collapsing(p, start.a, Buffer(start.out), up, protocol = "file:")
        full == done(TRUE)
        b == IF full.valid THEN full ELSE done(FALSE)
    IN  IF p = <<>> \/ IsStd(p) THEN Buffer(p)
        ELSE IF protocol = "file:" /\ Len(p) = 3 THEN Buffer(<<>>)
        ELSE [b EXCEPT !.out = Undotted(@), !.before = @ \/ b.lost]

ConcatNormalizedStr(a, b, cwd) ==
    IF a = <<>> THEN <<>> ELSE CollapseStr(IF b = <<>> THEN a ELSE ConcatStr(a, b), cwd).out

-----------------------------------------------------------------------------
(* Archives in a path.                                                       *)

(* resPathBeginIsArchive(): the first name has a dot and ends with "zip".     *)
BeginIsArchive(p) ==
    LET dotted(i, least) == \E d \in 2..(i - 1) : p[d] = "." /\ (i - d > least \/ p[i - 1] = "zip")
        ends == {i \in 1..(Len(p) + 1) : IsSepOrEnd(At(p, i)) \/ (At(p, i) \in Quotes /\ dotted(i, 3))}
        e == CHOOSE i \in ends : \A j \in ends : i <= j
    IN  e > 3 /\ p[e - 1] = "zip" /\ dotted(e, 3)

(* resPathGetNameOfNextArchivePtr(), resPathGetPathInNextArchivePtr(): the   *)
(* places of the name and of what is in the archive, or 0.                   *)
RECURSIVE NameOfNextArchive(_, _)
NameOfNextArchive(p, from) ==
    LET a == SkipAny(p, from, Separators \cup Quotes)
        sep == GetNextSeparator(p, a)
        next == SkipAny(p, sep, Separators \cup Quotes)
    IN  IF BeginIsArchive(From(p, a)) THEN a
        ELSE IF sep = 0 \/ next > Len(p) THEN 0
        ELSE NameOfNextArchive(p, next)

PathInNextArchive(p) ==
    LET a == NameOfNextArchive(p, 1)
        sep == GetNextSeparator(p, a)
        next == SkipAny(p, sep, Separators \cup Quotes)
    IN  IF a = 0 \/ sep = 0 \/ next > Len(p) THEN 0 ELSE next

(* resPathGetPathOfArchiveStr()                                              *)
PathOfArchive(p) ==
    LET i == PathInNextArchive(p)
    IN  IF i < 4 THEN <<>> ELSE RemoveQuotes(CutTrailingChars(Upto(p, i - 1)))

-----------------------------------------------------------------------------
(* The meaning of a path: its names, after the steps up.                     *)

RECURSIVE Names(_)
Names(p) ==
    LET a == SkipAny(p, 1, Separators)
        sep == GetNextSeparator(p, a)
        e == IF sep = 0 THEN Len(p) + 1 ELSE sep
    IN  IF a > Len(p) THEN <<>> ELSE <<SubSeq(p, a, e - 1)>> \o Names(From(p, e))

Up == <<".", ".">>
Self == <<".">>
Here == "here"

(* Names after their steps up; above the root is the root.                   *)
RECURSIVE Resolved(_, _, _)
Resolved(names, done, rooted) ==
    IF names = <<>> THEN done
    ELSE LET n == Head(names)
             next == IF n = Self \/ (n = Up /\ done = <<>> /\ rooted) THEN done
                     ELSE IF n = Up /\ done # <<>> /\ Last(done) # Up THEN Upto(done, Len(done) - 1)
                     ELSE Append(done, n)
         IN  Resolved(Tail(names), next, rooted)
Meaning(p) == Resolved(Names(p), <<>>, TRUE)
EndsNamed(p) == p # <<>> /\ p[Len(p)] \notin Quotes \cup {"."}

(* The names from the first step up on that has no name before it.           *)
RECURSIVE Above(_, _)
Above(names, depth) ==
    IF names = <<>> \/ (Head(names) = Up /\ depth = 0) THEN names
    ELSE Above(Tail(names), CASE Head(names) = Up -> depth - 1 [] Head(names) = Self -> depth [] OTHER -> depth + 1)

(* The local path that a file URL or a path with a drive stands for, and     *)
(* what the names of a path are below: the root, the network or nothing.     *)
LocalPath(p) == IF IsFileURL(p) THEN SkipPrefixFile(p) ELSE IF IsDosDrive(p) THEN Tail(p) ELSE p
Below(p) == IF IsUNC(p) THEN "net" ELSE IF IsSep(At(LocalPath(p), 1)) THEN "root" ELSE "nothing"

(* The names as the code takes them. A "." right behind a step up is a name  *)
(* like another, that a later step up takes back, and so are dots in place   *)
(* of a host; the dots at the end of the last name are not part of it.       *)
Pinned(names, host) ==
    [i \in DOMAIN names |->
        IF \/ i = 1 /\ host /\ names[1] \in {Up, Self}
           \/ i > 1 /\ ~(i = 2 /\ host) /\ names[i] = Self /\ names[i - 1] = Up
        THEN Append(names[i], Here) ELSE names[i]]
Unpinned(names) == [i \in DOMAIN names |-> IF Last(names[i]) = Here THEN Front(names[i]) ELSE names[i]]
Undot(names) ==
    LET n == Undotted(Last(names)) IN IF n = <<>> THEN Front(names) ELSE Append(Front(names), n)

(* An absolute path of names.                                                *)
Plain(p) == IsSep(At(p, 1)) /\ \A i \in 1..Len(p) : p[i] \notin {"C:", "http:", "file:", "'"}

(* Normalizing a path keeps where it leads to, for paths and URLs of every   *)
(* kind and whatever dots, separators and steps up are in them.  In detail:  *)
(* Something is written before the path exactly when its first step up from  *)
(* the root is not followed by another one (else the steps up stay in it).   *)
(* The names are kept but for the cases of Pinned() and Undot(), and protocol *)
(* and host of an URL are names that a step up leaves, too.  A path below    *)
(* the root gets one of the network only by a "." before double separators.  *)
MeaningKept(p, cwd) ==
    LET q == Taken(p, cwd)
        r == CollapseStr(p, cwd)
        below == Below(q)
        local == LocalPath(q)
        Where(names) == Resolved(names, <<>>, below # "nothing")
        host == below = "net" \/ (IsFileURL(q) /\ below = "nothing")
        names == Names(local)
        above == Above(Pinned(names, host), 0)
        out == below # "nothing" /\ above # <<>> /\ (Len(above) > 1 => above[2] # Up)
        dotted == names # <<>> /\ ~IsSep(Last(q)) /\ (above = <<>> => Last(Pinned(names, host)) # Up)
        kept == IF dotted THEN Undot(names) ELSE names
        i == Selfs(local, SkipAny(local, 1, Separators))
        doubled == i > 2 /\ IsSep(At(local, i)) /\ local[i - 2] = "."
    IN  q # <<>> =>
        /\ r.before <=> out
        /\ ~out => LET m == IF above # <<>> THEN Where(kept) ELSE Where(Unpinned(Where(Pinned(kept, host))))
                   IN  /\ Where(Names(r.out)) = m
                       /\ (m # <<>> /\ ~doubled) => Below(r.out) = below

(* The parts of a path fit together and to the comparisons: directory and    *)
(* name make the path again, the name is its matching end, every directory   *)
(* on the way has it as descendant; and the path of the archive in it is a   *)
(* beginning, and makes the path with what is in the archive.                *)
PartsOfPath(p) ==
    LET bare == EndsNamed(p) /\ ~IsSep(p[Len(p)]) /\ \A i \in 1..Len(p) : p[i] \notin Quotes
        slashed == \A i \in 1..Len(p) : p[i] # "\\"
        inner == PathInNextArchive(p)
        archive == PathOfArchive(p)
    IN  bare =>
        /\ (GetBasedir(p) # <<>> /\ slashed) => IsEquivalent(ConcatStr(GetBasedir(p), GetBasename(p)), p)
        /\ GetBasename(p) # <<>> => IsMatchingEnd(p, GetBasename(p))
        /\ ~IsFileURL(p) => \A i \in 1..(Len(p) - 1) : IsSep(p[i]) => IsDescendant(Upto(p, i), p)
        /\ inner # 0 => /\ IsMatchingBegin(p, archive) /\ IsDescendant(archive, p)
                       /\ IsEquivalent(ConcatStr(archive, From(p, inner)), p)

(* The questions about a path agree with each other: its depth is the number *)
(* of its names, a name is its root name and its extension (unless that is   *)
(* in it twice, res_path.c:1178), what is found in it is on its way, what is relative gets below another path, and neither   *)
(* quoting nor another kind of separators makes another path of it.          *)
PathsAgree(p, cwd) ==
    LET bare == EndsNamed(p) /\ ~IsSep(p[Len(p)]) /\ \A i \in 1..Len(p) : p[i] \notin Quotes
        base == GetBasename(p)
        ext  == GetExtension(base)
        root == GetRootname(p)
        dir  == FindDir(p, <<"a">>)
    IN  /\ (bare /\ base # <<>> /\ ~IsURL(p) /\ ~IsDosDrive(p)) => GetDepth(p) = Len(Names(p))
        /\ (bare /\ root # <<>> /\ Cardinality({i \in 1..Len(base) : IsPrefix(ext, From(base, i))}) = 1) => IsPrefix(root \o <<".">> \o ext, base)
        /\ (bare /\ dir # <<>> /\ ~IsFileURL(p)) => IsMatchingBegin(p, dir) /\ IsDescendant(dir, p)
        /\ (bare /\ IsRelative(p) /\ p[1] # ".") =>
              /\ ~IsURL(p) /\ ~IsLeadingSeparator(p) /\ ~IsRelative(ConcatStr(cwd, p))
              /\ ConcatNormalizedStr(cwd, p, cwd) = CollapseStr(ConcatStr(cwd, p), cwd).out
        /\ (bare /\ Plain(p) /\ ~CollapseStr(p, cwd).before /\ GetBasedir(p) # <<>> /\ base # <<>>) =>
              Meaning(ConcatNormalizedStr(GetBasedir(p), base, cwd)) = Meaning(p)
        /\ (IsDirRecursive(p) => IsDir(p)) /\ (IsDir(p) => IsTrailingSeparator(p))
        /\ bare => IsEquivalent(ChangeToSlashes(p), p) /\ IsEquivalent(GetQuoted(p), p)
        /\ (bare /\ IsURL(p) /\ ~IsHttpURL(p)) => IsEquivalent(p, SkipPrefixFile(p))
=============================================================================
