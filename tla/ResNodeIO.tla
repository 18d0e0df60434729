----------------------------- MODULE ResNodeIO -----------------------------
(* The contents of resource nodes (res_node_io.c) and their status           *)
(* (resNodeReadStatus() of res_node.c): opening, reading, saving, closing,   *)
(* and the handing over of contents.  A node is a file, a directory, the     *)
(* standard streams or a URL.  The calls of one node are interleaved with    *)
(* changes of its resource by other processes; every call of the operating   *)
(* system may fail.  Archives and databases are opened with modes of their   *)
(* own and are not in this module.                                           *)
(*                                                                           *)
(* A content is known by the version it is made of and by its length; a      *)
(* block of BUFFER_LENGTH bytes has the length BlockSize.                    *)
EXTENDS Naturals, FiniteSets

CONSTANTS
    Kinds,          \* what the node may be: "file", "dir", "std" or "url"
    Contents,       \* what other processes write: records [of, len]
    BlockSize,
    MaxLoop,        \* the blocks resNodeGetContent() is asked for
    MaxLen,         \* no file is longer
    Garbage,        \* a content made of several, or of what is behind a buffer
    None

ASSUME KindAssumption == Kinds \subseteq {"file", "dir", "std", "url"}
ASSUME SizeAssumption == BlockSize \in Nat \ {0} /\ MaxLoop \in Nat \ {0}

(* A truncated file is of no version.                                        *)
Content == [of : {c.of : c \in Contents} \cup {Garbage, None}, len : Nat]

ASSUME ContentAssumption == Contents \subseteq Content
(* No content, or no handle, is a null pointer.                              *)
ASSUME NoneAssumption == None \notin Content /\ None \notin {"r", "w"}

VARIABLES
    kind,       \* what the node is
    disk,       \* the content of its resource
    node,       \* the node
    memory,     \* the content and its size of a node to exchange contents with
    streams,    \* the open files and connections, as the operating system counts them
    foreign,    \* the resource was changed by others since its status was read
    written     \* and by the node itself

vars == <<kind, disk, node, memory, streams, foreign, written>>

-----------------------------------------------------------------------------
(* A call maps a state of one node to its outcomes.                          *)
(* [k: kind, d: disk, n: streams, r: node, w: written, ok: result]           *)

Empty == [of |-> None, len |-> 0]
Cut(c, len) == [c EXCEPT !.len = len]
Joined(c, e) == IF c = None \/ c.len = 0 THEN e
                ELSE IF e.len = 0 THEN c ELSE [of |-> Garbage, len |-> c.len + e.len]

ResetError(s) == [s EXCEPT !.r.error = "none"]
Returns(s, ok) == [s EXCEPT !.ok = ok]
Fails(s, error) == [s EXCEPT !.r.error = error, !.ok = FALSE]
IsOpen(s) == s.r.handle # None /\ s.r.access # "undef"

(* resNodeReadStatus(): once, unless the details are reset; the flags of a   *)
(* file that is gone are left as they are.                                   *)
Stat(s) ==
    LET t == [s EXCEPT !.r.stat = TRUE, !.w = FALSE]
    IN  IF s.k = "dir" THEN Returns([t EXCEPT !.r.exist = TRUE, !.r.read = TRUE], TRUE)
        ELSE IF s.d = None THEN [Fails(t, "stat") EXCEPT !.r.exist = FALSE]
        ELSE Returns([t EXCEPT !.r.exist = TRUE, !.r.read = TRUE, !.r.size = s.d.len], TRUE)

(* OpenURL(): for reading only.                                              *)
OpenURL(s, mode) ==
    IF mode = "w" THEN {Fails(s, "open")}
    ELSE {[Fails(s, "open") EXCEPT !.r.access = "undef"]} \cup
         (IF s.d = None THEN {}
          ELSE {[Returns(s, TRUE) EXCEPT !.r.access = "curl", !.r.handle = "r", !.n = @ + 1, !.r.exist = TRUE]})

ReadStatusUrl(s) ==
    IF s.r.content # None
    THEN {[Returns(s, TRUE) EXCEPT !.r.stat = TRUE, !.r.size = s.r.sizeContent, !.r.read = TRUE, !.r.exist = TRUE]}
    ELSE LET connected(t) == [t EXCEPT !.r.stat = TRUE, !.r.read = TRUE, !.r.exist = TRUE, !.ok = TRUE]
             lost(t) == [t EXCEPT !.r.stat = TRUE, !.r.read = FALSE, !.r.exist = FALSE, !.ok = FALSE]
             t0 == [s EXCEPT !.r.size = 0, !.r.read = TRUE]
             opened == IF IsOpen(t0) THEN {Returns(t0, TRUE)} ELSE OpenURL(t0, "r")
         IN  UNION {IF ~t.ok THEN {[t EXCEPT !.r.stat = TRUE, !.ok = t.r.exist]}
                    ELSE {lost(t)} \cup (IF t.d = None THEN {} ELSE {connected(t)}) : t \in opened}

ReadStatus(s0) ==
    LET s == ResetError(s0)
    IN  IF s.r.stat THEN {Returns(s, s.r.exist)}
        ELSE IF s.r.size > 0 /\ s.r.content # None THEN {Returns(s, TRUE)}
        ELSE IF s.k = "std"
             THEN {Returns([s EXCEPT !.r.read = (s.r.type = "stdin")], TRUE)}
        ELSE IF s.k = "url" THEN ReadStatusUrl(s)
        ELSE {Stat(s)}

(* Mutant: the file is not known to exist.                                   *)
OpenedUnseen(s, mode) ==
    LET open == [Returns(s, TRUE) EXCEPT !.n = @ + 1, !.r.access = "file", !.r.handle = mode, !.r.read = TRUE]
    IN  {Fails(s, "open"), Returns(s, FALSE)} \cup
        (IF mode = "w" THEN {[open EXCEPT !.d = Empty, !.w = TRUE]}
         ELSE IF s.d = None THEN {} ELSE {open})

(* resNodeOpen() of a file: errors other than of permission leave no error.  *)
Opened(s, mode) ==
    LET open == [Returns(s, TRUE) EXCEPT !.n = @ + 1, !.r.access = "file", !.r.handle = mode,
                    !.r.read = TRUE, !.r.exist = TRUE]
    IN  {Fails(s, "open"), Returns(s, FALSE)} \cup
        (IF mode = "w" THEN {[open EXCEPT !.d = Empty, !.w = TRUE]}
         ELSE IF s.d = None THEN {} ELSE {open})

(* Mutant: a node that is open is opened again.                              *)
OpenAgain(s0, mode) ==
    LET s == ResetError(s0)
    IN  CASE s.k = "std" -> {Returns([s EXCEPT !.r.access = "std", !.r.exist = TRUE,
                !.r.type = IF mode = "w" THEN "stdout" ELSE "stdin",
                !.r.read = (mode = "r")], TRUE)}
          [] s.k = "dir" -> {Returns([s EXCEPT !.r.access = "dir"], TRUE)}
          [] s.k = "url" -> OpenURL(s, mode)
          [] s.k = "file" -> Opened(s, mode)

Open(s0, mode) ==
    LET s == ResetError(s0)
    IN  IF IsOpen(s) THEN {Returns(s, TRUE)}
        ELSE CASE s.k = "std" -> {Returns([s EXCEPT !.r.access = "std", !.r.exist = TRUE,
                    !.r.type = IF mode = "w" THEN "stdout" ELSE "stdin",
                    !.r.read = (mode = "r")], TRUE)}
               [] s.k = "dir" -> {Returns([s EXCEPT !.r.access = "dir"], TRUE)}
               [] s.k = "url" ->
                    {IF t.ok THEN [t EXCEPT !.r.read = TRUE] ELSE t : t \in OpenURL(s, mode)}
               [] s.k = "file" -> Opened(s, mode)

(* Closing may fail to write what is left in the buffer.                     *)
Close(s) ==
    IF ~IsOpen(s) THEN {Returns(s, FALSE)}
    ELSE LET t == [s EXCEPT !.r.handle = None, !.r.access = "undef", !.n = @ - 1]
         IN  {Returns(t, TRUE)} \cup
             (IF s.r.handle # "w" THEN {}
              ELSE {[Returns(t, FALSE) EXCEPT !.d = Cut(@, len), !.w = TRUE] : len \in 0..s.d.len})

SetContent(s, c) == [s EXCEPT !.r.content = c, !.r.sizeContent = IF c = None THEN 0 ELSE c.len]

(* Mutant: the limit leaves no error.                                        *)
ReadBlocksSilent(c, max) ==
    LET full == c.len \div BlockSize
    IN  {[c |-> IF full < max THEN c ELSE Cut(c, max * BlockSize), e |-> "none"]}
        \cup {[c |-> IF k = 0 THEN None ELSE Cut(c, k * BlockSize), e |-> "read"] :
                k \in {k \in 0..full : k < max}}

(* The loop of resNodeReadContent(): full blocks are read until one is not,  *)
(* or until the limit, which is an error although the content is kept.       *)
ReadBlocks(c, max) ==
    LET full == c.len \div BlockSize
    IN  {IF full < max THEN [c |-> c, e |-> "none"] ELSE [c |-> Cut(c, max * BlockSize), e |-> "memory"]}
        \cup {[c |-> IF k = 0 THEN None ELSE Cut(c, k * BlockSize), e |-> "read"] :
                k \in {k \in 0..full : k < max}}

(* A transfer that breaks off leaves what has arrived, and no body is no     *)
(* content.                                                                  *)
Transferred(c) ==
    {[c |-> IF len = 0 THEN None ELSE Cut(c, len), e |-> IF len = c.len THEN "none" ELSE "memory"] :
        len \in 0..c.len}
    \cup {[c |-> None, e |-> "memory"]}

(* resNodeReadContent(): what is there is a success, complete or not.        *)
ReadContent(s0, max) ==
    LET s == SetContent(ResetError(s0), None)
        readable == IF s.d = None THEN Empty ELSE s.d
        result(x) == LET t == [SetContent(s, x.c) EXCEPT !.r.error = x.e]
                     IN  Returns(IF s.k = "std" THEN [t EXCEPT !.d = Empty] ELSE t, x.c # None)
    IN  IF s.k = "dir" THEN {Fails(s, "undef")}
        ELSE {result(x) : x \in IF s.k = "url" THEN Transferred(readable) ELSE ReadBlocks(readable, max)}

(* resNodeGetContent(): a content that is there is not read again; closes    *)
(* the node in any case.                                                     *)
GetContent(s, max) ==
    IF s.r.content # None THEN {Returns(s, TRUE)}
    ELSE LET opened == IF s.k = "file" /\ s.r.handle # None THEN {Returns(s, TRUE)} ELSE Open(s, "r")
             read == UNION {IF t.ok THEN ReadContent(t, max) ELSE {t} : t \in opened}
         IN  UNION {{Returns(u, t.ok) : u \in Close(t)} : t \in read}

(* resNodeGetSize(): that of the content, or else that of the resource.      *)
GetSize(s) == IF s.r.sizeContent > 0 THEN s.r.sizeContent ELSE s.r.size

(* fwrite() takes as many bytes as the size says, be the buffer as long or   *)
(* not; nothing to write counts as a failure.                                *)
Data(s) == IF GetSize(s) <= s.r.content.len THEN Cut(s.r.content, GetSize(s))
           ELSE [of |-> Garbage, len |-> GetSize(s)]
Appended(s, c) == [s EXCEPT !.d = Joined(@, c), !.w = TRUE]
Written(s) ==
    IF s.r.access = "file" /\ s.r.handle = "r" THEN {Fails(s, "open")}
    ELSE {Appended(Fails(s, IF s.r.access = "std" THEN "write" ELSE "open"), Cut(Data(s), len)) : len \in 0..GetSize(s)} \cup
         (IF GetSize(s) = 0 THEN {} ELSE {Appended(Returns(s, s.r.error = "none"), Data(s))})

(* resNodeSaveContent(): directories, URLs and nodes that are not open are   *)
(* passed over.                                                              *)
SaveContent(s) ==
    IF s.r.content = None THEN {Fails(s, "read")}
    ELSE IF s.r.access \notin {"std", "file"} THEN {Returns(s, s.r.error = "none")}
    ELSE UNION {Written(t) : t \in IF s.r.size = 0 THEN ReadStatus(s) ELSE {s}}

(* resNodePutContent(): its directory is made if it can be, the file is      *)
(* opened, written and closed; it stays open if it cannot be written.        *)
PutContent(s) ==
    IF s.k = "std" THEN SaveContent(s)
    ELSE LET placed == UNION {{Returns(t, TRUE), Returns(t, FALSE)} : t \in ReadStatus(s)}
             opened == UNION {IF t.ok THEN Open(t, "w") ELSE {t} : t \in placed}
             saved == UNION {IF t.ok THEN SaveContent(t) ELSE {t} : t \in opened}
         IN  UNION {IF t.ok THEN Close(t) ELSE {t} : t \in saved}

(* Putting a node of a list: the result is that of the writing, and it is    *)
(* closed in any case.                                                       *)
ListPut(s) ==
    LET saved == UNION {IF t.ok THEN SaveContent(t) ELSE {t} : t \in Open(s, "w")}
    IN  UNION {{Returns(u, t.ok) : u \in Close(t)} : t \in saved}

(* resNodeReadDoc(): asks for the status first, then for the content.        *)
ReadDoc(s) ==
    UNION {IF t.r.read THEN GetContent(t, MaxLoop) ELSE {Returns(t, FALSE)} :
           t \in IF s.r.stat THEN {s} ELSE ReadStatus(s)}

-----------------------------------------------------------------------------
Init ==
    /\ kind \in Kinds
    /\ disk \in Contents \cup {None}
    /\ node = [type |-> IF kind = "std" THEN "stdout" ELSE kind,
               access |-> IF kind = "std" THEN "std" ELSE "undef",
               handle |-> None, error |-> "none", stat |-> FALSE,
               exist |-> FALSE, read |-> FALSE,
               size |-> 0, content |-> None, sizeContent |-> 0]
    /\ memory = [content |-> None, sizeContent |-> 0]
    /\ streams = 0
    /\ foreign = FALSE /\ written = FALSE

State == [k |-> kind, d |-> disk, n |-> streams, r |-> node, w |-> written, ok |-> TRUE]

Becomes(s) ==
    /\ s.d # None => s.d.len <= MaxLen
    /\ disk' = s.d
    /\ streams' = s.n
    /\ written' = s.w
    /\ foreign' = (foreign /\ ~(s.r.stat /\ ~node.stat))
    /\ UNCHANGED kind
Yields(outcomes) == \E s \in outcomes : Becomes(s) /\ node' = s.r /\ UNCHANGED memory

Status == Yields(ReadStatus(State))
ResetDetails == Yields({[State EXCEPT !.r.stat = FALSE]})
OpenRead == kind # "url" /\ Yields(Open(State, "r"))
Shut == Yields(Close(State))

(* No caller reads from a node that it has opened for writing.               *)
MayRead == node.handle = "w" => node.content # None
Get == MayRead /\ Yields(GetContent(State, MaxLoop))
Doc == MayRead /\ Yields(ReadDoc(State))
Put == kind # "url" /\ Yields(PutContent(State))
PutOfList == kind = "file" /\ Yields(ListPut(State))
Set(c) == Yields({SetContent(State, c)})
(* resNodeEatContentPtr(): the size stays.                                   *)
Eat == Yields({[State EXCEPT !.r.content = None]})

(* Mutant: the sizes are left behind.                                        *)
ExchangedContents(s) ==
    /\ node' = [s.r EXCEPT !.content = memory.content]
    /\ memory' = [memory EXCEPT !.content = s.r.content]

(* resNodeSwapContent(): the content of the source is read first; the sizes  *)
(* of the resources stay.                                                    *)
Exchanged(s) ==
    /\ node' = [s.r EXCEPT !.content = memory.content, !.sizeContent = memory.sizeContent]
    /\ memory' = [content |-> s.r.content, sizeContent |-> s.r.sizeContent]
SwapFrom ==
    /\ MayRead
    /\ \E s \in GetContent(State, MaxLoop) :
        /\ Becomes(s)
        /\ IF s.ok THEN Exchanged(s) ELSE node' = [s.r EXCEPT !.error = "copy"] /\ UNCHANGED memory
SwapTo == memory.content # None /\ Becomes(State) /\ Exchanged(State)

(* Another process writes, makes or removes the file, or the server changes; *)
(* a file that is open stays where it is.                                    *)
Other ==
    /\ kind \in {"file", "url"} /\ node.handle = None
    /\ disk' \in (Contents \cup {None}) \ {disk}
    /\ foreign' = TRUE
    /\ UNCHANGED <<kind, node, memory, streams, written>>

Next ==
    \/ Status \/ ResetDetails \/ OpenRead \/ Shut
    \/ Get \/ Doc \/ Put \/ PutOfList \/ Eat
    \/ SwapFrom \/ SwapTo \/ Other
    \/ \E c \in Contents : Set(c)

Spec == Init /\ [][Next]_vars

-----------------------------------------------------------------------------
(* Properties.                                                               *)

(* Every open file or connection is the handle of the node, which knows how  *)
(* it is accessed: opening a node that is open, failing halfway and closing  *)
(* twice lose no handle and leave none behind.                               *)
HandlesOwned ==
    /\ streams = IF node.handle = None THEN 0 ELSE 1
    /\ node.handle # None => node.access \in {"file", "curl"}

(* What is read is the whole resource as it is then, unless an error says    *)
(* that it is not: after the limit of blocks, and after a transfer that      *)
(* breaks off, there is a content, too.                                      *)
ReadWholeOrError ==
    [][(Get /\ node.content = None /\ node'.content # None /\ node'.error = "none" /\ disk # None)
          => node'.content = disk]_vars

(* A save that returns success has written the content, all of it and       *)
(* nothing else, whatever was set, read, exchanged and eaten before.  But    *)
(* the size of an empty content is taken to be that of the file as the       *)
(* status knows it, and as many bytes of something are written; what an      *)
(* earlier save has left in an open file stays before it; and the saving of  *)
(* a list does not look at the result of the closing.                        *)
Saved(u) ==
    LET before == IF kind = "std" \/ node.handle = "w" THEN disk ELSE Empty
    IN  Joined(before, IF node.content.len > 0 THEN node.content ELSE [of |-> Garbage, len |-> u.r.size])
SavedIsContent ==
    /\ kind \in {"file", "std"} =>
           \A u \in PutContent(State) : u.ok => node.content # None /\ u.d = Saved(u)
    /\ kind = "file" =>
           \A u \in ListPut(State) : u.ok =>
               node.content # None /\ \E len \in 0..Saved(u).len : u.d = Cut(Saved(u), len)

(* The status that was read stays right until another process changes the    *)
(* resource: the existence through everything the node does itself, the size *)
(* until the node writes.                                                    *)
StatusRight ==
    kind = "file" /\ node.stat /\ ~foreign =>
        /\ node.exist = (disk # None)
        /\ disk # None /\ ~written => node.size = disk.len

=============================================================================
