------------------------------- MODULE ResNodeOps -------------------------------
(***************************************************************************)
(* The file operations of the copy and system instructions:                *)
(* resNodeTransfer(), resNodeMakeDirectory() and resNodeUnlink()           *)
(* (res_node_ops.c), with the reading and writing of contents they use     *)
(* (res_node_io.c).  Every call of the operating system may fail.          *)
(*                                                                         *)
(* A content is known by the version it is made of and its length in       *)
(* blocks of BUFFER_LENGTH; a shorter one is its beginning.  Resource      *)
(* nodes live for one operation, so the state is that of the file system.  *)
(***************************************************************************)
EXTENDS Naturals, FiniteSets

CONSTANTS
  Directory,  \* directories
  Base,       \* base names of files
  Volume,     \* the file system of a directory
  Locked,     \* directories without permission to change them or remove them
  Version,    \* the contents there are
  Initial,    \* the files at first
  MaxLoop,    \* 1024, the most blocks resNodeGetContent() reads
  Nothing,    \* no content: where there is no file
  Garbage     \* what is behind the end of a buffer

VARIABLES
  disk,  \* the content of each file
  dirs,  \* the directories that exist
  ok     \* whether the last operation returned rn_error_none

fileVars == <<disk, dirs, ok>>

File == Directory \X Base
DirOf(f) == f[1]

(* an empty content is of no version *)
Content == [of : Version \cup {Garbage, Nothing}, blocks : Nat, readable : BOOLEAN]

ASSUME LockedAssumption == Locked \subseteq Directory
ASSUME InitialAssumption == Initial \in [File -> Content \cup {Nothing}]
ASSUME MaxLoopAssumption == MaxLoop \in Nat \ {0}

(* the first k blocks of c *)
Prefix(c, k) == [c EXCEPT !.blocks = k, !.of = IF k = 0 THEN Nothing ELSE @]

(* an operation yields a file system and a result *)
Outcome(d, s, r) == [disk |-> d, dirs |-> s, ok |-> r]

--------------------------------------------------------------------------------
(* resNodeGetContent(): NULL if the file cannot be opened or its first block *)
(* not be read; an error after some blocks, or the limit, leaves those       *)
GetContent(c) ==
  {Nothing} \cup {Prefix(c, k) : k \in {k \in 0..c.blocks : /\ c.readable
                                                            /\ k <= MaxLoop
                                                            /\ k = 0 => c.blocks = 0}}

(* resNodeSaveContent() and resNodeClose() after the file was truncated: the *)
(* size is that of the content read, or else of the old file; nothing at all *)
(* counts as an error                                                        *)
Saved(old, c) ==
  LET size == IF c.blocks > 0 THEN c.blocks ELSE IF old = Nothing THEN 0 ELSE old.blocks
      data == [of |-> IF c.blocks > 0 THEN c.of ELSE Garbage, blocks |-> size,
               readable |-> old = Nothing \/ old.readable]
  IN {<<Prefix(data, k), FALSE>> : k \in 0..size}
     \cup {<<data, TRUE>> : k \in 1..size}

(* resNodePutContent() of c to file t, whose directory exists *)
PutContent(d, s, t, c) ==
  {Outcome(d, s, FALSE)} \cup
  {Outcome([d EXCEPT ![t] = x[1]], s, x[2]) :
     x \in IF d[t] = Nothing /\ DirOf(t) \in Locked THEN {} ELSE Saved(d[t], c)}

(* the copying part of resNodeTransfer(): no content is no error *)
CopyContent(d, s, f, t) ==
  UNION {IF c = Nothing THEN {Outcome(d, s, TRUE)} ELSE PutContent(d, s, t, c) : c \in GetContent(d[f])}

(* resNodeUnlink() of a file *)
UnlinkFile(d, s, f) ==
  {Outcome(d, s, FALSE)} \cup
  (IF d[f] = Nothing \/ DirOf(f) \in Locked THEN {} ELSE {Outcome([d EXCEPT ![f] = Nothing], s, TRUE)})

(* resNodeMakeDirectory(): an existing one is fine *)
MakeDirectory(d, s, p) ==
  IF p \in s THEN {Outcome(d, s, TRUE)}
  ELSE {Outcome(d, s, FALSE), Outcome(d, s \cup {p}, TRUE)}

(* Mutant of Fallback: the source is not marked, it is copied and unlinked. *)
FallbackCopies(d, s, f, t) ==
  UNION {IF o.ok THEN UnlinkFile(o.disk, s, f) ELSE {o} : o \in CopyContent(d, s, f, t)}

(* resNodeTransfer() calls itself to copy to another volume, but refuses the *)
(* source, which resNodeSetError() has just marked                           *)
Fallback(d, s, f, t) == {Outcome(d, s, FALSE)}

(* the moving part: rename() may report another file system (EXDEV, EROFS), *)
(* and any other error of it does not reach the result                       *)
Rename(d, s, f, t) ==
  Fallback(d, s, f, t) \cup {Outcome(d, s, TRUE)} \cup
  (IF Volume[DirOf(f)] # Volume[DirOf(t)] \/ DirOf(t) \in Locked THEN {}
   ELSE {Outcome([d EXCEPT ![f] = Nothing, ![t] = d[f]], s, TRUE)})

(* the file that target t means, a file or a directory *)
TargetFile(f, t) == IF t \in Directory THEN <<t, f[2]>> ELSE t

(* Mutant of Refused: the names are not compared. *)
RefusedUncompared(d, f, t, move) ==
  LET g == TargetFile(f, t)
  IN \/ d[f] = Nothing
     \/ move /\ (DirOf(f) \in Locked \/ (t \in File /\ d[g] # Nothing) \/ (d[g] # Nothing /\ d[g].readable))

(* the checks of source and destination: moving asks for a directory it can  *)
(* write to, and for no file of that name, or no readable one in a directory *)
Refused(d, f, t, move) ==
  LET g == TargetFile(f, t)
  IN \/ d[f] = Nothing
     \/ move /\ (DirOf(f) \in Locked \/ (t \in File /\ d[g] # Nothing) \/ (d[g] # Nothing /\ d[g].readable))
     \/ g = f

(* resNodeTransfer(): the directory of the target is made on the way *)
Transferred(d, s, f, t, move) ==
  LET g == TargetFile(f, t)
  IN IF d[f] = Nothing \/ (move /\ DirOf(f) \in Locked) THEN {Outcome(d, s, FALSE)}
     ELSE UNION {IF ~o.ok \/ Refused(d, f, t, move) THEN {Outcome(d, o.dirs, FALSE)}
                 ELSE IF move THEN Rename(d, o.dirs, f, g) ELSE CopyContent(d, o.dirs, f, g) :
                 o \in MakeDirectory(d, s, DirOf(g))}

(* resNodeUnlink() of a directory: with recursion its files first, and the   *)
(* result of the last of them stays when rmdir() fails                       *)
DirectoryUnlinked(d, s, p, recursive) ==
  LET files == {f \in File : DirOf(f) = p /\ d[f] # Nothing}
      deletable == IF recursive /\ p \notin Locked THEN SUBSET files ELSE {{}}
      Without(S) == [f \in File |-> IF f \in S THEN Nothing ELSE d[f]]
      Kept(S) == {Outcome(Without(S), s, f \in S) : f \in IF files = {} THEN {Nothing} ELSE files}
      Gone == IF p \in Locked \/ files \notin deletable THEN {}
              ELSE {Outcome(Without(files), s \ {p}, TRUE)}
  IN IF p \notin s THEN {Outcome(d, s, FALSE)} ELSE Gone \cup UNION {Kept(S) : S \in deletable}

--------------------------------------------------------------------------------
FileInit ==
  /\ disk = Initial
  /\ dirs = Locked \cup {DirOf(f) : f \in {g \in File : Initial[g] # Nothing}}
  /\ ok = TRUE

Yields(outcomes) == \E o \in outcomes : disk' = o.disk /\ dirs' = o.dirs /\ ok' = o.ok

(* <copy from="f" to="t"/> and <move from="f" to="t"/>: cxpProcessCopyNode() *)
Copy(f, t) == Yields(Transferred(disk, dirs, f, t, FALSE))
Move(f, t) == Yields(Transferred(disk, dirs, f, t, TRUE))

(* <system mkdir="p"/> and <system rmdir="x"/>: cxpProcessSystemNode() *)
Mkdir(p) == Yields(MakeDirectory(disk, dirs, p))
Rmdir(p, recursive) == Yields(DirectoryUnlinked(disk, dirs, p, recursive))
Delete(f) == Yields(UnlinkFile(disk, dirs, f))

FileNext ==
  \/ \E f \in File, t \in File \cup Directory : Copy(f, t) \/ Move(f, t)
  \/ \E f \in File : Delete(f)
  \/ \E p \in Directory : Mkdir(p) \/ \E recursive \in BOOLEAN : Rmdir(p, recursive)

FileSpec == FileInit /\ [][FileNext]_fileVars

--------------------------------------------------------------------------------
(* Properties *)

(* A copy never changes its source, though the target is truncated before   *)
(* anything is written and the writing may fail.                            *)
SourceKept == [][\A f \in File, t \in File \cup Directory : Copy(f, t) => disk'[f] = disk[f]]_fileVars

(* A move, done or failed, destroys no content: not the one moved, be it to *)
(* another volume or beyond the limit for reading, and not that of any      *)
(* other file that is readable ("Cant move file to an existing one").       *)
MoveLosesNothing ==
  [][\A f \in File, t \in File \cup Directory : Move(f, t) =>
       /\ disk[f] \in {disk'[f], disk'[TargetFile(f, t)]}
       /\ \A g \in File \ {f} : disk[g] # Nothing /\ disk[g].readable => disk'[g] = disk[g]]_fileVars

================================================================================
