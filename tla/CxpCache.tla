-------------------------------- MODULE CxpCache --------------------------------
(***************************************************************************)
(* The content cache of the processing contexts (cxp_context_cache.c) with *)
(* the instructions that read and save through it: cxpProcessPlainNode(),  *)
(* cxpProcessXmlNode(), cxpXslRetrieve(), cxpScriptProcessNode() and       *)
(* cxpCtxtSaveFileNode().                                                  *)
(*                                                                         *)
(* Every context has a list of entries; a lookup walks the lists of the    *)
(* context and of its ancestors.  An entry is a resource node: of a file   *)
(* that was read, or an alias, with a text (pContent), a DOM (pdocContent) *)
(* or both.  A content is known by its version: the DOM parsed from a text *)
(* and the text a DOM is saved as have the same version.                   *)
(***************************************************************************)
EXTENDS Naturals, Sequences, FiniteSets

CONSTANTS
  Ctx,       \* the contexts
  Chain,     \* a context, its parent, ... up to the top
  Caching,   \* the possible values of fCaching of all contexts
  File,      \* normalized names of files
  Base,      \* the base name of a file
  Dir,       \* the directory of a file
  Location,  \* the directory of a context
  Symbol,    \* names given with @cacheas
  NULL,
  Initial,   \* the version that a file has at first
  MaxVersion, \* bound of the versions, and so of the saves, for TLC
  MaxEntries  \* bound of the entries of all lists, for TLC

(* a chain starts with the context and goes on with that of its parent *)
ASSUME ChainAssumption ==
  /\ Chain \in [Ctx -> Seq(Ctx)]
  /\ \A c \in Ctx : Chain[c] # <<>> /\ Chain[c][1] = c
  /\ \A c \in Ctx : \A i \in DOMAIN Chain[c] : Chain[Chain[c][i]] = SubSeq(Chain[c], i, Len(Chain[c]))
ASSUME InitialAssumption == IsFiniteSet(File) /\ Initial \in [File -> 1..Cardinality(File)]

VARIABLES
  cache,     \* prnCache of each context
  caching,   \* fCaching of each context
  disk,      \* the content of each file
  clock,     \* the version of the last content made
  unparsed,  \* the versions that are no XML
  stored     \* history: <<name, version>> read from or stored under that name

vars == <<cache, caching, disk, clock, unparsed, stored>>

(* what @name or @cacheas can be: absolute, or relative to the location *)
Relative == {Base[f] : f \in File}
Name == File \cup Relative \cup Symbol
Version == 1..MaxVersion
Content == Version \cup {NULL}

(* a null pointer is no name, no content and no entry *)
ASSUME NullAssumption == NULL \notin Name /\ NULL \notin Nat /\ NULL \notin Nat \X Nat

BaseOf(n) == IF n \in File THEN Base[n] ELSE n

(* the files that name n means in context c: one or none *)
Resolved(c, n) == IF n \in File THEN {n}
                  ELSE {f \in File : Dir[f] = Location[c] /\ Base[f] = n}

FileEntry(f) == [alias |-> NULL, path |-> f, text |-> disk[f], doc |-> NULL]
TextAlias(n, v) == [alias |-> n, path |-> NULL, text |-> v, doc |-> NULL]
DocAlias(n, v) == [alias |-> n, path |-> NULL, text |-> NULL, doc |-> v]

KeyOf(e) == IF e.alias # NULL THEN e.alias ELSE e.path

--------------------------------------------------------------------------------
(* Mutant of Matches: names match as soon as the entry is no alias. *)
MatchesAnyFile(n, e) == e.alias = n \/ e.path # NULL

(* An alias matches literally.  The node made from the name and a file entry *)
(* match by base name, whatever their directories.                          *)
Matches(n, e) == e.alias = n \/ (e.path # NULL /\ Base[e.path] = BaseOf(n))

Least(S) == CHOOSE i \in S : \A j \in S : i <= j

(* the matches in the list of the context at level l of the chain *)
Hits(k, c, n, l) == {i \in DOMAIN k[Chain[c][l]] : Matches(n, k[Chain[c][l]][i])}

(* cxpCtxtCacheGetResNode(): the first match of the nearest context that has *)
(* one, by level in the chain and index in the list                          *)
GetResNode(k, c, n) ==
  LET levels == {l \in DOMAIN Chain[c] : Hits(k, c, n, l) # {}}
  IN IF levels = {} THEN NULL ELSE <<Least(levels), Least(Hits(k, c, n, Least(levels)))>>

EntryAt(k, c, h) == k[Chain[c][h[1]]][h[2]]

WithEntry(k, c, h, e) == [k EXCEPT ![Chain[c][h[1]]][h[2]] = e]

(* cxpCtxtCacheGetBuffer() *)
GetBuffer(k, c, n) ==
  LET h == GetResNode(k, c, n) IN IF h = NULL THEN NULL ELSE EntryAt(k, c, h).text

(* resNodeGetContentDoc(): the text of a file entry is parsed on demand, an *)
(* alias has no file and so is not readable for resNodeReadDoc()            *)
ContentDoc(e) == IF e.doc # NULL THEN e.doc
                 ELSE IF e.path # NULL /\ e.text \notin unparsed THEN e.text ELSE NULL

(* cxpCtxtCacheGetDoc() *)
GetDoc(k, c, n) ==
  LET h == GetResNode(k, c, n) IN IF h = NULL THEN NULL ELSE ContentDoc(EntryAt(k, c, h))

(* the DOM that a successful lookup parses is kept in the entry *)
Parsed(k, c, n) ==
  LET h == GetResNode(k, c, n)
  IN WithEntry(k, c, h, [EntryAt(k, c, h) EXCEPT !.doc = ContentDoc(EntryAt(k, c, h))])

(* Mutant of AppendResNodeEat: no lookup for an entry of that name. *)
AppendAlways(k, c, e) == IF caching[c] THEN [k EXCEPT ![c] = Append(@, e)] ELSE k

(* Mutant of AppendResNodeEat: the text of the entry found is dropped. *)
AppendReplaces(k, c, e) ==
  LET h == GetResNode(k, c, KeyOf(e))
  IN IF ~caching[c] THEN k
     ELSE IF k[c] = <<>> \/ h = NULL THEN [k EXCEPT ![c] = Append(@, e)]
     ELSE WithEntry(k, c, h, [EntryAt(k, c, h) EXCEPT !.text = NULL, !.doc = e.doc])

(* cxpCtxtCacheAppendResNodeEat(): the first entry of a context needs no    *)
(* lookup; an entry of that name takes over the content, if its own can be  *)
(* got by resNodeSwapContent().                                             *)
AppendResNodeEat(k, c, e) ==
  LET h == GetResNode(k, c, KeyOf(e))
      old == EntryAt(k, c, h)
  IN IF ~caching[c] THEN k
     ELSE IF k[c] = <<>> \/ h = NULL THEN [k EXCEPT ![c] = Append(@, e)]
     ELSE IF old.text = NULL /\ old.path = NULL THEN k
     ELSE WithEntry(k, c, h, [old EXCEPT !.text = e.text, !.doc = e.doc])

(* cxpCtxtCacheAppendBuffer(): sets the text only, also of an ancestor's entry *)
AppendBuffer(k, c, v, n) ==
  LET h == GetResNode(k, c, n)
  IN IF ~caching[c] THEN k
     ELSE IF h = NULL THEN AppendResNodeEat(k, c, TextAlias(n, v))
     ELSE WithEntry(k, c, h, [EntryAt(k, c, h) EXCEPT !.text = v])

(* cxpCtxtCacheAppendDoc(): sets the DOM only *)
AppendDoc(k, c, v, n) ==
  LET h == GetResNode(k, c, n)
  IN IF ~caching[c] THEN k
     ELSE IF h = NULL THEN AppendResNodeEat(k, c, DocAlias(n, v))
     ELSE WithEntry(k, c, h, [EntryAt(k, c, h) EXCEPT !.doc = v])

--------------------------------------------------------------------------------
Init ==
  /\ cache = [c \in Ctx |-> <<>>]
  /\ caching \in Caching
  /\ disk = Initial
  /\ clock = Cardinality(File)
  /\ unparsed = {}
  /\ stored = {<<f, Initial[f]>> : f \in File} \cup {<<Base[f], Initial[f]>> : f \in File}

(* <plain name="n"/>: cxpProcessPlainNode() without children *)
ReadPlain(c, n) ==
  /\ GetBuffer(cache, c, n) = NULL
  /\ \E f \in Resolved(c, n) : cache' = AppendResNodeEat(cache, c, FileEntry(f))
  /\ UNCHANGED <<caching, disk, clock, unparsed, stored>>

(* <xml name="n"/>: cxpProcessXmlNode() without children; a lookup without *)
(* result goes on with the file                                            *)
ReadXml(c, n) ==
  /\ IF GetDoc(cache, c, n) # NULL
     THEN cache' = Parsed(cache, c, n)
     ELSE \E f \in Resolved(c, n) : cache' = AppendResNodeEat(cache, c, FileEntry(f))
  /\ UNCHANGED <<caching, disk, clock, unparsed, stored>>

(* <xsl name="n" cacheas="s"/> or cache="yes": cxpXslRetrieve() *)
ReadXsl(c, n, as) ==
  /\ IF GetDoc(cache, c, n) # NULL
     THEN cache' = Parsed(cache, c, n) /\ UNCHANGED stored
     ELSE \E f \in Resolved(c, n) :
            /\ disk[f] \notin unparsed
            /\ cache' = AppendDoc(cache, c, disk[f], as)
            /\ stored' = stored \cup {<<as, disk[f]>>, <<BaseOf(as), disk[f]>>}
  /\ UNCHANGED <<caching, disk, clock, unparsed>>

(* <script name="n" cacheas="s"/> or cache="yes": cxpScriptProcessNode() *)
ReadScript(c, n, s) ==
  /\ GetBuffer(cache, c, n) = NULL
  /\ \E f \in Resolved(c, n) :
       LET as == IF s = NULL THEN f ELSE s
       IN /\ cache' = AppendBuffer(cache, c, disk[f], as)
          /\ stored' = stored \cup {<<as, disk[f]>>, <<BaseOf(as), disk[f]>>}
  /\ UNCHANGED <<caching, disk, clock, unparsed>>

(* cxpCtxtSaveFileNode(): a new content goes to the cache under @cacheas s, *)
(* then under the normalized name of the file if @cache is set, and then to *)
(* the file, which may fail.                                                *)
Save(c, s, f, flag, Stored(_, _, _, _)) ==
  LET v == clock + 1
      k == IF s = NULL THEN cache ELSE Stored(cache, c, v, s)
      names == (IF s = NULL THEN {} ELSE {s}) \cup (IF f = NULL THEN {} ELSE {f})
  IN /\ clock < MaxVersion
     /\ names # {}
     /\ clock' = v
     /\ cache' = IF f # NULL /\ flag THEN Stored(k, c, v, f) ELSE k
     /\ disk' \in IF f = NULL THEN {disk} ELSE {disk, [disk EXCEPT ![f] = v]}
     /\ stored' = stored \cup {<<n, v>> : n \in names} \cup {<<BaseOf(n), v>> : n \in names}
     /\ UNCHANGED caching

(* <xml name="f" cacheas="s" cache="flag">...</xml> *)
SaveDoc(c, s, f, flag) == Save(c, s, f, flag, AppendDoc) /\ UNCHANGED unparsed

(* <plain name="f" cacheas="s" cache="flag">...</plain>: XML or other text *)
SavePlain(c, s, f, flag) ==
  /\ Save(c, s, f, flag, AppendBuffer)
  /\ unparsed' \in {unparsed, unparsed \cup {clock + 1}}

(* the bound of the model checker: no code limits a list *)
FewEntries(k) == Cardinality(UNION {{c} \X DOMAIN k[c] : c \in Ctx}) <= MaxEntries

Next ==
  /\ \E c \in Ctx :
       \/ \E n \in Name : ReadPlain(c, n) \/ ReadXml(c, n)
       \/ \E n \in Name : \E as \in Symbol \cup {n} : ReadXsl(c, n, as)
       \/ \E n \in Name, s \in Symbol \cup {NULL} : ReadScript(c, n, s)
       \/ \E s \in Symbol \cup {NULL}, f \in File \cup {NULL}, flag \in BOOLEAN :
            SaveDoc(c, s, f, flag) \/ SavePlain(c, s, f, flag)
  /\ FewEntries(cache')

Spec == Init /\ [][Next]_vars

--------------------------------------------------------------------------------
(* Properties *)

(* No entry of a list hides a later one of the same list: whatever is       *)
(* appended, the name of an entry finds the entry itself or something       *)
(* nearer.  A second entry of a name could never be read or updated again.  *)
UniqueKeys ==
  \A c \in Ctx : \A i, j \in DOMAIN cache[c] :
    i < j => ~Matches(KeyOf(cache[c][j]), cache[c][i])

(* A lookup under a name finds only what was read from a file of that base  *)
(* name or stored under it: contents of different base names never mix when *)
(* entries of ancestors are updated, swapped and parsed on demand.          *)
SameBaseName ==
  \A c \in Ctx, n \in Name :
    \A v \in {GetBuffer(cache, c, n), GetDoc(cache, c, n)} \ {NULL} : <<BaseOf(n), v>> \in stored

(* the names under which a save puts its content into the cache *)
Keys(s, f, flag) == ({s} \cup IF flag THEN {f} ELSE {}) \ {NULL}

(* d is c or below it, and no list nearer to d than that of c matches n *)
FirstAt(k, d, c, n) ==
  \E j \in DOMAIN Chain[d] : /\ Chain[d][j] = c
                             /\ \A l \in DOMAIN Chain[d] : l < j => Hits(k, d, n, l) = {}

(* the version a save makes, or what the files hold when one is read, where  *)
(* it belongs to the base name of n                                          *)
Brought(n) ==
  {v \in (IF clock' = clock THEN {disk[f] : f \in File} ELSE {clock'}) :
     <<BaseOf(n), v>> \in stored'}

(* What a save has put under a name is found there, in its context and in    *)
(* each below it that has no nearer entry of that name.  What is found under *)
(* a name changes to nothing but what the step brings: a content that was    *)
(* superseded never comes back, unless a file is read again, and none is     *)
(* lost, but for a DOM when a text takes its place.  A DOM that is saved     *)
(* leaves every text as it was, so that a text of the same name is out of    *)
(* date from then on (cxp_context.c:291).                                    *)
SavedIsFound ==
  [][/\ \A c \in Ctx, s \in Symbol \cup {NULL}, f \in File \cup {NULL}, flag \in BOOLEAN :
          /\ SavePlain(c, s, f, flag) /\ caching[c] =>
               \A n \in Keys(s, f, flag), d \in Ctx :
                 FirstAt(cache', d, c, n) => GetBuffer(cache', d, n) = clock'
          /\ SaveDoc(c, s, f, flag) /\ caching[c] =>
               \A n \in Keys(s, f, flag), d \in Ctx :
                 FirstAt(cache', d, c, n) => GetDoc(cache', d, n) = clock'
          /\ SaveDoc(c, s, f, flag) =>
               \A d \in Ctx, n \in Name : GetBuffer(cache', d, n) = GetBuffer(cache, d, n)
     /\ \A d \in Ctx, n \in Name :
          /\ GetBuffer(cache', d, n) \in {GetBuffer(cache, d, n)} \cup Brought(n)
          /\ \/ GetDoc(cache', d, n) \in {GetDoc(cache, d, n)} \cup Brought(n)
             \/ GetDoc(cache', d, n) = NULL /\ GetBuffer(cache', d, n) \in Brought(n)]_cache

================================================================================
