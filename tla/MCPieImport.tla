---------------------------- MODULE MCPieImport ----------------------------
(* Three files that import and include each other and themselves, of kinds   *)
(* that are looked at for circles and of others, found in the cache, or not  *)
(* readable; elements alone have instructions to make a document or a text.  *)
EXTENDS PieImport, TLC

CONSTANTS fileA, fileB, fileC

MCFiles == {fileA, fileB, fileC}
P == [k |-> "p", f |-> None]
I(k, f) == [k |-> k, f |-> f]
Refer == {I(k, f) : k \in {"import", "include"}, f \in MCFiles} \cup {I("inline", fileA), I("stdin", None)}
Make == {I("xml", f) : f \in MCFiles} \cup {I("plain", fileB), I("bare", None)}
MCStdin == <<P, I("import", fileB), I("inline", fileB)>>

Kinds == {<<"pie", "plain", "plain">>, <<"pie", "pie", "csv">>, <<"pie", "xml", "markdown">>, <<"pie", "markdown", "plain">>}
Found == {<<MCFiles, {}>>, <<{fileA, fileB}, {}>>, <<MCFiles, {fileC}>>}

Second == {P, I("import", fileC), I("include", fileB), I("stdin", None)}
Pairs(first) == {<<x, y>> : x \in first, y \in Second}
Single(S) == {<<x>> : x \in S} \cup {<<>>}
OfC == Single({P, I("include", fileC)} \cup {I("import", f) : f \in MCFiles})

Contents(ofA, ofB) == {(fileA :> x) @@ (fileB :> y) @@ (fileC :> z) : x \in ofA, y \in ofB, z \in OfC}
Textual(c, kind) == \A f \in MCFiles : kind[f] \in Text => \A i \in DOMAIN c[f] : c[f][i] \notin Make
MCInputs ==
    {in \in [content : Contents(Pairs(Refer), Single(Refer \cup {P})) \cup Contents(Pairs(Make), Single(Refer \cup Make)),
             kind : {(fileA :> k[1]) @@ (fileB :> k[2]) @@ (fileC :> k[3]) : k \in Kinds},
             readable : {r[1] : r \in Found}, cached : {r[2] : r \in Found}] :
        <<in.readable, in.cached>> \in Found /\ Textual(in.content, in.kind)}
=============================================================================
