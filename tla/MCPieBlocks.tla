---------------------------- MODULE MCPieBlocks ----------------------------
(* Texts of up to three lines of every kind, of four lines with regions, and *)
(* of five or six lines of headings, items and text.  Behind a short text    *)
(* the memory has nothing, or some lines.  The limit of elements is low      *)
(* enough to cut the texts of six lines.                                     *)
EXTENDS PieBlocks

MCLine(kind, depth) ==
    [kind |-> kind, region |-> "", depth |-> depth, hidden |-> 0, percent |-> FALSE, bare |-> FALSE]
MCMark(kind, region) == [MCLine(kind, 0) EXCEPT !.region = region]

MCText == MCLine("text", 0)
MCEmpty == MCLine("empty", 0)
MCKinds ==
    {MCText, MCEmpty, MCLine("header", 1), MCLine("header", 2), MCLine("item", 1), MCLine("ruler", 4),
     MCLine("origin", 0), [MCLine("ruler", 4) EXCEPT !.hidden = 1], [MCLine("item", 1) EXCEPT !.bare = TRUE]}
    \cup {MCMark(k, r) : k \in {"begin", "end"}, r \in {"pre", "skip", "line"}}
    \cup {MCMark("begin", "script"), MCMark("begin", "csv"), MCMark("end", "csv")}
MCNested ==
    {MCText} \cup {MCLine("header", d) : d \in 1..3} \cup {MCLine("item", d) : d \in 1..2} \cup {MCLine("enum", 3)}

MCShort == UNION {[1..n -> MCKinds] : n \in 1..3}
MCLong  == [1..5 -> MCNested] \cup [1..6 -> {MCText, MCLine("header", 1), MCLine("item", 2)}]
MCRegions == [1..4 -> {MCText, MCEmpty, MCLine("header", 1), MCLine("origin", 0)}
                      \cup {MCMark(k, r) : k \in {"begin", "end"}, r \in {"pre", "skip", "line"}}]

(* Texts that are followed by another line, or by the end of the memory.     *)
MCBehind == UNION {[1..n -> {MCText, MCEmpty, MCMark("begin", "line"), MCMark("end", "line"), MCMark("end", "skip")}]
                   : n \in 1..3}
MCMemory == {<<>>, <<MCText>>, <<MCEmpty, MCLine("header", 1)>>, <<MCMark("begin", "skip"), MCText>>}
MCTexts ==
    {[lines |-> l, size |-> Len(l)] : l \in MCShort \cup MCRegions \cup MCLong}
    \cup {[lines |-> l \o m, size |-> Len(l)] : l \in MCBehind, m \in MCMemory}
MCModes == {"par", "line", "pre"}
=============================================================================
