------------------------------- MODULE PieCsv -------------------------------
(* The tables made of comma separated values (pie_csv.c).                    *)
(*                                                                           *)
(* A table is a sequence of rows, a row a sequence of cells [head, text].    *)
(* The symbols and scripts within cells belong to the texts of documents.    *)
EXTENDS CxpStrings

Tab == 9
Star == 42
Comma == 44
IsLineBreak(c) == c \in {NL, CR}

Count(s, c) == Len(SelectSeq(s, LAMBDA x : x = c))

(* AutoDetectSeparatorChar(): told by "sep=" or the most frequent.           *)
AutoDetectSeparator(s) ==
    LET told == <<115, 101, 112, EqualsSign>>
    IN  IF StringBeginsWith(s, told) THEN (IF Len(s) > 4 THEN s[5] ELSE Semicolon)
        ELSE IF Count(s, Tab) > Count(s, Semicolon) /\ Count(s, Tab) > Count(s, Comma) THEN Tab
        ELSE IF Count(s, Comma) > Count(s, Semicolon) THEN Comma
        ELSE Semicolon

(* The semicolon of an entity separates nothing, unless the entity is where  *)
(* the search began.                                                         *)
EndsEntity(s, i, from) ==
    LET before(t) == i - Len(t) > from /\ SubSeq(s, i - Len(t), i - 1) = t
    IN  before(<<Amp, 97, 109, 112>>) \/ before(<<Amp, 103, 116>>) \/ before(<<Amp, 108, 116>>)

(* Mutant: quotes are not respected.                                         *)
NextSeparatorUnquoted(s, from, sep) ==
    LET ends == {i \in from..Len(s) : s[i] = sep \/ IsLineBreak(s[i])}
    IN  IF ends = {} THEN 0 ELSE Least(ends)

(* GetNextSeparatorPtr(): the place of the next separator or line break that *)
(* is not between quotes, or 0.                                              *)
NextSeparator(s, from, sep) ==
    LET quoted(i) == Count(SubSeq(s, from, i - 1), Quote) % 2 = 1
        ends == {i \in from..Len(s) : /\ s[i] # Quote /\ (s[i] = sep \/ IsLineBreak(s[i]))
                                      /\ ~quoted(i) /\ ~(s[i] = Semicolon /\ EndsEntity(s, i, from))}
    IN  IF ends = {} THEN 0 ELSE Least(ends)

(* StringGetEndOfHeaderMarker(): what follows stars and blanks, or 0.        *)
EndOfHeaderMarker(s) ==
    LET i == Least({i \in 1..(Len(s) + 1) : Byte(s, i) \notin {Star, Blank}})
    IN  IF \E j \in 1..(i - 1) : s[j] = Star THEN i ELSE 0

Cell(s) ==
    LET i == EndOfHeaderMarker(s)
    IN  [head |-> i > 0, text |-> IF i > 0 THEN Rest(s, i) ELSE s]

(* SplitBufferToTableDataNodes(): the last cell of the text keeps its        *)
(* doubled quotes, and is none when it is empty.                             *)
RECURSIVE Cells(_, _, _)
Cells(s, from, sep) ==
    LET i == NextSeparator(s, from, sep)
        last == RemovePairQuotes(Rest(s, from))
    IN  IF i = 0 THEN (IF last = <<>> THEN <<>> ELSE <<Cell(last)>>)
        ELSE LET cell == Cell(RemoveDoubleDoubleQuotes(RemovePairQuotes(SubSeq(s, from, i - 1))))
             IN  <<cell>> \o (IF IsLineBreak(s[i]) THEN <<>> ELSE Cells(s, i + 1, sep))

(* StringGetEndOfLinePtr(): whatever quotes are open.                        *)
EndOfLine(s, from) ==
    LET ends == {i \in from..Len(s) : IsLineBreak(s[i])} IN IF ends = {} THEN 0 ELSE Least(ends)

(* The loop of ParseCsvBuffer() over the lines.                              *)
RECURSIVE Rows(_, _, _)
Rows(s, from, sep) ==
    LET e == EndOfLine(s, from)
        next == Least({i \in e..(Len(s) + 1) : ~IsLineBreak(Byte(s, i))})
    IN  IF e = 0 THEN <<Cells(s, from, sep)>>
        ELSE <<IF e > from THEN Cells(s, from, sep) ELSE <<>> >> \o Rows(s, next, sep)

(* GetTableColumns(): an empty cell at the end of a row does not count.      *)
Columns(rows) ==
    LET width(r) == IF r # <<>> /\ r[Len(r)].text = <<>> THEN Len(r) - 1 ELSE Len(r)
    IN  Greatest({width(rows[i]) : i \in 1..Len(rows)} \cup {0})

IsHeader(r) == \E i \in 1..Len(r) : r[i].head

(* AddTableCellsEmpty(): a single header cell spans the columns; all cells   *)
(* of a header row are headers.                                              *)
Filled(r, columns) ==
    LET head == IsHeader(r)
        cell(i) == IF i <= Len(r) THEN [r[i] EXCEPT !.head = @ \/ (head /\ i <= columns)]
                   ELSE [head |-> head, text |-> <<Blank>>]
    IN  IF head /\ Len(r) = 1 THEN r
        ELSE [i \in 1..Greatest({Len(r), columns}) |-> cell(i)]
AddTableCellsEmpty(rows) ==
    LET columns == Columns(rows)
    IN  IF columns = 0 THEN rows ELSE [i \in 1..Len(rows) |-> Filled(rows[i], columns)]

(* AddTableColumnNames(): the columns are numbered in a header row.          *)
Table(rows) == [columns |-> Columns(rows), body |-> rows]

(* ParseCsvBuffer()                                                          *)
ParseCsv(s) == Table(AddTableCellsEmpty(Rows(s, 1, AutoDetectSeparator(s))))

(* CompressTable(): empty rows go, then empty columns from the last on; the  *)
(* columns of rows that are too short do not count.                          *)
IsCellEmpty(c) == NormalizeSpaces(c.text) = <<>>
WithoutColumn(rows, i) == [k \in 1..Len(rows) |-> IF i <= Len(rows[k]) THEN RemoveAt(rows[k], i) ELSE rows[k]]
RECURSIVE CompressColumns(_, _)
CompressColumns(rows, i) ==
    IF i = 0 THEN rows
    ELSE CompressColumns(IF \A k \in 1..Len(rows) : i <= Len(rows[k]) => IsCellEmpty(rows[k][i])
                         THEN WithoutColumn(rows, i) ELSE rows, i - 1)
CompressTable(rows) ==
    LET full == SelectSeq(rows, LAMBDA r : \E i \in 1..Len(r) : ~IsCellEmpty(r[i]))
    IN  CompressColumns(full, Columns(full))

-----------------------------------------------------------------------------
(* CsvKept: what a table keeps of its text: the letters, and the separators that are  *)
(* between quotes, each of them once and in their order, as long as no quote *)
(* is open at the end of a line; an empty row or column takes none away.     *)
(* Every row has all columns.                                                *)
BalancedQuotes(s) == \A i \in 1..Len(s) : IsLineBreak(s[i]) => Count(SubSeq(s, 1, i), Quote) % 2 = 0
Said(s, sep) ==
    FlattenSeq([i \in 1..Len(s) |->
        IF IsAlpha(s[i]) \/ (s[i] = sep /\ Count(SubSeq(s, 1, i), Quote) % 2 = 1) THEN <<s[i]>> ELSE <<>>])
TextOf(rows) == FlattenSeq([i \in 1..Len(rows) |-> FlattenSeq([j \in 1..Len(rows[i]) |-> rows[i][j].text])])
Kept(rows, sep) == SelectSeq(TextOf(rows), LAMBDA c : IsAlpha(c) \/ c = sep)
CsvKept(s) ==
    LET sep == AutoDetectSeparator(s)
        t == ParseCsv(s)
        whole(r) == Len(r) = t.columns \/ (Len(r) = t.columns + 1 /\ r[Len(r)].text = <<>>)
    IN  /\ BalancedQuotes(s) => Kept(t.body, sep) = Said(s, sep)
        /\ \A i \in 1..Len(t.body) : (IsHeader(t.body[i]) /\ Len(t.body[i]) = 1) \/ whole(t.body[i])
        /\ Kept(CompressTable(t.body), sep) = Kept(t.body, sep)
=============================================================================
