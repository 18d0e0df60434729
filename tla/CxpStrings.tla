----------------------------- MODULE CxpStrings -----------------------------
(* The string helpers of utils.c that change texts: quotes, spaces and line  *)
(* breaks, replacing, entities, and the encodings base64, RFC 1738, quoted   *)
(* printable and UTF-8.  A text is a sequence of its bytes.                  *)
EXTENDS Integers, Sequences, SequencesExt

NL == 10
CR == 13
Blank == 32
Quote == 34
Hash == 35
Percent == 37
Amp == 38
Apos == 39
Slash == 47
Semicolon == 59
EqualsSign == 61
Backslash == 92

IsDigit(c) == c \in 48..57
IsUpper(c) == c \in 65..90
IsAlpha(c) == IsUpper(c) \/ c \in 97..122
IsSpace(c) == c = Blank \/ c \in 9..13
IsHexDigit(c) == IsDigit(c) \/ c \in 65..70 \/ c \in 97..102
FromHex(c) == CASE IsDigit(c) -> c - 48 [] c \in 97..102 -> c - 87 [] c \in 65..70 -> c - 55 [] OTHER -> 0 - 1
ToHex(n) == IF n < 10 THEN 48 + n ELSE 55 + n

(* The byte at a place; 0 ends a text.                                       *)
Byte(s, i) == IF i \in 1..Len(s) THEN s[i] ELSE 0
Rest(s, i) == SubSeq(s, i, Len(s))
Least(S) == CHOOSE i \in S : \A j \in S : i <= j
Greatest(S) == CHOOSE i \in S : \A j \in S : i >= j

-----------------------------------------------------------------------------
(* Quotes and spaces.                                                        *)

StringBeginsWith(s, needle) == s # <<>> /\ needle # <<>> /\ IsPrefix(needle, s)

(* StringEndsWith(): spaces at the end do not count.                         *)
StringEndsWith(s, needle) ==
    LET ends == {i \in 1..Len(s) : ~IsSpace(s[i])}
    IN  s # <<>> /\ needle # <<>> /\ ends # {} /\ IsSuffix(needle, SubSeq(s, 1, Greatest(ends)))

(* StringRemovePairOfChars(): one pair, with the spaces around it.  A single *)
(* character stays, and of two characters neither spaces nor quotes go.      *)
RemovePairOfChars(s, open, close) ==
    LET marks == {i \in 1..Len(s) : ~IsSpace(s[i])}
        a == Least(marks)
        b == Greatest(marks)
    IN  IF marks = {} THEN <<>>
        ELSE IF a = b THEN <<s[a]>>
        ELSE IF s[a] = open /\ s[b] = close THEN SubSeq(s, a + 1, b - 1)
        ELSE IF b - a > 1 THEN SubSeq(s, a, b) ELSE s

(* StringRemovePairQuotes(): a text that begins with a quote keeps its       *)
(* spaces if it does not end with the same one.                              *)
RemovePairQuotes(s) ==
    LET marks == {i \in 1..Len(s) : ~IsSpace(s[i])}
        a == Least(marks)
    IN  IF marks # {} /\ s[a] \in {Quote, Apos} /\ a # Greatest(marks)
        THEN IF s[Greatest(marks)] = s[a] THEN SubSeq(s, a + 1, Greatest(marks) - 1) ELSE s
        ELSE RemovePairOfChars(s, Quote, Quote)

HasPairQuotes(s) ==
    LET marks == {i \in 1..Len(s) : ~IsSpace(s[i])}
    IN  marks # {} /\ s[Least(marks)] \in {Quote, Apos} /\ s[Least(marks)] = s[Greatest(marks)]
AddPairQuotes(s, q) == IF s = <<>> \/ HasPairQuotes(s) THEN s ELSE <<q>> \o s \o <<q>>

RECURSIVE RemoveDoubleDoubleQuotes(_)
RemoveDoubleDoubleQuotes(s) ==
    IF s = <<>> THEN s
    ELSE IF s[1] = Quote /\ Byte(s, 2) = Quote THEN <<Quote>> \o RemoveDoubleDoubleQuotes(Rest(s, 3))
    ELSE <<s[1]>> \o RemoveDoubleDoubleQuotes(Tail(s))
DoubleQuotes(s) == FlattenSeq([i \in 1..Len(s) |-> IF s[i] = Quote THEN <<Quote, Quote>> ELSE <<s[i]>>])

(* StringRemoveBackslashes(): a backslash at the end is not followed.        *)
RECURSIVE RemoveBackslashes(_)
RemoveBackslashes(s) ==
    IF s = <<>> \/ s = <<Backslash>> THEN <<>>
    ELSE IF s[1] = Backslash THEN <<s[2]>> \o RemoveBackslashes(Rest(s, 3))
    ELSE <<s[1]>> \o RemoveBackslashes(Tail(s))

(* NormalizeStringSpaces()                                                   *)
NormalizeSpaces(s) ==
    LET marks == {i \in 1..Len(s) : ~IsSpace(s[i])}
        kept(i) == i \in marks \/ (i - 1) \in marks
        inner == SubSeq(s, Least(marks), Greatest(marks))
    IN  IF marks = {} THEN <<>>
        ELSE FlattenSeq([i \in 1..Len(inner) |->
                IF ~IsSpace(inner[i]) THEN <<inner[i]>>
                ELSE IF kept(i + Least(marks) - 1) THEN <<Blank>> ELSE <<>>])
NormalizeNewLines(s) == SelectSeq(s, LAMBDA c : c # CR)

(* chomp(): blanks at the beginning, line breaks anywhere, blanks at the     *)
(* end; the first byte always stays.                                         *)
Chomp(s) ==
    LET marks == {i \in 1..Len(s) : s[i] # Blank}
        t == IF marks = {} THEN <<>> ELSE SelectSeq(Rest(s, Least(marks)), LAMBDA c : c \notin {NL, CR})
        ends == {i \in 2..Len(t) : t[i] # Blank}
    IN  SubSeq(t, 1, IF ends = {} THEN (IF t = <<>> THEN 0 ELSE 1) ELSE Greatest(ends))

-----------------------------------------------------------------------------
(* Replacing.                                                                *)

Found(s, needle, from) == {i \in from..(Len(s) - Len(needle) + 1) : SubSeq(s, i, i + Len(needle) - 1) = needle}

(* The numeric entity that an ampersand begins ends at this place, or 0.     *)
EntityEnd(s, i) ==
    LET digits == IF Byte(s, i + 2) = 120 THEN i + 3 ELSE i + 2
        ends == {j \in digits..(Len(s) + 1) : ~IsHexDigit(Byte(s, j)) /\ \A k \in digits..(j - 1) : IsHexDigit(s[k])}
        e == Least(ends)
    IN  IF Byte(s, i + 1) = Hash /\ e - i > 2 /\ e - i < 9 /\ Byte(s, e) = Semicolon THEN e ELSE 0

(* ReplaceStr(): an ampersand of a numeric entity is passed over, but only   *)
(* once at each step.                                                        *)
RECURSIVE ReplaceStr(_, _, _)
ReplaceStr(s, needle, by) ==
    LET first == Found(s, needle, 1)
        e == IF needle = <<Amp>> THEN EntityEnd(s, Least(first)) ELSE 0
        next == IF e = 0 THEN first ELSE Found(s, needle, e + 1)
        i == Least(next)
    IN  IF needle = <<>> \/ first = {} \/ next = {} THEN s
        ELSE SubSeq(s, 1, i - 1) \o by \o ReplaceStr(Rest(s, i + Len(needle)), needle, by)

EntityOf(c) == CASE c = Amp -> <<Amp, 97, 109, 112, Semicolon>>
                 [] c = 60 -> <<Amp, 108, 116, Semicolon>>
                 [] c = 62 -> <<Amp, 103, 116, Semicolon>>
                 [] OTHER -> <<c>>
(* StringEncodeXmlDefaultEntitiesNew()                                       *)
EncodeXmlDefaultEntities(s) == FlattenSeq([i \in 1..Len(s) |-> EntityOf(s[i])])

-----------------------------------------------------------------------------
(* Encodings.                                                                *)

(* GetUTF8Bytes(), for the codes up to 0x10FFFF.                             *)
UTF8Bytes(n) ==
    LET tail(bits) == 128 + ((n \div (2 ^ bits)) % 64)
    IN  IF n < 128 THEN <<n>>
        ELSE IF n < 2048 THEN <<192 + n \div 64, tail(0)>>
        ELSE IF n < 65536 THEN <<224 + n \div 4096, tail(6), tail(0)>>
        ELSE <<240 + n \div 262144, tail(12), tail(6), tail(0)>>

(* strtol(): the digits from a place on, and the place behind them.          *)
RECURSIVE Digits(_, _, _, _)
Digits(s, i, base, n) ==
    LET d == FromHex(Byte(s, i))
    IN  IF d < 0 \/ d >= base THEN [n |-> n, end |-> i] ELSE Digits(s, i + 1, base, n * base + d)

(* A numeric character at a place: its code and the place behind it.         *)
NumericAt(s, i) ==
    LET none == [n |-> 0 - 1, end |-> i]
        closed(r) == IF Byte(s, r.end) = Semicolon THEN [r EXCEPT !.end = @ + 1] ELSE none
    IN  IF Byte(s, i) = Backslash /\ Byte(s, i + 1) \in {85, 117} /\ IsHexDigit(Byte(s, i + 2))
        THEN Digits(s, i + 2, 16, 0)
        ELSE IF Byte(s, i) = Amp /\ Byte(s, i + 1) = Hash
        THEN IF Byte(s, i + 2) = 120 /\ IsHexDigit(Byte(s, i + 3)) THEN closed(Digits(s, i + 3, 16, 0))
             ELSE IF IsDigit(Byte(s, i + 2)) THEN closed(Digits(s, i + 2, 10, 0))
             ELSE none
        ELSE none

(* StringDecodeNumericCharsNew(): the codes of the control characters from   *)
(* 130 on stay as they are written, as far as nothing was decoded before.    *)
RECURSIVE DecodeNumericFrom(_, _)
DecodeNumericFrom(s, i) ==
    LET r == NumericAt(s, i)
    IN  IF i > Len(s) THEN <<>>
        ELSE IF r.n < 0 THEN <<s[i]>> \o DecodeNumericFrom(s, i + 1)
        ELSE (IF r.n \in 130..159 THEN SubSeq(s, i, r.end - 1) ELSE UTF8Bytes(r.n)) \o DecodeNumericFrom(s, r.end)
DecodeNumericChars(s) == DecodeNumericFrom(s, 1)

(* base64encode(): values of six bits, 64 is the sign of equality.           *)
RECURSIVE Base64Encode(_)
Base64Encode(s) ==
    LET n == Byte(s, 1) * 65536 + Byte(s, 2) * 256 + Byte(s, 3)
        six == <<n \div 262144, (n \div 4096) % 64, (n \div 64) % 64, n % 64>>
    IN  CASE s = <<>> -> <<>>
          [] Len(s) = 1 -> SubSeq(six, 1, 2) \o <<64, 64>>
          [] Len(s) = 2 -> SubSeq(six, 1, 3) \o <<64>>
          [] OTHER -> six \o Base64Encode(Rest(s, 4))

(* base64decode(): the values are shifted into a buffer of 24 bits with a    *)
(* mark in front, and what is left at the end tells how many bytes it is.    *)
RECURSIVE Base64Shift(_, _)
Base64Shift(t, buf) ==
    LET next == buf * 64 + t[1]
    IN  IF t = <<>> \/ t[1] = 64
        THEN IF buf >= 262144 THEN <<(buf \div 1024) % 256, (buf \div 4) % 256>>
             ELSE IF buf >= 4096 THEN <<(buf \div 16) % 256>> ELSE <<>>
        ELSE IF next >= 16777216
        THEN <<(next \div 65536) % 256, (next \div 256) % 256, next % 256>> \o Base64Shift(Tail(t), 1)
        ELSE Base64Shift(Tail(t), next)
Base64Decode(t) == Base64Shift(t, 1)

Unreserved(c) == IsDigit(c) \/ IsAlpha(c) \/ c \in {44, 45, 46, Slash, 95}

(* Mutant: a percent sign is not encoded.                                    *)
EncodedByteUnreserved(c) ==
    IF Unreserved(c) \/ c = Percent THEN <<c>>
    ELSE IF c = Backslash THEN <<Slash>>
    ELSE <<Percent>> \o (IF c < 16 THEN <<ToHex(c)>> ELSE <<ToHex(c \div 16), ToHex(c % 16)>>)

(* EncodeRFC1738(): a byte below 16 gets one digit only.                     *)
EncodedByte(c) ==
    IF Unreserved(c) THEN <<c>>
    ELSE IF c = Backslash THEN <<Slash>>
    ELSE <<Percent>> \o (IF c < 16 THEN <<ToHex(c)>> ELSE <<ToHex(c \div 16), ToHex(c % 16)>>)

(* The entities that count as the characters they stand for.                 *)
EntityNames == {[text |-> <<Amp, 97, 109, 112, Semicolon>>, stands |-> Amp],
                [text |-> <<Amp, 97, 112, 111, 115, Semicolon>>, stands |-> Apos],
                [text |-> <<Amp, 113, 117, 111, 116, Semicolon>>, stands |-> Quote]}
RECURSIVE Resolving(_)
Resolving(s) ==
    LET e == CHOOSE e \in EntityNames : IsPrefix(e.text, s)
    IN  IF s = <<>> THEN s
        ELSE IF \E n \in EntityNames : IsPrefix(n.text, s) THEN <<e.stands>> \o Resolving(Rest(s, Len(e.text) + 1))
        ELSE <<s[1]>> \o Resolving(Tail(s))
EncodeRFC1738(s) == LET t == Resolving(s) IN FlattenSeq([i \in 1..Len(t) |-> EncodedByte(t[i])])

(* DecodeRFC1738(): what is no code stays.                                   *)
RECURSIVE DecodeRFC1738(_)
DecodeRFC1738(s) ==
    LET high == FromHex(Byte(s, 2))
        low == FromHex(Byte(s, 3))
    IN  IF s = <<>> THEN s
        ELSE IF s[1] # Percent THEN <<s[1]>> \o DecodeRFC1738(Tail(s))
        ELSE IF Byte(s, 2) = Percent THEN <<Percent>> \o DecodeRFC1738(Rest(s, 3))
        ELSE IF high >= 0 /\ low >= 0 /\ high * 16 + low > 0
        THEN <<high * 16 + low>> \o DecodeRFC1738(Rest(s, 4))
        ELSE <<Percent>> \o DecodeRFC1738(Tail(s))

(* DecodeQuotedPrintable(): upper case only, and no control characters.      *)
RECURSIVE DecodeQuotedPrintable(_)
DecodeQuotedPrintable(s) ==
    LET upper(c) == IF IsDigit(c) \/ c \in 65..70 THEN FromHex(c) ELSE 0 - 1
        alnum(c) == IsDigit(c) \/ IsAlpha(c)
        k == upper(Byte(s, 2)) * 16 + upper(Byte(s, 3))
        right == upper(Byte(s, 2)) >= 0 /\ upper(Byte(s, 3)) >= 0 /\ k > 31 /\ k < 255
    IN  IF s = <<>> THEN s
        ELSE IF s[1] = EqualsSign /\ alnum(Byte(s, 2)) /\ alnum(Byte(s, 3))
        THEN (IF right THEN <<k>> ELSE <<95>>) \o DecodeQuotedPrintable(Rest(s, 4))
        ELSE <<s[1]>> \o DecodeQuotedPrintable(Tail(s))

-----------------------------------------------------------------------------
(* What an encoding writes is read back as the same text: base64, quotes,    *)
(* doubled quotes within quotes, the entities of XML, and RFC 1738, where    *)
(* backslashes become slashes and entities their characters, exactly for the *)
(* texts without a byte below 16 (utils.c:1562 writes one digit for it).     *)
(* Cleaning a text twice changes nothing more, if no line break or blank is  *)
(* in front of it.                                                           *)
TextsSurvive(s) ==
    /\ LET t == Resolving(s)
           read == [i \in 1..Len(t) |-> IF t[i] = Backslash THEN Slash ELSE t[i]]
       IN  DecodeRFC1738(EncodeRFC1738(s)) = read <=> \A i \in 1..Len(s) : s[i] >= 16
    /\ Base64Decode(Base64Encode(s)) = s
    /\ (s # <<>> /\ ~HasPairQuotes(s)) => RemovePairQuotes(AddPairQuotes(s, Quote)) = s
    /\ RemoveDoubleDoubleQuotes(RemovePairQuotes(<<Quote>> \o DoubleQuotes(s) \o <<Quote>>)) = s
    /\ ReplaceStr(EncodeXmlDefaultEntities(s), EntityOf(Amp), <<Amp>>) =
          FlattenSeq([i \in 1..Len(s) |-> IF s[i] = Amp THEN <<Amp>> ELSE EntityOf(s[i])])
    /\ NormalizeSpaces(NormalizeSpaces(s)) = NormalizeSpaces(s)
    /\ (s # <<>> /\ s[1] \notin {Blank, NL, CR}) => Chomp(Chomp(s)) = Chomp(s) /\ Chomp(NormalizeNewLines(s)) = Chomp(s)
    /\ \A i \in 1..Len(s) : StringEndsWith(s, Rest(s, i)) <=> ~IsSpace(s[Len(s)])
=============================================================================
