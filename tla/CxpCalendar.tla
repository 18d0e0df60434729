----------------------------- MODULE CxpCalendar -----------------------------
(* Dates, their repetitions and the calendar documents made of them          *)
(* (calendar_element.c, cxp_calendar.c, the date parsers of utils.c).        *)
(*                                                                           *)
(* A day is its number, as in the c-dt library: day 1 is 0001-01-01, and 0   *)
(* says there is none.  A date text is a sequence of the parts between its   *)
(* slashes, each a record with the kind "is" and the numbers written in it.  *)
EXTENDS Integers, Sequences, FiniteSets

CONSTANT Today          (* the number of the present day *)

NoDate == 0
DaySeconds == 24 * 60 * 60
RepeatMax == 99

IsLeap(y) == y % 4 = 0 /\ (y % 100 # 0 \/ y % 400 = 0)

(* dt_from_ymd() of c-dt: any number of months and days is normalised.       *)
FromYmd(yy, mm, d) ==
    LET y == yy + ((mm - 1) \div 12)
        m == ((mm - 1) % 12) + 1
    IN  365 * (y - 1) + ((y - 1) \div 4) - ((y - 1) \div 100) + ((y - 1) \div 400)
        + ((367 * m - 362) \div 12) + (IF m < 3 THEN 0 ELSE IF IsLeap(y) THEN -1 ELSE -2) + d

Monday(n) == n - ((n - 1) % 7)
FromYwd(y, w, d) == Monday(FromYmd(y, 1, 4)) + 7 * (w - 1) + d - 1

YearOf(n) ==
    LET y == ((n * 400) \div 146097) + 1
    IN  IF FromYmd(y + 1, 1, 1) <= n THEN y + 1 ELSE IF n < FromYmd(y, 1, 1) THEN y - 1 ELSE y
MonthOf(n) == LET y == YearOf(n) IN CHOOSE m \in 1..12 : FromYmd(y, m, 1) <= n /\ n < FromYmd(y, m + 1, 1)
MonthDay(n) == n - FromYmd(YearOf(n), MonthOf(n), 1) + 1
WeekOf(n) == LET y == YearOf(Monday(n) + 3) IN ((n - FromYwd(y, 1, 1)) \div 7) + 1

(* dt_add_months() with DT_EXCESS: days past the end of the month move on.   *)
AddMonths(n, k) == FromYmd(YearOf(n), MonthOf(n) + k, MonthDay(n))

-----------------------------------------------------------------------------
(* The parts of a date text.                                                 *)

(* CalendarElementUpdate(): the text without the separators within dates and *)
(* times; a minus in a period or offset is refused (<<>>).                   *)
RECURSIVE Simplify(_, _)
Simplify(w, in) ==
    IF w = <<>> \/ w[1] = " " THEN [text |-> <<>>, ok |-> TRUE]
    ELSE LET c == w[1]
             now == IF c = "/" THEN "date" ELSE IF c \in {"O", "P"} THEN "period"
                    ELSE IF c = "T" /\ in = "date" THEN "time" ELSE in
             rest == Simplify(Tail(w), now)
             put == IF c = ":" \/ (c = "-" /\ in = "date") THEN <<>>
                    ELSE IF c = "minus" THEN <<"-">> ELSE <<c>>
         IN  [text |-> put \o rest.text, ok |-> rest.ok /\ ~(c = "-" /\ in = "period")]

Simplified(w) == LET s == Simplify(w, "date") IN IF s.ok /\ Len(s.text) > 3 THEN s.text ELSE <<>>

(* dt_parse_iso_recurrence(): "R/" and "R-1/" repeat as often as possible.   *)
RepeatOf(n) == IF n = -1 THEN RepeatMax ELSE n
IsRepeat(n) == n \in -1..RepeatMax

(* dt_parse_iso_period(): the amounts [n, unit] of a period, the time behind *)
(* "T"; each unit is given once, amounts of nothing do not count.            *)
RECURSIVE PeriodFrom(_, _, _)
PeriodFrom(amounts, p, time) ==
    IF amounts = <<>> THEN [p EXCEPT !.ok = TRUE]
    ELSE LET a == Head(amounts)
             u == IF time /\ a.unit = "M" THEN "min" ELSE a.unit
         IN  IF a.unit = "T" THEN (IF time THEN p ELSE PeriodFrom(Tail(amounts), p, TRUE))
             ELSE IF a.n = 0 THEN PeriodFrom(Tail(amounts), p, time)
             ELSE IF u \notin (IF time THEN {"H", "min", "S"} ELSE {"Y", "M", "W", "D"}) \/ p[u] # 0 THEN p
             ELSE PeriodFrom(Tail(amounts), [p EXCEPT ![u] = a.n], time)

NoPeriod == [ok |-> FALSE, Y |-> 0, M |-> 0, W |-> 0, D |-> 0, H |-> 0, min |-> 0, S |-> 0]
PeriodOf(amounts) == PeriodFrom(amounts, NoPeriod, FALSE)
Months(p) == p.Y * 12 + p.M
Seconds(p) == p.H * 3600 + p.min * 60 + p.S

(* dt_parse_eternal_date(): the year 0000 is the present one.                *)
DayOfDate(p) == FromYmd(IF p.y = 0 THEN YearOf(Today) ELSE p.y, p.m, p.d)

(* dt_parse_iso_date_time_zone(): the day and second of day in UTC; without  *)
(* a time the second is none.  A zone counts between -12 and 14 hours.       *)
Moment(p) ==
    LET o == IF -12 * 60 < p.zone /\ p.zone < 14 * 60 THEN p.zone * 60 ELSE 0
        t == p.sec - o
        d == DayOfDate(p)
    IN  IF p.sec = -1 THEN [day |-> d, sec |-> 0]
        ELSE IF t < 0 THEN [day |-> d - 1, sec |-> DaySeconds + t]
        ELSE IF t > DaySeconds THEN [day |-> d + 1, sec |-> t - DaySeconds]
        ELSE [day |-> d, sec |-> t]

-----------------------------------------------------------------------------
(* ScanCalendarElementDate(): begin (d0, s0), end (d1, s1), period, repeats. *)

NoElement == [ok |-> FALSE, d0 |-> NoDate, s0 |-> 0, d1 |-> NoDate, s1 |-> 0, p |-> NoPeriod, left |-> 0, index |-> 0]

Is(w, i, kind) == i <= Len(w) /\ w[i].is = kind
ValidYear(y) == y < 2999
Valid(p) ==
    CASE p.is = "year" -> ValidYear(p.y)
      [] p.is = "month" -> ValidYear(p.y) /\ p.m \in 1..12
      [] p.is = "week" -> ValidYear(p.y) /\ p.w < 54
      [] p.is = "quarter" -> ValidYear(p.y) /\ p.q \in 1..4
      [] OTHER -> TRUE

(* The first and the last day of a year, quarter, month or week.             *)
FirstDay(p) ==
    CASE p.is = "year" -> FromYmd(p.y, 1, 1)
      [] p.is = "quarter" -> FromYmd(p.y, (p.q - 1) * 3 + 1, 1)
      [] p.is = "month" -> FromYmd(p.y, p.m, 1)
      [] OTHER -> FromYwd(p.y, p.w, 1)
LastDay(p) ==
    CASE p.is = "year" -> FromYmd(p.y + 1, 1, 0)
      [] p.is = "quarter" -> FromYmd(p.y, p.q * 3 + 1, 0)
      [] p.is = "month" -> FromYmd(p.y, p.m + 1, 0)
      [] OTHER -> FromYwd(p.y, p.w, 7)

(* Mutant: the day before a period's end is not subtracted.                  *)
EndOfPeriodLate(day, sec, p) ==
    LET far == IF p.W # 0 THEN day + 7 * p.W + p.D
               ELSE IF Months(p) # 0 THEN AddMonths(day, Months(p)) + p.D
               ELSE IF p.D # 0 THEN day + p.D ELSE day
    IN  [day |-> far + (Seconds(p) \div DaySeconds), sec |-> IF Seconds(p) > 0 THEN sec + (Seconds(p) % DaySeconds) ELSE 0]

(* date/period: the end.                                                     *)
EndOfPeriod(day, sec, p) ==
    LET far == IF p.W # 0 THEN day + 7 * p.W + p.D - 1
               ELSE IF Months(p) # 0 THEN AddMonths(day, Months(p)) - 1 + p.D
               ELSE IF p.D # 0 THEN day + p.D - 1 ELSE day
    IN  [day |-> far + (Seconds(p) \div DaySeconds), sec |-> IF Seconds(p) > 0 THEN sec + (Seconds(p) % DaySeconds) ELSE 0]

(* period/date: the begin, in a repetition (with one day more) and without.  *)
BeginOfPeriod(end, p, repeated) ==
    LET near == IF p.W # 0 THEN end.day - (7 * p.W - 1) ELSE AddMonths(end.day, -Months(p)) - 1
        days == IF p.D = 0 THEN near ELSE near - p.D + (IF repeated THEN 1 ELSE 0)
    IN  [day |-> days - (Seconds(p) \div DaySeconds),
         sec |-> IF Seconds(p) > 0 THEN end.sec - (Seconds(p) % DaySeconds) ELSE 0]

(* date/offset and offset/date: the day moved by weeks and days, by months   *)
(* and days, or by days; an offset of hours only loses the date behind it.   *)
MovedOn(from, p) ==
    [day |-> (IF p.W # 0 \/ Months(p) = 0 THEN from.day + 7 * p.W ELSE AddMonths(from.day, Months(p)))
             + p.D + (Seconds(p) \div DaySeconds),
     sec |-> from.sec + (Seconds(p) % DaySeconds)]
MovedBack(from, p) ==
    [day |-> (IF p.W # 0 THEN from.day - (7 * p.W + p.D)
              ELSE IF Months(p) # 0 THEN AddMonths(from.day, -Months(p)) - p.D
              ELSE IF p.D # 0 THEN from.day - p.D ELSE NoDate) - (Seconds(p) \div DaySeconds),
     sec |-> IF Seconds(p) > 0 THEN from.sec - (Seconds(p) % DaySeconds) ELSE 0]

From0(e, at) == [e EXCEPT !.d0 = at.day, !.s0 = at.sec]
From1(e, at) == [e EXCEPT !.d1 = at.day, !.s1 = at.sec]
Failed(e) == [e EXCEPT !.ok = FALSE]

(* R/date, R/date/period, R/date/date/period, R/period/date, and the latter  *)
(* with a period behind it.                                                  *)
ScanRepeat(w) ==
    LET e == [NoElement EXCEPT !.left = RepeatOf(w[1].n), !.ok = TRUE]
        at(i) == Moment(w[i])
        period(x, i) == IF Is(w, i, "period") THEN [x EXCEPT !.p = w[i].p] ELSE Failed(x)
    IN  IF Is(w, 2, "date")
        THEN LET x == From0(e, at(2))
             IN  IF Len(w) = 2 THEN x
                 ELSE IF Is(w, 3, "date") THEN period(From1(x, at(3)), 4)
                 ELSE period(x, 3)
        ELSE IF Is(w, 2, "period") /\ Is(w, 3, "date")
        THEN LET x == From0(From1(e, at(3)), BeginOfPeriod(at(3), w[2].p, TRUE))
             IN  IF Len(w) = 3 THEN x ELSE period(x, 4)
        ELSE Failed(e)

(* period/date, offset/date, and a period that ends with a week, month, year.*)
ScanPeriod(w) ==
    LET e == [NoElement EXCEPT !.ok = TRUE]
        p == w[1].p
        next == LastDay(w[2]) + 1
        from == IF w[2].is = "week" /\ p.W # 0 THEN next - 7 * p.W
                ELSE IF Months(p) # 0 THEN AddMonths(next, -Months(p)) ELSE NoDate
    IN  IF Is(w, 2, "date")
        THEN IF w[1].offset
             THEN From0(e, MovedBack(Moment(w[2]), p))
             ELSE From0(From1(e, Moment(w[2])), BeginOfPeriod(Moment(w[2]), p, FALSE))
        ELSE IF Len(w) > 1 /\ w[2].is \in {"week", "month", "year"} /\ Valid(w[2])
        THEN [e EXCEPT !.d0 = from, !.d1 = next - 1]
        ELSE Failed(e)

(* date, date/offset, date/period, date/date; anything else behind the slash *)
(* is left out.                                                              *)
ScanDate(w) ==
    LET e == From0([NoElement EXCEPT !.ok = TRUE], Moment(w[1]))
    IN  IF Is(w, 2, "period")
        THEN IF w[2].offset THEN From0(e, MovedOn(Moment(w[1]), w[2].p))
             ELSE From1(e, EndOfPeriod(e.d0, e.s0, w[2].p))
        ELSE IF Is(w, 2, "date") THEN From1(e, Moment(w[2]))
        ELSE e

(* A year, month, week or quarter alone, to another one, or for a period     *)
(* (not a quarter).  A year with something else is taken without any date.   *)
ScanSpan(w) ==
    LET e == [NoElement EXCEPT !.ok = TRUE]
        first == FirstDay(w[1])
        p == w[2].p
        far == CASE w[1].is = "year" -> IF Months(p) # 0 THEN AddMonths(first, Months(p)) - 1 ELSE NoDate
                 [] w[1].is = "month" -> AddMonths(first, Months(p)) - 1
                 [] OTHER -> AddMonths(first, Months(p)) + 7 * p.W + p.D - 1
    IN  IF ~Valid(w[1]) THEN Failed(e)
        ELSE IF Len(w) = 1 THEN [e EXCEPT !.d0 = first, !.d1 = LastDay(w[1])]
        ELSE IF w[2].is = w[1].is
        THEN IF Valid(w[2]) THEN [e EXCEPT !.d0 = first, !.d1 = LastDay(w[2])] ELSE Failed(e)
        ELSE IF w[2].is = "period" /\ w[1].is # "quarter" THEN [e EXCEPT !.d0 = first, !.d1 = far]
        ELSE [e EXCEPT !.ok = w[1].is = "year"]

(* The end of the function: an interval begins with its earlier day, and an  *)
(* interval of one day without times is a date.                              *)
Ordered(e) ==
    IF e.d1 <= 0 THEN e
    ELSE IF e.d1 < e.d0 THEN [e EXCEPT !.d0 = e.d1, !.d1 = e.d0]
    ELSE IF e.d1 = e.d0 /\ e.s0 <= 0 /\ e.s1 <= 0 THEN [e EXCEPT !.d1 = NoDate]
    ELSE e

Scan(w) ==
    IF w = <<>> THEN NoElement
    ELSE Ordered(CASE w[1].is = "repeat" -> IF Len(w) > 1 /\ IsRepeat(w[1].n) THEN ScanRepeat(w) ELSE NoElement
                   [] w[1].is = "period" -> ScanPeriod(w)
                   [] w[1].is = "date" -> ScanDate(w)
                   [] w[1].is = "text" -> NoElement
                   [] OTHER -> ScanSpan(w))

-----------------------------------------------------------------------------
(* SplitCalendarElementRecurrences(): the element and its repetitions, each  *)
(* made of the one before.  The begin of an interval of several days moves   *)
(* by the interval's length, and its end stays.                              *)
MovedBy(n, p, sign) == IF p.W # 0 THEN n + sign * 7 * p.W ELSE AddMonths(n, sign * Months(p)) + sign * p.D

NextRepeat(e, o) ==
    LET x == [e EXCEPT !.index = @ + 1, !.left = @ - 1]
    IN  IF o > 0 THEN [x EXCEPT !.d0 = @ + o]
        ELSE IF e.d0 > 0 /\ e.d1 > 0 THEN [x EXCEPT !.d0 = MovedBy(@, e.p, 1), !.d1 = MovedBy(@, e.p, 1)]
        ELSE IF e.d0 > 0 THEN [x EXCEPT !.d0 = MovedBy(@, e.p, 1)]
        ELSE [x EXCEPT !.d1 = MovedBy(@, e.p, -1)]

RECURSIVE Repeats(_, _)
Repeats(e, o) == IF e.left = 0 THEN <<>> ELSE LET x == NextRepeat(e, o) IN <<x>> \o Repeats(x, o)

Split(e) ==
    IF (e.d0 > 0 \/ e.d1 > 0) /\ e.left > 0
    THEN <<e>> \o Repeats(e, IF e.d0 > 0 /\ e.d1 > 0 THEN e.d1 - e.d0 ELSE 0)
    ELSE <<e>>

(* AddNodeDateAttributes(): the days from today to the nearest day.          *)
DaysAway(e) ==
    IF e.d1 > e.d0
    THEN IF e.d1 < Today THEN e.d1 - Today ELSE IF Today < e.d0 THEN e.d0 - Today ELSE 0
    ELSE e.d0 - Today

(* The attributes of the date node: of an interval, or of a single day.      *)
DateAttributes(e) ==
    IF (e.d0 > 0 /\ e.d1 > e.d0) \/ (e.s0 > 0 /\ e.s1 > 0)
    THEN [begin |-> e.d0, end |-> e.d1, interval |-> e.d1 - e.d0 + 1, diff |-> DaysAway(e)]
    ELSE [begin |-> IF e.d1 > 0 THEN e.d1 ELSE e.d0, end |-> 0, interval |-> 1, diff |-> DaysAway(e)]

(* The whole of a date node: the attributes of its element, or those of one  *)
(* further node for each repetition; a text that is no date replaces it.     *)
DateNodes(w) == LET e == Scan(w) IN IF e.ok THEN [i \in DOMAIN Split(e) |-> DateAttributes(Split(e)[i])] ELSE <<>>

-----------------------------------------------------------------------------
(* Calendar documents (cxp_calendar.c).                                      *)

YearMin == 1970

(* Mutant: the ends of the intervals are not looked at.                      *)
YearsOfBegins(es) == {y \in {YearOf(es[i].d0) : i \in DOMAIN es} : y > 0}

(* GetYearMinMax(): the years of all begins and ends.                        *)
YearsOf(es) == {y \in {YearOf(es[i].d0) : i \in DOMAIN es} \cup {YearOf(es[i].d1) : i \in DOMAIN es} : y > 0}
Lowest(S) == CHOOSE x \in S : \A y \in S : x <= y
Highest(S) == CHOOSE x \in S : \A y \in S : y <= x
Span(a, b) == [i \in 1..(IF b < a THEN 0 ELSE b - a + 1) |-> a + i - 1]

(* GetYearArray(): the years of the attribute, or the ones the dates need    *)
(* when they are less than 20 years apart, or the present one.               *)
YearArray(attr, es) ==
    LET found == YearsOf(es)
        lo == IF found = {} THEN YearOf(Today) ELSE Lowest(found)
        hi == IF found = {} THEN YearOf(Today) ELSE Highest(found)
    IN  IF attr.is = "range" /\ attr.a > 1900 /\ attr.b >= attr.a - 2 THEN Span(attr.a, attr.b)
        ELSE IF attr.is = "list" THEN attr.ys
        ELSE IF attr.is = "one" /\ attr.a > 1900 THEN <<attr.a>>
        ELSE IF hi - lo < 20 THEN Span(lo, hi)
        ELSE <<YearOf(Today)>>

(* AddYears(): the first year is left out, and the comparison with the last  *)
(* one takes the year for a day, so it never ends the loop.                  *)
AddYears(attr, es) ==
    LET isLate(y) == LastDay([is |-> "year", y |-> YearOf(y)]) > FromYmd(2071, 1, 0)
        years == SelectSeq(YearArray(attr, es), LAMBDA y : FromYmd(y, 1, 1) >= FromYmd(YearMin + 1, 1, 0))
        late == {i \in DOMAIN years : isLate(years[i])}
    IN  IF late = {} THEN years ELSE SubSeq(years, 1, Lowest(late) - 1)

(* AddTreeYear(): the node where the entries of a day are put; a year that   *)
(* is given twice has two trees, and the later one is used.                  *)
HasNode(years, n) == \E i \in DOMAIN years : years[i] = YearOf(n)
NodeOf(type, years, n) ==
    LET i == Highest({j \in DOMAIN years : years[j] = YearOf(n)})
    IN  CASE type = "year" -> <<i>>
          [] type = "month" -> <<i, "month", MonthOf(n)>>
          [] type = "week" -> <<i, "week", Monday(n)>>
          [] OTHER -> <<i, "day", n>>

(* CalendarUpdate(): the nodes an element is put into, one for each day of   *)
(* an interval that begins and ends within the years, and otherwise the one  *)
(* of its first day.                                                         *)
Places(type, years, e) ==
    IF e.d0 = NoDate \/ ~HasNode(years, e.d0) THEN <<>>
    ELSE IF e.d1 > 0 /\ HasNode(years, e.d1)
    THEN LET days == SelectSeq(Span(e.d0, e.d1), LAMBDA n : HasNode(years, n))
         IN  [i \in DOMAIN days |-> NodeOf(type, years, days[i])]
    ELSE <<NodeOf(type, years, e.d0)>>

(* GetCalendarNodeYear(), -Month(), -Week(), -Day(): the first node with the *)
(* numbers of a day; days are found below months, and a week by the year of  *)
(* the day and the number of the week.                                       *)
FoundNode(type, years, n) ==
    LET y == YearOf(n)
        i == Lowest({j \in DOMAIN years : years[j] = y})
        weeks == {d \in FromYmd(y, 1, 1)..FromYmd(y + 1, 1, 0) : WeekOf(d) = WeekOf(n)}
    IN  IF ~HasNode(years, n) \/ type \in {"wday", "yday"} THEN <<>>
        ELSE CASE type = "year" -> <<i>>
               [] type = "month" -> <<i, "month", MonthOf(n)>>
               [] type = "week" -> <<i, "week", Monday(Lowest(weeks))>>
               [] OTHER -> <<i, "day", n>>

(* CalendarSetToday()                                                        *)
MarkedToday(type, years) == FoundNode(type, years, Today)

(* RegisterAndParseDateNodes(): the elements of all date texts, in order.    *)
RECURSIVE Register(_)
Register(texts) ==
    IF texts = <<>> THEN <<>>
    ELSE LET e == Scan(Head(texts)) IN (IF e.ok THEN Split(e) ELSE <<>>) \o Register(Tail(texts))

(* calProcessCalendarNode(): what is put where.                              *)
Calendar(type, attr, texts) ==
    LET es == Register(texts)
        years == AddYears(attr, es)
    IN  [years |-> years, marked |-> MarkedToday(type, years),
         places |-> [i \in DOMAIN es |-> Places(type, years, es[i])]]

(* SubstituteFormatStr(): the formats of a year's or a day's column; the age *)
(* (%B) is put when it is positive, the distance (%D) never is, since the    *)
(* day number does not parse as a date.  A format without value stays.       *)
Formatted(w, years, day, onDay) ==
    LET y == YearOf(day)
        value(f) == CASE f.is = "Y" -> <<y>>
                      [] f.is = "B" -> IF y > f.y THEN <<y - f.y>> ELSE <<>>
                      [] f.is \in {"D", "MOON"} -> <<>>
                      [] f.is = "m" /\ onDay -> <<MonthOf(day)>>
                      [] f.is = "d" /\ onDay -> <<MonthDay(day)>>
                      [] f.is = "j" /\ onDay -> <<day - FromYmd(y, 1, 1) + 1>>
                      [] f.is = "V" /\ onDay -> <<WeekOf(day)>>
                      [] OTHER -> <<f>>
    IN  [i \in DOMAIN w |-> value(w[i])]

-----------------------------------------------------------------------------
(* Properties.                                                               *)

Spans == {"year", "quarter", "month", "week"}

(* What two texts say of the same days agrees: the span from one year,       *)
(* quarter, month or week to another has the first day of the one and the    *)
(* last of the other; a quarter is its three months, a year its quarters;    *)
(* and one month is the month of its period, before and behind the slash.    *)
(* A period and an offset of the same weeks, months and days lead to the     *)
(* same day: behind a date the period ends on the day before it, and before  *)
(* a date a period of weeks begins on the day that leads to the next one.    *)
(* A period of months or days before a date (:843-853) does not: it begins   *)
(* on the day before the one that leads to the date itself, P1M/20240131 on  *)
(* December 30; and in a repetition (:707-711) one of days a day later.      *)
SpansAgree(w) ==
    LET days(x) == LET e == Scan(x) IN <<e.ok, e.d0, e.d1>>
        month(y, m) == [is |-> "month", y |-> y, m |-> m]
        period(u, n) == [is |-> "period", offset |-> FALSE, p |-> PeriodOf(<<[n |-> n, unit |-> u]>>)]
        unit == [year |-> "Y", month |-> "M", week |-> "W"]
        lasting(i) == w[i].is = "period" /\ ~w[i].offset /\ Seconds(w[i].p) = 0
        offset(i) == [w[i] EXCEPT !.offset = TRUE]
        last(x) == IF Scan(x).d1 = NoDate THEN Scan(x).d0 ELSE Scan(x).d1
    IN  /\ (Len(w) = 2 /\ w[1].is \in Spans /\ w[2].is = w[1].is /\ Valid(w[1]) /\ Valid(w[2]) /\ FirstDay(w[1]) <= FirstDay(w[2])) =>
            days(w) = <<TRUE, Scan(<<w[1]>>).d0, Scan(<<w[2]>>).d1>>
        /\ (Len(w) = 1 /\ w[1].is = "quarter" /\ Valid(w[1])) =>
            days(w) = days(<<month(w[1].y, 3 * w[1].q - 2), month(w[1].y, 3 * w[1].q)>>)
        /\ (Len(w) = 1 /\ w[1].is = "year" /\ Valid(w[1])) =>
            days(w) = days(<<[is |-> "quarter", y |-> w[1].y, q |-> 1], [is |-> "quarter", y |-> w[1].y, q |-> 4]>>)
        /\ (Len(w) = 1 /\ w[1].is \in {"year", "month", "week"} /\ Valid(w[1])) =>
            LET p == period(unit[w[1].is], 1) IN days(<<w[1], p>>) = days(w) /\ days(<<p, w[1]>>) = days(w)
        /\ (Len(w) = 2 /\ w[1].is = "date" /\ w[1].sec = -1 /\ lasting(2)) =>
            last(w) + 1 = Scan(<<w[1], offset(2)>>).d0
        /\ (Len(w) = 2 /\ lasting(1) /\ w[2].is = "date" /\ w[2].sec = -1) =>
            LET nextday == [w[2] EXCEPT !.d = @ + 1]
            IN  /\ last(w) = DayOfDate(w[2])
                /\ Scan(w).d0 = IF w[1].p.W # 0 THEN Scan(<<offset(1), nextday>>).d0 ELSE Scan(<<offset(1), w[2]>>).d0 - 1
        /\ (Len(w) = 3 /\ w[1].is = "repeat" /\ lasting(2) /\ w[3].is = "date" /\ w[3].sec = -1) =>
            LET e == Scan(Tail(w)) IN days(w) = <<TRUE, IF w[2].p.D = 0 THEN e.d0 ELSE e.d0 + 1, e.d1>>

(* The separators within dates and times do not count, and a text that has   *)
(* been simplified is simple.                                                *)
StampsSimple(w) ==
    LET without(i) == SubSeq(w, 1, i - 1) \o SubSeq(w, i + 1, Len(w))
    IN  /\ Simplified(w) # <<>> /\ (\A i \in 1..Len(w) : w[i] # "minus") => Simplified(Simplified(w)) = Simplified(w)
        /\ \A i \in 1..Len(w) : w[i] = ":" => Simplified(without(i)) = Simplified(w)

(* Without a year attribute the calendar has a place for every day of every  *)
(* element, from 1971 on and within 20 years, repetitions of a day come in   *)
(* the distance of their period, and the node marked as today's is the one   *)
(* where the entries of today are put (in calendars of months or years).     *)
EntriesPlaced(texts, type) ==
    LET c == Calendar(type, [is |-> "none"], texts)
        marks == HasNode(c.years, Today) /\ type \in {"mday", "month", "year"}
        es == Register(texts)
        ys == YearsOf(es)
        length(e) == IF e.d1 = NoDate THEN 1 ELSE IF e.d1 < e.d0 THEN 0 ELSE e.d1 - e.d0 + 1
        dated(e) == e.d0 > 0
    IN  (\A y \in {YearOf(es[i].d0) : i \in DOMAIN es} \cup {YearOf(es[i].d1) : i \in DOMAIN es} : y = 0 \/ y \in 1971..2070)
        /\ (\A i, j \in DOMAIN es : es[i].d0 - es[j].d0 < 6900)
        => /\ marks => c.marked = NodeOf(type, c.years, Today)
           /\ \A i \in DOMAIN es : dated(es[i]) =>
             /\ Len(c.places[i]) = length(es[i])
             /\ \A k \in DOMAIN c.places[i] : c.places[i][k] = NodeOf(type, c.years, es[i].d0 + k - 1)
             /\ (es[i].index > 0 /\ es[i].d1 = NoDate) =>
                    es[i].d0 = MovedBy(es[i - 1].d0, es[i].p, 1) /\ es[i - 1].index = es[i].index - 1
=============================================================================
