----------------------------- MODULE Occurrence ------------------------------
(***************************************************************************)
(* The occurrence file: occurrencetobin turns the year, month and day of   *)
(* an occurrence into a day number, and occurrencetocsv and pltcalc turn   *)
(* the number back into a date.  Division is that of C, towards zero.      *)
(***************************************************************************)
EXTENDS Integers, Sequences, SequencesExt

CDiv(a, b) == IF a < 0 THEN -((-a) \div b) ELSE a \div b
CMod(a, b) == a - b * CDiv(a, b)

\* Days of the years before y, counted from March.
YearDays(y) == 365 * y + CDiv(y, 4) - CDiv(y, 100) + CDiv(y, 400)
MonthDays(mi) == CDiv(mi * 306 + 5, 10)

g(year, month, day) ==
    LET m == CMod(month + 9, 12)
        y == year - CDiv(m, 10)
    IN  YearDays(y) + MonthDays(m) + (day - 1)

\* The first guess of the year, (10000 g + 14780) / 3652425 in the code, with
\* the common divisor 5 taken out, may be one too high.
d(n) ==
    LET guess == CDiv(2000 * n + 2956, 730485)
        y == IF n - YearDays(guess) < 0 THEN guess - 1 ELSE guess
        ddd == n - YearDays(y)
        mi == CDiv(100 * ddd + 52, 3060)
    IN  [year |-> y + CDiv(mi + 2, 12), month |-> CMod(mi + 2, 12) + 1,
         day |-> ddd - MonthDays(mi) + 1]

\* occurrencetobin: rows [event, period, year, month, day], or with -D rows
\* [event, period, date]; it gives up at a period above the number given, and
\* what it wrote before stays.
Until(rows, Bad(_)) ==
    LET bad == {n \in DOMAIN rows : Bad(rows[n])}
    IN  IF bad = {} THEN rows
        ELSE SubSeq(rows, 1, (CHOOSE n \in bad : \A m \in bad : n <= m) - 1)
OccDoit(rows, number_of_periods) ==
    LET good == Until(rows, LAMBDA r : r.period > number_of_periods)
    IN  [n \in DOMAIN good |-> [event |-> good[n].event, period |-> good[n].period,
                                date |-> g(good[n].year, good[n].month, good[n].day)]]
NoOccDoit(rows, number_of_periods) == Until(rows, LAMBDA r : r.period > number_of_periods)

\* occurrencetocsv.
OccurrenceToCsv(occurrence) ==
    [n \in DOMAIN occurrence |->
       [event |-> occurrence[n].event, period |-> occurrence[n].period] @@ d(occurrence[n].date)]
==============================================================================
