------------------------------ MODULE MC_Results ------------------------------
(***************************************************************************)
(* Two processes whose events occur once, twice in a period, in two periods*)
(* or not at all, on dates around the ends of February and of the year.    *)
(***************************************************************************)
EXTENDS Results

Rec(x, l) == [sidx |-> x, loss |-> l]
R1 == <<Rec(-1, 2), Rec(1, 3)>>
R2 == <<Rec(-1, 3), Rec(1, 2), Rec(2, 6)>>
Nothing == <<Rec(-1, 0), Rec(1, 0), Rec(2, 0)>>
B(e, i, x, recs) == [event |-> e, summary |-> i, expval |-> x, recs |-> recs]
Occ(e, p, y, m, n) == [event |-> e, period |-> p, year |-> y, month |-> m, day |-> n]

MCFiles ==
    {("a" :> <<B(1, 1, 9, R1), B(1, 2, 8, R2)>>) @@ ("b" :> <<B(2, 2, 7, R2), B(2, 1, 8, R1)>>),
     ("a" :> <<B(2, 1, 8, R2), B(2, 3, 0, Nothing)>>) @@ ("b" :> <<B(1, 1, 9, Nothing), B(3, 1, 12, R1)>>)}
Occurrences ==
    {<<Occ(1, 1, 1900, 2, 28), Occ(2, 1, 2000, 2, 29), Occ(2, 3, 2001, 12, 31), Occ(2, 3, 2003, 1, 1)>>,
     <<Occ(2, 2, 4, 3, 1), Occ(1, 3, 2100, 2, 28), Occ(3, 3, 1999, 11, 30), Occ(1, 2, 2100, 3, 1)>>}
MCInputs == {[files |-> f, csv |-> o, occurrence |-> OccDoit(o, 3)] : f \in MCFiles, o \in Occurrences}

Base == [periods |-> 3, samples |-> 2, weight |-> <<>>, ensemble |-> <<>>, ord |-> TRUE]
Neutral == [p \in 1 .. 3 |-> <<1, 3>>]
Uneven == (1 :> <<1, 2>>) @@ (2 :> <<0, 1>>) @@ (3 :> <<1, 4>>)
MCOptions ==
    {Base, [Base EXCEPT !.ord = FALSE, !.ensemble = (1 :> 2) @@ (2 :> 1)],
     [Base EXCEPT !.ord = FALSE, !.ensemble = (2 :> 1)],
     [Base EXCEPT !.weight = Uneven], [Base EXCEPT !.periods = 2, !.ord = FALSE],
     [Base EXCEPT !.samples = 3]}

\* The dates of four centuries: every day has a date of its own and the dates
\* follow the calendar.
Leap(y) == y % 4 = 0 /\ (y % 100 # 0 \/ y % 400 = 0)
DaysIn(y, m) == CASE m = 2 -> IF Leap(y) THEN 29 ELSE 28
                  [] m \in {4, 6, 9, 11} -> 30
                  [] OTHER -> 31
NextDate(t) ==
    IF t.day < DaysIn(t.year, t.month) THEN [t EXCEPT !.day = @ + 1]
    ELSE IF t.month < 12 THEN [t EXCEPT !.day = 1, !.month = @ + 1]
    ELSE [year |-> t.year + 1, month |-> 1, day |-> 1]
ASSUME DatesFollowCalendar ==
    \A n \in 0 .. 146097 : d(n + 1) = NextDate(d(n)) /\ g(d(n).year, d(n).month, d(n).day) = n
==============================================================================
