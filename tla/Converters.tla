----------------------------- MODULE Converters ------------------------------
(***************************************************************************)
(* The programs that turn csv files into binary files and back, one        *)
(* operator each.  A csv file is a sequence of lines, a line the sequence  *)
(* of the values scanned from it: sscanf returns how many there are.  The  *)
(* line of column headings has none.  A binary file is a sequence of       *)
(* records (of numbers where the file holds nothing else).                 *)
(***************************************************************************)
EXTENDS Integers, Sequences, SequencesExt, FiniteSets, TLC

LOCAL INSTANCE Occurrence

Headings == <<>>

\* The lines as far as they have the columns a program scans: it returns at
\* the first that has not, and what it wrote before stays.
Scanned(lines, columns) == Until(lines, LAMBDA l : Len(l) < columns)

Record(line, fields) ==
    [f \in ToSet(fields) |-> line[CHOOSE k \in DOMAIN fields : fields[k] = f]]
ToRecords(lines, fields) ==
    LET good == Scanned(lines, Len(fields))
    IN  [n \in DOMAIN good |-> Record(good[n], fields)]
ToNumbers(lines) ==
    LET good == Scanned(lines, 1) IN [n \in DOMAIN good |-> good[n][1]]

ToLines(rows, fields) == [n \in DOMAIN rows |-> [k \in DOMAIN fields |-> rows[n][fields[k]]]]
Printed(rows, fields, skipheader) ==
    (IF skipheader THEN <<>> ELSE <<Headings>>) \o ToLines(rows, fields)
PrintedNumbers(numbers, skipheader) ==
    (IF skipheader THEN <<>> ELSE <<Headings>>) \o [n \in DOMAIN numbers |-> <<numbers[n]>>]

------------------------------------------------------------------------------
(* Exposures *)

ItemFields == <<"id", "coverage_id", "areaperil_id", "vulnerability_id", "group_id">>

\* An item whose id is not the number of its line ends the program with an
\* error, and a coverage that does not follow the one before it.
InTurn(lines, columns) ==
    LET good == Scanned(lines, columns)
        late == {n \in DOMAIN good : good[n][1] # n}
    IN  IF late = {} THEN good
        ELSE SubSeq(good, 1, (CHOOSE n \in late : \A m \in late : n <= m) - 1)
Exits(lines, columns) == InTurn(lines, columns) # Scanned(lines, columns)

itemtobin(lines) == ToRecords(InTurn(Tail(lines), 5), ItemFields)
itemtocsv(items, skipheader) == Printed(items, ItemFields, skipheader)

\* The binary file holds the insured values alone.
coveragetobin(lines) ==
    LET good == InTurn(Tail(lines), 2) IN [n \in DOMAIN good |-> good[n][2]]
coveragetocsv(tivs, skipheader) ==
    (IF skipheader THEN <<>> ELSE <<Headings>>) \o [n \in DOMAIN tivs |-> <<n, tivs[n]>>]

------------------------------------------------------------------------------
(* The financial module *)

ProgrammeFields == <<"from_agg_id", "level_id", "to_agg_id">>
fmprogrammetobin(lines) == ToRecords(Tail(lines), ProgrammeFields)
fmprogrammetocsv(rows, skipheader) == Printed(rows, ProgrammeFields, skipheader)

PolicytcFields == <<"layer_id", "level_id", "agg_id", "profile_id">>
fmpolicytctobin(lines) == ToRecords(Tail(lines), PolicytcFields)
fmpolicytctocsv(rows, skipheader) == Printed(rows, PolicytcFields, skipheader)

XrefFields == <<"output_id", "agg_id", "layer_id">>
\* mutant: layer and aggregate change places
fmxreftobinSwapped(lines) == ToRecords(Tail(lines), <<"output_id", "layer_id", "agg_id">>)
fmxreftobin(lines) == ToRecords(Tail(lines), XrefFields)
fmxreftocsv(rows, skipheader) == Printed(rows, XrefFields, skipheader)

\* The terms are named as in FmRules.
ProfileFields == <<"profile_id", "calcrule", "d1", "d2", "d3", "a1", "l1", "sh1", "sh2", "sh3">>
StepFields == ProfileFields \o <<"step_id", "ts", "te", "ps", "pe", "l2", "sc1", "sc2">>
fmprofiletobin(lines, step) == ToRecords(Tail(lines), IF step THEN StepFields ELSE ProfileFields)
fmprofiletocsv(rows, step, skipheader) ==
    Printed(rows, IF step THEN StepFields ELSE ProfileFields, skipheader)

------------------------------------------------------------------------------
(* Summaries, events, periods, samples and damage bins *)

GulSummaryFields == <<"coverage_id", "summary_id", "summaryset_id">>
gulsummaryxreftobin(lines) == ToRecords(Tail(lines), GulSummaryFields)
\* Always with headings.
gulsummaryxreftocsv(rows) == Printed(rows, GulSummaryFields, FALSE)

FmSummaryFields == <<"output_id", "summary_id", "summaryset_id">>
fmsummaryxreftobin(lines) == ToRecords(Tail(lines), FmSummaryFields)
fmsummaryxreftocsv(rows, skipheader) == Printed(rows, FmSummaryFields, skipheader)

\* An id below one is reported and written all the same.
evetobin(lines, header) == ToNumbers(IF header THEN Tail(lines) ELSE lines)
evetocsv(events, skipheader) == PrintedNumbers(events, skipheader)

randtobin(lines) == ToNumbers(Tail(lines))
randtocsv(numbers, skipheader) == PrintedNumbers(numbers, skipheader)

\* Sorted, the longest first, each once; nothing is written when a line is
\* malformed.
Descending(numbers) == SetToSortSeq(ToSet(numbers), LAMBDA a, b : a > b)
returnperiodtobin(lines) ==
    LET numbers == ToNumbers(Tail(lines))
    IN  IF Len(numbers) < Len(lines) - 1 THEN <<>> ELSE Descending(numbers)
returnperiodtocsv(numbers, skipheader) == PrintedNumbers(numbers, skipheader)

PeriodFields == <<"period_no", "weighting">>
periodstobin(lines) == ToRecords(Tail(lines), PeriodFields)
periodstocsv(rows) == Printed(rows, PeriodFields, FALSE)

EnsembleFields == <<"sidx", "ensemble_id">>
ensembletobin(lines) == ToRecords(Tail(lines), EnsembleFields)
ensembletocsv(rows) == Printed(rows, EnsembleFields, FALSE)

\* The interval type is no longer read and is zero in the file.
BinFields == <<"bin_index", "bin_from", "bin_to", "interpolation">>
damagebintobin(lines) ==
    LET rows == ToRecords(Tail(lines), BinFields)
    IN  [n \in DOMAIN rows |-> [interval_type |-> 0] @@ rows[n]]
damagebintocsv(rows, intervalType) ==
    Printed(rows, IF intervalType THEN Append(BinFields, "interval_type") ELSE BinFields, FALSE)
==============================================================================
