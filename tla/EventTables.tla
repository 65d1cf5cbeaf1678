----------------------------- MODULE EventTables -----------------------------
(***************************************************************************)
(* The event and the period loss table: eltcalc and pltcalc read the       *)
(* summary stream of a process block by block, as it is made, one program  *)
(* for each process.                                                       *)
(***************************************************************************)
EXTENDS SummaryFiles, Fractions, Occurrence

CONSTANTS
    Inputs,         \* as in AalCalc; occurrences have a date
    Options

VARIABLES
    input, opt,
    elt_read,       \* process -> blocks read by its eltcalc
    plt_read,       \* and by its pltcalc
    elt,            \* process -> rows of the event loss table
    plt,            \* process -> rows of the period loss table
    splt            \* process -> rows of the sample period loss table

tableVars == <<elt_read, plt_read, elt, plt, splt>>
Processes == DOMAIN input.files

-----------------------------------------------------------------------------
Undefined == <<0, 0>>
Samples(b) == SelectSeq(b.recs, LAMBDA r : r.sidx > 0)
SumLoss(b) == FoldLeft(LAMBDA a, r : a + r.loss, 0, Samples(b))
SumLossSqr(b) == FoldLeft(LAMBDA a, r : a + r.loss * r.loss, 0, Samples(b))
AnalyticalMean(b) == FoldLeft(LAMBDA a, r : IF r.sidx = -1 THEN r.loss ELSE a, 0, b.recs)

\* The variance of the samples; one that is small beside their squares is a
\* rounding error and becomes zero.
Ratio(a, n) == IF n # ZeroFrac THEN Over(a, n) ELSE IF a = ZeroFrac THEN Undefined ELSE <<1, 0>>
Variance(b) ==
    LET sqr == Whole(SumLossSqr(b))
        sd == Ratio(Minus(sqr, Over(Whole(SumLoss(b) * SumLoss(b)), Whole(opt.samples))),
                    Whole(opt.samples - 1))
    IN  IF sd # Undefined /\ Less(Ratio(sd, sqr), <<1, 10000000>>) THEN ZeroFrac ELSE sd

-----------------------------------------------------------------------------
\* GetEventRates: occurrences of the event per period.
EventRate(e) == Frac(Len(PeriodsOf(input.occurrence, e)), opt.periods)
CanRead == opt.ord => \A n \in DOMAIN input.occurrence : input.occurrence[n].period <= opt.periods

\* doetloutput: two rows for a block whose exposure is not zero.
EltRow(b, type, mean, variance) ==
    [summary |-> b.summary, type |-> type, event |-> b.event, rate |-> EventRate(b.event),
     mean |-> mean, variance |-> variance, exposure |-> b.expval]
EltRows(b) ==
    LET mean == Over(Whole(SumLoss(b)), Whole(opt.samples))
        variance == IF opt.samples > 1 THEN Variance(b) ELSE ZeroFrac
        analytical == EltRow(b, 1, Whole(AnalyticalMean(b)), ZeroFrac)
    IN  IF b.expval <= 0 THEN <<>>
        ELSE IF opt.samples = 0 THEN <<analytical>>
        ELSE <<analytical, EltRow(b, 2, mean, variance)>>
EltBlock(p) ==
    /\ elt_read[p] < Len(input.files[p])
    /\ CanRead
    /\ LET b == input.files[p][elt_read[p] + 1]
       IN  elt' = [elt EXCEPT ![p] = @ \o EltRows(b)]
    /\ elt_read' = [elt_read EXCEPT ![p] = @ + 1]
    /\ UNCHANGED <<input, opt, plt_read, plt, splt>>

-----------------------------------------------------------------------------
\* getperiodweights.
PeriodWeight(p) ==
    IF opt.weight = <<>> THEN (IF p <= opt.periods THEN <<1, opt.periods>> ELSE ZeroFrac)
    ELSE IF p \in DOMAIN opt.weight THEN opt.weight[p] ELSE ZeroFrac
OccurrencesOf(e) == SelectSeq(input.occurrence, LAMBDA x : x.event = e)

\* domeanout: a row for each occurrence, with the weight of the period in ORD
\* output only.
OrdColumns(p) == IF opt.ord THEN [weight |-> PeriodWeight(p)] ELSE <<>>
MeanRow(b, occ) ==
    OrdColumns(occ.period) @@
    [summary |-> b.summary, type |-> 1, event |-> b.event, period |-> occ.period,
     date |-> d(occ.date), mean |-> ZeroFrac, variance |-> ZeroFrac, exposure |-> b.expval]
MeanRows(b) ==
    LET occs == OccurrencesOf(b.event)
        means == SelectSeq(b.recs, LAMBDA r : r.sidx = -1)
        Of(r) == [n \in DOMAIN occs |-> [MeanRow(b, occs[n]) EXCEPT !.mean = Whole(r.loss)]]
    IN  FlattenSeq([k \in DOMAIN means |-> Of(means[k])])

\* dopltcalc: a row for each occurrence when there is a sample and its mean or
\* deviation is above zero.
FirstOccurrence(occs, n) == occs[1]         \* mutant: computed only once
ThisOccurrence(occs, n) == occs[n]
SampleRows(b) ==
    LET occs == OccurrencesOf(b.event)
        mean == Over(Whole(SumLoss(b)), Whole(opt.samples))
        Of(n) == [MeanRow(b, ThisOccurrence(occs, n)) EXCEPT !.type = 2, !.mean = mean,
                                                             !.variance = Variance(b)]
    IN  IF Samples(b) = <<>> \/ ~(IsPositive(mean) \/ IsPositive(Variance(b))) THEN <<>>
        ELSE [n \in DOMAIN occs |-> Of(n)]

\* outputrows_splt, only in ORD output: every record, the mean included.
SpltRows(b) ==
    LET occs == OccurrencesOf(b.event)
        Of(r) == [n \in DOMAIN occs |->
                    [summary |-> b.summary, sidx |-> r.sidx, event |-> b.event,
                     period |-> occs[n].period, weight |-> PeriodWeight(occs[n].period),
                     date |-> d(occs[n].date), loss |-> r.loss,
                     exposure |-> IF r.loss > 0 THEN b.expval ELSE 0]]
    IN  IF ~opt.ord THEN <<>> ELSE FlattenSeq([k \in DOMAIN b.recs |-> Of(b.recs[k])])

PltBlock(p) ==
    /\ plt_read[p] < Len(input.files[p])
    /\ LET b == input.files[p][plt_read[p] + 1]
       IN  /\ plt' = [plt EXCEPT ![p] = @ \o MeanRows(b) \o SampleRows(b)]
           /\ splt' = [splt EXCEPT ![p] = @ \o SpltRows(b)]
    /\ plt_read' = [plt_read EXCEPT ![p] = @ + 1]
    /\ UNCHANGED <<input, opt, elt_read, elt>>

-----------------------------------------------------------------------------
TablesInit ==
    /\ elt_read = [p \in Processes |-> 0]
    /\ plt_read = [p \in Processes |-> 0]
    /\ elt = [p \in Processes |-> <<>>]
    /\ plt = [p \in Processes |-> <<>>]
    /\ splt = [p \in Processes |-> <<>>]

TablesNext == \E p \in Processes : EltBlock(p) \/ PltBlock(p)
==============================================================================
