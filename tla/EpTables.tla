------------------------------ MODULE EpTables ------------------------------
(***************************************************************************)
(* The exceedance probability tables of leccalc and ordleccalc (class      *)
(* aggreports): from the losses of each period, or of each period and      *)
(* sample, the curve of the losses against their return periods, the       *)
(* losses at the return periods the user asked for, and the tail value at  *)
(* risk.                                                                   *)
(*                                                                         *)
(* Losses and return periods are exact fractions; <<1, 0>> is the          *)
(* floating point infinity.  A run of the program is described by          *)
(*   opt.periods   number of periods of the occurrence file                *)
(*   opt.samples   number of samples of the stream                         *)
(*   opt.weight    periods.bin: period -> weight, <<>> when it is missing  *)
(*   opt.r         -r, use the return period file                          *)
(*   opt.rps       returnperiods.bin, descending                           *)
(*   opt.ensemble  ensemble.bin: id -> set of samples, <<>> when missing   *)
(*   opt.ord       ordleccalc rather than leccalc                          *)
(*   opt.outputs   the tables asked for: pairs <<"OEP" | "AEP", curve>>    *)
(*   opt.opened    the output files given to ordleccalc                    *)
(*   opt.skip      -H, no header                                           *)
(* Losses arrive as two maps from [summary, period, sidx] to the sum and   *)
(* the largest loss: maps.means for sidx -1, maps.samples for the rest.    *)
(***************************************************************************)
EXTENDS Integers, Sequences, FiniteSets, SequencesExt, Fractions

Infinity == <<1, 0>>
RoundingSlack == <<1, 10000>>      \* "Add for floating point errors"
Weighted(opt) == DOMAIN opt.weight # {}

\* LoadReturnPeriods: an empty file is as none.
UseReturnPeriods(opt) == opt.r /\ opt.rps # <<>>

\* OutLosses: the sum (aggregate) or the largest (occurrence) of a period.
GetOutLoss(eptype, v) == Whole(IF eptype = "AEP" THEN v.agg ELSE v.max)

\* LoadPeriodsToWeighting: the weight of a period is shared by its samples.
RawWeight(opt, p) == opt.weight[p]          \* mutant: not divided
PeriodWeight(opt, p) ==
    IF opt.samples = 0 THEN opt.weight[p] ELSE Over(opt.weight[p], Whole(opt.samples))

-----------------------------------------------------------------------------
\* The line through two points of a curve, at return period x.
LinearInterpolate(from, to, x) ==
    Plus(Over(Times(Minus(x, to.rp), Minus(from.loss, to.loss)),
              Minus(from.rp, to.rp)), to.loss)

\* The loss at return period x, which is not below that of the current point.
GetLoss(x, last, current) ==
    IF current.rp = ZeroFrac \/ current.loss = ZeroFrac THEN ZeroFrac
    ELSE IF current.rp = x THEN current.loss
    ELSE LinearInterpolate(last, current, x)

RunningMean(mean, x, i) == Minus(mean, Over(Minus(mean, x), Whole(i)))

\* The state of a curve under construction: rows and tail written so far, the
\* mean and number of the losses seen, the next return period asked for and
\* the last point of the curve.
EmptyCurve == [rows |-> <<>>, tail |-> <<>>, tvar |-> ZeroFrac, i |-> 1,
               next |-> 1, last |-> [rp |-> ZeroFrac, loss |-> ZeroFrac]]

\* The curve reaches point p: write the return periods asked for that it has
\* passed.  Those above the largest return period of the curve are dropped.
Due(rps, c, p) ==
    Cardinality({j \in c.next .. Len(rps) : \A k \in c.next .. j : ~Less(Whole(rps[k]), p.rp)})
RowsAt(kept, c, p) ==
    [m \in DOMAIN kept |-> [rp |-> Whole(kept[m]), loss |-> GetLoss(Whole(kept[m]), c.last, p)]]
TailAt(rows, c) ==
    LET tvar[m \in 0 .. Len(rows)] ==
            IF m = 0 THEN c.tvar
            ELSE RunningMean(tvar[m - 1], rows[m].loss, c.i + m - 1)
    IN  [m \in DOMAIN rows |-> [rp |-> rows[m].rp, loss |-> tvar[m]]]
Passed(c, p, due, rows) ==
    [c EXCEPT !.next = @ + due,
              !.rows = @ \o rows,
              !.tail = IF p.rp = ZeroFrac THEN @ ELSE @ \o TailAt(rows, c),
              !.last = IF p.rp = ZeroFrac THEN @ ELSE p]
WriteDue(rps, max_retperiod, c, p, due) ==
    Passed(c, p, due, RowsAt(SelectSeq(SubSeq(rps, c.next, c.next + due - 1),
                                       LAMBDA r : ~Less(max_retperiod, Whole(r))), c, p))
WriteReturnPeriodOut(rps, max_retperiod, c, p) ==
    WriteDue(rps, max_retperiod, c, p, Due(rps, c, p))

\* One turn of the loops over the losses and over the periods without loss.
Written(opt, max_retperiod, c, p, tvar) ==
    IF UseReturnPeriods(opt) THEN WriteReturnPeriodOut(opt.rps, max_retperiod, c, p)
    ELSE [c EXCEPT !.rows = Append(@, p), !.tail = Append(@, [rp |-> p.rp, loss |-> tvar])]
WithMean(opt, max_retperiod, c, p, tvar) ==
    [Written(opt, max_retperiod, c, p, tvar) EXCEPT !.tvar = tvar, !.i = @ + 1]
Extend(opt, max_retperiod, c, p) ==
    WithMean(opt, max_retperiod, c, p, RunningMean(c.tvar, p.loss, c.i))

Ranked(items) == SortSeq(items, LAMBDA a, b : Less(b.loss, a.loss))

\* Without weights the i-th largest loss has return period max / i.  Below the
\* smallest loss the curve is zero, down to return period 1, or 0 if asked.
PlainPoints(ranked, max_retperiod, samplesize) ==
    [i \in DOMAIN ranked |-> [rp |-> Over(max_retperiod, Whole(i)),
                              loss |-> Over(ranked[i].loss, Whole(samplesize))]]
PlainTail(opt, n, max_retperiod, c) ==
    LET Asked(d) == IF d.next > Len(opt.rps) THEN 1 ELSE opt.rps[d.next]
        Zero(d, i) ==
          Extend(opt, max_retperiod, d,
                 [rp |-> IF Asked(d) <= 0 THEN ZeroFrac ELSE Over(max_retperiod, Whole(i)),
                  loss |-> ZeroFrac])
    IN  FoldLeft(Zero, c, [k \in 1 .. (max_retperiod[1] \div max_retperiod[2]) + 2 |-> n + k])

\* With weights the return period of a loss is one over the weight of the
\* losses that reach it; a loss in a period of weight zero is left out.
CumulativeWeights(factor, r) ==
    LET cumulative_weighting[i \in 0 .. Len(r)] ==
          IF i = 0 THEN ZeroFrac
          ELSE Plus(cumulative_weighting[i - 1], Times(r[i].weight, factor))
    IN  cumulative_weighting
WeightedPoints(ranked, cumulative_weighting, samplesize) ==
    LET Point(i) == [rp |-> Over(Whole(1), cumulative_weighting[i]),
                     loss |-> Over(ranked[i].loss, Whole(samplesize))]
        Counted(i) == ranked[i].weight # ZeroFrac
    IN  FlattenSeq([i \in DOMAIN ranked |-> IF Counted(i) THEN <<Point(i)>> ELSE <<>>])
\* The periods without a loss follow, in order, with their weights.
ReturnPeriodsAfter(n, cumulative_weighting) ==
    [k \in 1 .. Cardinality(DOMAIN cumulative_weighting) - 1 - n |->
        Over(Whole(1), cumulative_weighting[n + k])]
WeightedTail(opt, items, factor, periods, max_retperiod, c) ==
    LET rest == [k \in DOMAIN periods |-> [loss |-> ZeroFrac, weight |-> PeriodWeight(opt, periods[k])]]
        rps == ReturnPeriodsAfter(Len(items), CumulativeWeights(factor, items \o rest))
    IN  FoldLeft(LAMBDA d, rp : Extend(opt, max_retperiod, d, [rp |-> rp, loss |-> ZeroFrac]),
                 c, Append(rps, ZeroFrac))

\* WriteExceedanceProbabilityTable and its per sample variant, for one curve.
\* Without weights the curve spans opt.periods * span periods; with weights
\* their sum is scaled by factor.  The losses are divided by samplesize.
Through(opt, max_retperiod, points) ==
    FoldLeft(LAMBDA d, p : Extend(opt, max_retperiod, d, p), EmptyCurve, points)
MaxWeighted(points) ==
    IF points = <<>> THEN ZeroFrac ELSE Plus(points[1].rp, RoundingSlack)

\* The points of the losses, the largest first.
Points(opt, ranked, span, factor, samplesize) ==
    IF Weighted(opt)
    THEN WeightedPoints(ranked, CumulativeWeights(Whole(factor), ranked), samplesize)
    ELSE PlainPoints(ranked, Whole(opt.periods * span), samplesize)
WithoutLoss(opt, items, factor, unused, max_retperiod, c) ==
    IF ~UseReturnPeriods(opt) THEN c
    ELSE IF Weighted(opt)
         THEN WeightedTail(opt, items, Whole(factor), SetToSortSeq(unused, <), max_retperiod, c)
         ELSE PlainTail(opt, Len(items), max_retperiod, c)
FullCurve(opt, items, factor, unused, points, max_retperiod) ==
    WithoutLoss(opt, items, factor, unused, max_retperiod, Through(opt, max_retperiod, points))
CurveOf(opt, items, span, factor, unused, points) ==
    FullCurve(opt, items, factor, unused, points,
              IF Weighted(opt) THEN MaxWeighted(points) ELSE Whole(opt.periods * span))

Curve(opt, items, span, factor, samplesize, unused) ==
    CurveOf(opt, items, span, factor, unused, Points(opt, Ranked(items), span, factor, samplesize))
==============================================================================
