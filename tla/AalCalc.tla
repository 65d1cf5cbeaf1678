------------------------------- MODULE AalCalc -------------------------------
(***************************************************************************)
(* aalcalc: the average annual loss of each summary and its variance.      *)
(*                                                                         *)
(* The summary files of the work folder are indexed by summary, period and *)
(* file; the blocks are then read in the order of the index, the losses of *)
(* each sample are summed over a period, and when the period ends the sums *)
(* and their squares are added to the totals of the summary.               *)
(*   opt.periods, opt.samples, opt.weight   as in EpTables                 *)
(*   opt.ensemble   ensemble.bin: sample -> id, <<>> when it is missing    *)
(*   opt.ord        ORD output, which leaves ensembles out                 *)
(***************************************************************************)
EXTENDS SummaryFiles, Fractions

CONSTANTS
    Inputs,         \* the sets of files: [files, occurrence]
    Options         \* the options

VARIABLES
    input, opt,
    order,          \* the files in the order the directory lists them
    indexed,        \* the files that have an index file
    pc,
    listed,         \* files indexed so far
    summaries,      \* summaries.idx: sequence of [summary, period, file, block]
    calc,           \* the sums, see NoSums
    aal             \* the rows written

params == <<input, opt, order, indexed>>
aalVars == <<pc, listed, summaries, calc, aal>>

Occurs(e) == PeriodsOf(input.occurrence, e)
NaN == <<0, 0>>
Quotient(a, b) == IF a = ZeroFrac /\ b = ZeroFrac THEN NaN ELSE Over(a, b)

-----------------------------------------------------------------------------
\* The lines of a block: one for each occurrence of its event.
Lines(f, n) ==
    LET b == input.files[f][n]
        periods == Occurs(b.event)
    IN  [m \in DOMAIN periods |-> [summary |-> b.summary, period |-> periods[m], file |-> f, block |-> n]]
LinesOf(f) == FlattenSeq([n \in DOMAIN input.files[f] |-> Lines(f, n)])

LinesAsListed(s) ==                         \* mutant: sorted by file before period
    LET Key(l) == <<l.summary, CHOOSE k \in DOMAIN order : order[k] = l.file, l.period>>
        Before(x, y) == \/ x[1] < y[1]
                        \/ x[1] = y[1] /\ x[2] < y[2]
                        \/ x[1] = y[1] /\ x[2] = y[2] /\ x[3] < y[3]
    IN  GroupedBy(s, Key, Before)
\* By summary, then by period, then by file.
LinesInOrder(s) ==
    LET Key(l) == <<l.summary, l.period, CHOOSE k \in DOMAIN order : order[k] = l.file>>
        Before(x, y) == \/ x[1] < y[1]
                        \/ x[1] = y[1] /\ x[2] < y[2]
                        \/ x[1] = y[1] /\ x[2] = y[2] /\ x[3] < y[3]
    IN  GroupedBy(s, Key, Before)

-----------------------------------------------------------------------------
\* vec_sample_sum_loss_ (0 is sidx -1), max_exposure_val_ by type and
\* ensemble, and the totals: [mean, mean_squared, exposure].
Zeros == [x \in 0 .. opt.samples |-> 0]
Ensembles == IF opt.ord THEN {} ELSE Range(opt.ensemble)
EnsembleSamples(e) == {x \in DOMAIN opt.ensemble : opt.ensemble[x] = e}
AllHaveEnsembles == Ensembles # {} => DOMAIN opt.ensemble = 1 .. opt.samples
ensemblecount(e) == Cardinality(EnsembleSamples(e))
NoExposure == [t \in {1, 2} |-> [e \in {0} \cup Ensembles |-> 0]]
NoSums == [summary |-> -1, period |-> -1, sums |-> Zeros, exposure |-> NoExposure,
           analytical |-> <<>>, sample |-> <<>>, ensemble |-> <<>>]

Weight(period) ==
    IF opt.weight = <<>> THEN Whole(1)
    ELSE IF period \in DOMAIN opt.weight
         THEN Times(opt.weight[period], Whole(Cardinality(DOMAIN opt.weight)))
         ELSE ZeroFrac

\* The sums of the period go to a record of the totals.
Added(m, key, xs, c, weight, exposure) ==
    LET old == IF key \in DOMAIN m THEN m[key]
               ELSE [mean |-> ZeroFrac, mean_squared |-> ZeroFrac, exposure |-> 0]
        sum == FoldFunctionOnSet(+, 0, c.sums, xs)
        squares == FoldFunctionOnSet(+, 0, [x \in xs |-> c.sums[x] * c.sums[x]], xs)
    IN  (key :> [mean |-> Plus(old.mean, Times(Whole(sum), weight)),
                 mean_squared |-> Plus(old.mean_squared, Times(Whole(squares), weight)),
                 exposure |-> exposure]) @@ m

\* do_calc_end: the end of a period.
Kept(c) == c.sums                           \* mutant: sums not cleared
Cleared(c) == Zeros
DoCalcEnd(c, period) ==
    LET weight == Weight(period)
        AddEnsemble(m, e) == Added(m, <<c.summary, e>>, EnsembleSamples(e), c, weight, c.exposure[2][e])
    IN  [c EXCEPT !.analytical = Added(@, c.summary, {0}, c, weight, c.exposure[1][0]),
                  !.sample = IF opt.samples = 0 THEN @
                             ELSE Added(@, c.summary, 1 .. opt.samples, c, weight, c.exposure[2][0]),
                  !.ensemble = FoldLeft(AddEnsemble, @, SetToSeq(Ensembles)),
                  !.sums = Cleared(c)]

\* do_calc_by_period: the losses of a block are added to the sums.
DoCalcByPeriod(c, block) ==
    LET Raised(d, t, e) ==
          [d EXCEPT !.exposure[t][e] = IF @ < block.expval THEN block.expval ELSE @]
        Add(d, r) ==
          LET type == IF r.sidx = -1 THEN 1 ELSE 2
              x == IF type = 1 THEN 0 ELSE r.sidx
              all == Raised(d, type, 0)
              own == IF type = 2 /\ Ensembles # {} THEN Raised(all, 2, opt.ensemble[x]) ELSE all
          IN  IF r.loss > 0 THEN [own EXCEPT !.sums[x] = @ + r.loss] ELSE d
    IN  FoldLeft(Add, c, block.recs)

\* A line of the index: the end of the last summary, and of the last period.
Turn(c, line) ==
    LET other == c.summary # line.summary
        left == IF other /\ c.summary # -1 THEN DoCalcEnd(c, c.period) ELSE c
        here == IF other THEN [left EXCEPT !.summary = line.summary, !.period = -1,
                                           !.exposure = NoExposure]
                ELSE left
        ended == IF here.period \notin {-1, line.period} THEN DoCalcEnd(here, here.period) ELSE here
    IN  [ended EXCEPT !.period = line.period]

\* outputresultscsv_new: mean, and variance of the sums of periods and samples.
Row(type, summary, e, total, samples) ==
    LET p1 == opt.periods * samples
        squared == Over(Times(total.mean, total.mean), Whole(p1))
    IN  [type |-> type, summary |-> summary, ensemble |-> e,
         mean |-> Over(Over(total.mean, Whole(samples)), Whole(opt.periods)),
         variance |-> Quotient(Minus(total.mean_squared, squared), Whole(p1 - 1)),
         exposure |-> total.exposure]
Rows(c) ==
    {Row(1, i, 0, c.analytical[i], 1) : i \in DOMAIN c.analytical}
      \cup {Row(2, i, 0, c.sample[i], opt.samples) : i \in DOMAIN c.sample}
      \cup {Row(2, k[1], k[2], c.ensemble[k], ensemblecount(k[2])) : k \in DOMAIN c.ensemble}

-----------------------------------------------------------------------------
AalInit ==
    /\ pc = "occurrence"
    /\ listed = 0
    /\ summaries = <<>>
    /\ calc = NoSums
    /\ aal = {}

\* loadoccurrence refuses periods above the number of periods.
LoadOccurrence ==
    /\ pc = "occurrence"
    /\ pc' = IF \E n \in DOMAIN input.occurrence : input.occurrence[n].period > opt.periods
             THEN "refused" ELSE "index"
    /\ UNCHANGED <<params, listed, summaries, calc, aal>>

\* The next file of the directory is indexed.  With its own index file the
\* blocks of unknown events are left out; without it they end the program.
IndexFile ==
    /\ pc = "index"
    /\ listed < Len(order)
    /\ LET f == order[listed + 1]
           unknown == {n \in DOMAIN input.files[f] : Occurs(input.files[f][n].event) = <<>>}
       IN  IF f \notin indexed /\ unknown # {}
           THEN /\ pc' = "aborted"
                /\ UNCHANGED <<listed, summaries>>
           ELSE /\ summaries' = summaries \o LinesOf(f)
                /\ listed' = listed + 1
                /\ UNCHANGED pc
    /\ UNCHANGED <<params, calc, aal>>

\* summaries.idx is written; every sample must have its ensemble.
WriteIndex ==
    /\ pc = "index"
    /\ listed = Len(order)
    /\ summaries' = LinesInOrder(summaries)
    /\ pc' = IF AllHaveEnsembles THEN "read" ELSE "refused"
    /\ UNCHANGED <<params, listed, calc, aal>>

ReadLine ==
    /\ pc = "read"
    /\ summaries # <<>>
    /\ LET line == Head(summaries)
       IN  calc' = DoCalcByPeriod(Turn(calc, line), input.files[line.file][line.block])
    /\ summaries' = Tail(summaries)
    /\ UNCHANGED <<params, pc, listed, aal>>

\* The last period ends with the index.
Output ==
    /\ pc = "read"
    /\ summaries = <<>>
    /\ calc' = IF calc.summary # -1 THEN DoCalcEnd(calc, calc.period) ELSE calc
    /\ aal' = Rows(calc')
    /\ pc' = "done"
    /\ UNCHANGED <<params, listed, summaries>>

AalNext == LoadOccurrence \/ IndexFile \/ WriteIndex \/ ReadLine \/ Output
==============================================================================
