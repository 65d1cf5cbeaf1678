------------------------------- MODULE LecCalc -------------------------------
(***************************************************************************)
(* leccalc and ordleccalc: the losses of all events are brought together   *)
(* by period and the reports of the summaries are written.                 *)
(*                                                                         *)
(* The summary files are those of parallel summarycalc processes: a file   *)
(* is a sequence of blocks [event, summary, recs], recs a sequence of      *)
(* [sidx, loss].  When each file has its index file, the blocks are read   *)
(* summary by summary and a report is written when the next summary        *)
(* begins; otherwise the files are read in turn and one report holds all   *)
(* summaries.  The directory lists the files in any order.                 *)
(***************************************************************************)
EXTENDS AggReports, SummaryFiles

CONSTANTS
    Inputs,         \* the sets of files: [files, occurrence]
    Options         \* the options, see EpTables

VARIABLES
    input,          \* files: file -> blocks; occurrence: sequence of [event, period]
    opt,            \* the options of this run
    order,          \* the files in the order the directory lists them
    indexed,        \* the files that have an index file
    pc,
    todo,           \* blocks to read: pairs <<file, position>>
    last_summary_id,
    summaryids,     \* summaries of the report
    out_loss,       \* losses by summary, period and sample
    skipheader,
    report          \* the lines written

params == <<input, opt, order, indexed>>
vars == <<params, pc, todo, last_summary_id, summaryids, out_loss, skipheader, report>>

-----------------------------------------------------------------------------
Known(e) == PeriodsOf(input.occurrence, e) # <<>>

NoLoss == [means |-> <<>>, samples |-> <<>>]

\* dolecoutputaggsummary for one occurrence of the event.
Raise(m, key, loss) ==
    (key :> IF key \in DOMAIN m
            THEN [agg |-> m[key].agg + loss,
                  max |-> IF m[key].max < loss THEN loss ELSE m[key].max]
            ELSE [agg |-> loss, max |-> loss]) @@ m
AddRecord(maps, summary, rec, p) ==
    LET key == [summary |-> summary, period |-> p, sidx |-> rec.sidx]
    IN  IF rec.sidx = -1 THEN [maps EXCEPT !.means = Raise(@, key, rec.loss)]
        ELSE [maps EXCEPT !.samples = Raise(@, key, rec.loss)]

\* The losses of a block, in each period of its event.
AddBlock(maps, block, recs) ==
    FoldLeft(LAMBDA m, rec :
               FoldLeft(LAMBDA n, p : AddRecord(n, block.summary, rec, p), m,
                        PeriodsOf(input.occurrence, block.event)),
             maps, recs)

Block(b) == input.files[b[1]][b[2]]
Positive(recs) == SelectSeq(recs, LAMBDA r : r.loss > 0)

\* The blocks of the files in the order of the directory, and by the master
\* index: by summary, then by file, then by position.
ByFile == Listed(input.files, order)
FileOrder == ByFile                         \* mutant: index not sorted
MasterIndex == SummaryIndex(input.files, order)

-----------------------------------------------------------------------------
Init ==
    /\ input \in Inputs
    /\ opt \in {o \in Options : Accepted(o)}
    /\ order \in SetToSeqs(DOMAIN input.files)
    /\ indexed \in SUBSET DOMAIN input.files
    /\ pc = "open"
    /\ todo = <<>>
    /\ last_summary_id = -1
    /\ summaryids = {}
    /\ out_loss = NoLoss
    /\ skipheader = opt.skip
    /\ report = <<>>

\* The directory is listed; the index files are used if none is missing.
OpenIndexed ==
    /\ pc = "open"
    /\ indexed = ToSet(order)
    /\ todo' = MasterIndex
    /\ pc' = "index"
    /\ UNCHANGED <<params, last_summary_id, summaryids, out_loss, skipheader, report>>

OpenFiles ==
    /\ pc = "open"
    /\ indexed # ToSet(order)
    /\ todo' = ByFile
    /\ pc' = "files"
    /\ UNCHANGED <<params, last_summary_id, summaryids, out_loss, skipheader, report>>

\* A line of the master index.  A new summary ends the report of the last one
\* and clears the losses; then the block is read, if its event occurs.
Kept(maps) == maps                          \* mutant: losses not reset
Reset(maps) == NoLoss
ReadIndexed ==
    /\ pc = "index"
    /\ todo # <<>>
    /\ LET b == Block(Head(todo))
           ends == last_summary_id \notin {-1, b.summary}
           loss == IF ends THEN Reset(out_loss) ELSE out_loss
       IN  /\ report' = IF ends THEN report \o Report(opt, out_loss, {last_summary_id}, skipheader)
                        ELSE report
           /\ skipheader' = (skipheader \/ ends)
           /\ summaryids' = IF ends THEN {last_summary_id} ELSE summaryids
           /\ last_summary_id' = b.summary
           /\ out_loss' = IF Known(b.event) THEN AddBlock(loss, b, b.recs) ELSE loss
    /\ todo' = Tail(todo)
    /\ UNCHANGED <<params, pc>>

\* The report of the last summary is written after the loop.
EndIndexed ==
    /\ pc = "index"
    /\ todo = <<>>
    /\ summaryids' = {last_summary_id}
    /\ report' = report \o Report(opt, out_loss, {last_summary_id}, skipheader)
    /\ pc' = "done"
    /\ UNCHANGED <<params, todo, last_summary_id, out_loss, skipheader>>

\* processinputfile: losses of zero are left out, and so are unknown events.
ReadBlock ==
    /\ pc = "files"
    /\ todo # <<>>
    /\ LET b == Block(Head(todo))
       IN  /\ summaryids' = IF Known(b.event) THEN summaryids \cup {b.summary} ELSE summaryids
           /\ out_loss' = IF Known(b.event) THEN AddBlock(out_loss, b, Positive(b.recs)) ELSE out_loss
    /\ todo' = Tail(todo)
    /\ UNCHANGED <<params, pc, last_summary_id, skipheader, report>>

EndFiles ==
    /\ pc = "files"
    /\ todo = <<>>
    /\ report' = Report(opt, out_loss, summaryids, skipheader)
    /\ pc' = "done"
    /\ UNCHANGED <<params, todo, last_summary_id, summaryids, out_loss, skipheader>>

Finished ==
    /\ pc = "done"
    /\ UNCHANGED vars

Next == OpenIndexed \/ OpenFiles \/ ReadIndexed \/ EndIndexed \/ ReadBlock \/ EndFiles \/ Finished
Spec == Init /\ [][Next]_vars

-----------------------------------------------------------------------------
\* What the tables should say, from the blocks alone.

\* The loss of sample x of summary i in period p: of all blocks of the summary
\* and all occurrences of their events in the period.
LossOf(recs, x) ==
    LET mine == SelectSeq(recs, LAMBDA r : r.sidx = x)
    IN  IF mine = <<>> THEN 0 ELSE mine[1].loss
Hits(i, p) ==
    {h \in ToSet(ByFile) \X DOMAIN input.occurrence :
       /\ Block(h[1]).summary = i
       /\ input.occurrence[h[2]] = [event |-> Block(h[1]).event, period |-> p]}
PeriodLoss(eptype, i, p, x) ==
    LET loss == [h \in Hits(i, p) |-> LossOf(Block(h[1]).recs, x)]
    IN  IF eptype = "AEP" THEN FoldFunction(+, 0, loss)
        ELSE Max({0} \cup Range(loss))

Rate(p) ==
    IF ~Weighted(opt) THEN <<1, opt.periods>>
    ELSE IF p \in DOMAIN opt.weight THEN opt.weight[p] ELSE ZeroFrac

\* The losses a curve is about and the annual rate of each.
SamplesOf(e) == IF e = 0 THEN 1 .. opt.samples ELSE opt.ensemble[e]
Combined(c, xs, single) ==
    LET share == Whole(Cardinality(xs))
    IN  CASE c.curve \in {"mean", "wheatsheaf"} ->
               [p \in 1 .. opt.periods |-> single[<<p, IF c.curve = "mean" THEN -1 ELSE c.key>>]]
          [] c.curve = "full" ->
               [a \in (1 .. opt.periods) \X xs |-> [single[a] EXCEPT !.rate = Over(@, share)]]
          [] c.curve = "sampleMean" ->
               [p \in 1 .. opt.periods |->
                  [loss |-> Over(Total([x \in xs |-> single[<<p, x>>].loss]), share), rate |-> Rate(p)]]
Distribution(c) ==
    Combined(c, SamplesOf(c.ensemble),
             [a \in (1 .. opt.periods) \X ({-1} \cup 1 .. opt.samples) |->
                [loss |-> Whole(PeriodLoss(c.eptype, c.summary, a[1], a[2])), rate |-> Rate(a[1])]])

RateAbove(dist, x) == Total([a \in {b \in DOMAIN dist : Less(x, dist[b].loss)} |-> dist[a].rate])
RateFrom(dist, x) == Total([a \in {b \in DOMAIN dist : ~Less(dist[b].loss, x)} |-> dist[a].rate])

\* The curves of the report.  With weights the curve of an ensemble is left
\* out: its weights are shared by all samples rather than by its own.
Comparable(c) == c.curve # "wheatsheafMean" /\ (Weighted(opt) => c.ensemble = 0)
Identity(l) == [curve |-> l.curve, eptype |-> l.eptype, summary |-> l.summary, key |-> l.key,
                ensemble |-> l.ensemble]
Lines(kind) == {n \in DOMAIN report : report[n].kind = kind}
Done == pc = "done"

\* A table is only written to a file that was opened.
NeverWritesUnopened == Done => \A n \in DOMAIN report : report[n].files \subseteq Opened(opt)

IsQuantile(l, dist, once) ==
    /\ Less(RateAbove(dist, l.loss), once)
    /\ \/ l.loss = ZeroFrac
       \/ \E a \in DOMAIN dist : /\ ~Less(l.loss, dist[a].loss)
                                 /\ ~Less(RateFrom(dist, dist[a].loss), once)

\* A loss at return period T is reached at least once in T periods, and a
\* larger loss is not: every line of the mean, full uncertainty, sample mean
\* and per sample tables is a quantile of the losses of its summary, whatever
\* files and order the losses came in, with weights or without, at the return
\* periods of the losses or at those asked for (between two losses the curve
\* runs from one to the other).
CurvesAreExceedance ==
    Done => \A n \in Lines("loss") :
              LET l == report[n]
              IN  Comparable(l) /\ l.rp # ZeroFrac =>
                    IsQuantile(l, Distribution(l), Over(Whole(1), l.rp))

AskedCurves ==
    LET ids == {Block(b).summary : b \in ToSet(ByFile)}
        es == IF opt.ord THEN {0} ELSE {0} \cup DOMAIN opt.ensemble
    IN  {[curve |-> o[2], eptype |-> o[1], summary |-> i, key |-> x, ensemble |-> e] :
           o \in {q \in opt.outputs : q[2] # "wheatsheafMean"}, i \in ids, e \in es, x \in 0 .. opt.samples}
        \cup {[curve |-> "mean", eptype |-> o[1], summary |-> i, key |-> 0, ensemble |-> 0] :
               o \in {q \in opt.outputs : q[2] # "wheatsheaf"}, i \in ids}
HasItsLines(dist, positive, mine) ==
    LET largest == CHOOSE a \in positive : \A b \in positive : ~Less(dist[a].loss, dist[b].loss)
    IN  positive # {} =>
          IF ~UseReturnPeriods(opt)
          THEN Cardinality({n \in mine : IsPositive(report[n].loss)}) = Cardinality(positive)
          ELSE \A r \in ToSet(opt.rps) :
                 ~Less(<<1, r>>, RateFrom(dist, dist[largest].loss)) =>
                   Cardinality({n \in mine : report[n].rp = Whole(r)}) = 1
IsComplete(dist, mine) ==
    HasItsLines(dist, {a \in DOMAIN dist : IsPositive(dist[a].loss) /\ IsPositive(dist[a].rate)}, mine)

\* No loss is missing: for each curve there are as many lines as there are
\* losses above zero, or, with a return period file, exactly one line for each
\* return period asked for that the curve can reach.
CurvesComplete ==
    Done => \A c \in AskedCurves :
              /\ Comparable(c)
              /\ IF c.curve = "wheatsheaf" THEN c.key \in SamplesOf(c.ensemble) ELSE c.key = 0
              => IsComplete(Distribution(c), {n \in Lines("loss") : Identity(report[n]) = c})

\* The tail value at risk at a return period is the mean of the losses from
\* there up; at a return period asked for it is at least the loss there.
TailsAreMeans ==
    Done => \A t \in Lines("tvar") :
              LET above == {n \in Lines("loss") : /\ Identity(report[n]) = Identity(report[t])
                                                  /\ ~Less(report[n].rp, report[t].rp)}
                  sum == Total([n \in above |-> report[n].loss])
              IN  /\ above # {}
                  /\ IF ~UseReturnPeriods(opt)
                     THEN report[t].loss = Over(sum, Whole(Cardinality(above)))
                     ELSE \A n \in above : report[n].rp = report[t].rp =>
                                             ~Less(report[t].loss, report[n].loss)

\* The wheatsheaf mean at a return period is the average of the per sample
\* curves there (samples without a loss count as zero).
WheatsheafMeanIsAverage ==
    Done /\ ~UseReturnPeriods(opt) =>
      \A n \in Lines("loss") :
        LET l == report[n]
            there == {m \in Lines("loss") : /\ [Identity(report[m]) EXCEPT !.key = 0]
                                                 = [Identity(l) EXCEPT !.curve = "wheatsheaf"]
                                            /\ report[m].rp = l.rp}
        IN  l.curve = "wheatsheafMean" /\ <<l.eptype, "wheatsheaf">> \in opt.outputs =>
              l.loss = Over(Total([m \in there |-> report[m].loss]),
                            Whole(Cardinality(SamplesOf(l.ensemble))))

\* Every mean of the report is the mean of the lines it stands for: the tail
\* values of the losses above, and without a periods file the wheatsheaf mean
\* of the curves of the samples.
MeansAreAverages == TailsAreMeans /\ (~Weighted(opt) => WheatsheafMeanIsAverage)
==============================================================================
