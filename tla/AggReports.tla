----------------------------- MODULE AggReports ------------------------------
(***************************************************************************)
(* Which tables a report of leccalc or ordleccalc holds, from which losses *)
(* each is built and which files it goes to (class aggreports).            *)
(*                                                                         *)
(* A line of output is a record [files, curve, eptype, summary, key,       *)
(* ensemble, kind, rp, loss]: key is the sample of a per sample table and  *)
(* 0 elsewhere, kind is "header", "loss" or "tvar".                        *)
(***************************************************************************)
EXTENDS EpTables

Curves == {"full", "wheatsheaf", "sampleMean", "wheatsheafMean"}
EPType == {"OEP", "AEP"}

\* The file of a table: ordleccalc has one file for the per sample tables and
\* one for all others, leccalc one for each table.
GetFileIDs(opt, eptype, curve) ==
    IF opt.ord THEN {IF curve = "wheatsheaf" THEN "PSEPT" ELSE "EPT"}
    ELSE {<<eptype, curve>>}

\* The command line.  In leccalc the option of a table names its file; in
\* ordleccalc the options name the tables and, apart from them, up to two files,
\* and it refuses to run when a table has none.
Opened(opt) ==
    IF opt.ord THEN opt.opened ELSE {<<o[1], o[2]>> : o \in opt.outputs}
Accepted(opt) ==
    opt.ord => UNION {GetFileIDs(opt, o[1], o[2]) : o \in opt.outputs} \subseteq opt.opened

MeanForAll(opt, eptype) ==                  \* mutant: with the wheatsheaf too
    LET asked == {<<eptype, c>> : c \in Curves} \cap opt.outputs
    IN  IF opt.ord /\ asked # {} THEN {"EPT"} ELSE asked
\* The mean damage ratio goes to each of the files asked for but the wheatsheaf.
MeanFiles(opt, eptype) ==
    LET asked == {<<eptype, c>> : c \in Curves \ {"wheatsheaf"}} \cap opt.outputs
    IN  IF opt.ord /\ asked # {} THEN {"EPT"} ELSE asked

Header(files, curve, eptype) ==
    [files |-> files, curve |-> curve, eptype |-> eptype, summary |-> 0, key |-> 0,
     ensemble |-> 0, kind |-> "header", rp |-> ZeroFrac, loss |-> ZeroFrac]

\* A table: its header, the losses of each curve, and in ordleccalc the tail
\* values at risk of each curve.  keys are the curves in the order of the map:
\* <<summary, sample>>.  Nothing is written when there is no curve.
TableLines(opt, files, curve, eptype, ensemble, keys, curveOf) ==
    LET Line(k, kind, p) ==
          [files |-> files, curve |-> curve, eptype |-> eptype, summary |-> k[1], key |-> k[2],
           ensemble |-> ensemble, kind |-> kind, rp |-> p.rp, loss |-> p.loss]
        LossLines(k) == [n \in DOMAIN curveOf[k].rows |-> Line(k, "loss", curveOf[k].rows[n])]
        TailLines(k) == [n \in DOMAIN curveOf[k].tail |-> Line(k, "tvar", curveOf[k].tail[n])]
        All(lines(_)) == FlattenSeq([n \in DOMAIN keys |-> lines(keys[n])])
    IN  IF keys = <<>> THEN <<>>
        ELSE (IF curve \in {"mean", "wheatsheaf"} THEN <<Header(files, curve, eptype)>> ELSE <<>>)
               \o All(LossLines) \o (IF opt.ord THEN All(TailLines) ELSE <<>>)

KeyBefore(a, b) == a[1] < b[1] \/ (a[1] = b[1] /\ a[2] < b[2])
InOrder(keys) == SetToSortSeq(keys, KeyBefore)

-----------------------------------------------------------------------------
\* With weights, losses of a period that has none are dropped.
Counted(opt, losses) ==
    {k \in DOMAIN losses : Weighted(opt) => k.period \in DOMAIN opt.weight}
Unused(opt, losses) == DOMAIN opt.weight \ {k.period : k \in DOMAIN losses}

Item(opt, period, loss) ==
    [loss |-> loss, period |-> period,
     weight |-> IF period \in DOMAIN opt.weight THEN PeriodWeight(opt, period) ELSE ZeroFrac]
ItemsOf(opt, losses, keys, eptype) ==
    LET s == SetToSeq(keys)
    IN  [n \in DOMAIN s |-> Item(opt, s[n].period, GetOutLoss(eptype, losses[s[n]]))]

\* The losses of the samples of an ensemble; ensemble 0 is all of them.
OfEnsemble(opt, losses, e) ==
    IF e = 0 THEN losses
    ELSE LET keys == {k \in DOMAIN losses : k.sidx \in opt.ensemble[e]}
         IN  [k \in keys |-> losses[k]]
SizeOf(opt, e) == IF e = 0 THEN opt.samples ELSE Cardinality(opt.ensemble[e])

\* One curve for each group of losses: by summary, or by summary and sample.
BySummary(k) == <<k.summary, 0>>
BySample(k) == <<k.summary, k.sidx>>
GroupedTable(opt, curve, files, eptype, e, losses, GroupOf(_), span, factor) ==
    LET all == Counted(opt, losses)
        keys == {GroupOf(k) : k \in all}
        curveOf == [q \in keys |->
                      Curve(opt, ItemsOf(opt, losses, {k \in all : GroupOf(k) = q}, eptype),
                            span, factor, 1, Unused(opt, losses))]
    IN  TableLines(opt, files, curve, eptype, e, InOrder(keys), curveOf)

\* The mean losses of the periods in one curve.
MeanDamageRatio(opt, means, eptype) ==
    GroupedTable(opt, "mean", MeanFiles(opt, eptype), eptype, 0, means, BySummary, 1, opt.samples)

\* The losses of all periods and samples in one curve.
FullUncertainty(opt, samples, eptype, e) ==
    GroupedTable(opt, "full", GetFileIDs(opt, eptype, "full"), eptype, e,
                 OfEnsemble(opt, samples, e), BySummary, SizeOf(opt, e), 1)

\* One curve for each sample.
Wheatsheaf(opt, samples, eptype, e) ==
    GroupedTable(opt, "wheatsheaf", GetFileIDs(opt, eptype, "wheatsheaf"), eptype, e,
                 OfEnsemble(opt, samples, e), BySample, 1, opt.samples)

\* The wheatsheaf mean of a summary: without weights the i-th largest losses
\* of the samples are added up, with weights the losses of each period.
Total(f) == FoldFunction(Plus, ZeroFrac, f)
Largest(S) == IF S = {} THEN 0 ELSE Max(S)
SumByKey(opt, losses, mine, eptype) ==      \* mutant: not ranked first
    LET sidxs == {k.sidx : k \in mine}
        rows == [x \in sidxs |-> Reverse(Ranked(ItemsOf(opt, losses, {k \in mine : k.sidx = x}, eptype)))]
    IN  [i \in 1 .. Largest({Len(rows[x]) : x \in sidxs}) |->
           Item(opt, i, Total([x \in {y \in sidxs : i \in DOMAIN rows[y]} |-> rows[x][i].loss]))]
SumByRank(opt, losses, mine, eptype) ==
    LET sidxs == {k.sidx : k \in mine}
        ranked == [x \in sidxs |->
                     Ranked(ItemsOf(opt, losses, {k \in mine : k.sidx = x}, eptype))]
    IN  [i \in 1 .. Largest({Len(ranked[x]) : x \in sidxs}) |->
           Item(opt, i, Total([x \in {y \in sidxs : i \in DOMAIN ranked[y]} |-> ranked[x][i].loss]))]
SumByPeriod(opt, losses, mine, eptype) ==
    [p \in 1 .. Largest({k.period : k \in mine}) |->
       LET here == {k \in mine : k.period = p}
       IN  [Item(opt, p, Total([k \in here |-> GetOutLoss(eptype, losses[k])]))
              EXCEPT !.weight = IF here = {} THEN ZeroFrac ELSE @]]
WheatsheafMean(opt, samples, summaryids, eptype, e) ==
    LET losses == OfEnsemble(opt, samples, e)
        Mine(q) == {k \in Counted(opt, losses) : k.summary = q[1]}
        keys == {<<i, 0>> : i \in summaryids}
        itemsOf(q) == IF Weighted(opt) THEN SumByPeriod(opt, losses, Mine(q), eptype)
                      ELSE SumByRank(opt, losses, Mine(q), eptype)
        curveOf == [q \in keys |-> Curve(opt, itemsOf(q), 1, SizeOf(opt, e), SizeOf(opt, e),
                                         Unused(opt, losses))]
    IN  IF SizeOf(opt, e) = 0 THEN <<>>
        ELSE TableLines(opt, GetFileIDs(opt, eptype, "wheatsheafMean"), "wheatsheafMean", eptype, e,
                        InOrder(keys), curveOf)

\* The sample mean: the mean over the samples of the losses of each period.
SampleMean(opt, samples, eptype, e) ==
    LET losses == OfEnsemble(opt, samples, e)
        all == Counted(opt, losses)
        keys == {BySummary(k) : k \in all}
        mean(q, p) == Over(Total([k \in {j \in all : j.summary = q[1] /\ j.period = p} |->
                                    GetOutLoss(eptype, losses[k])]), Whole(SizeOf(opt, e)))
        itemsOf(q) == LET periods == SetToSeq({k.period : k \in {j \in all : j.summary = q[1]}})
                      IN  [n \in DOMAIN periods |-> Item(opt, periods[n], mean(q, periods[n]))]
        curveOf == [q \in keys |-> Curve(opt, itemsOf(q), 1, opt.samples, 1, Unused(opt, losses))]
    IN  IF opt.samples = 0 THEN <<>>
        ELSE TableLines(opt, GetFileIDs(opt, eptype, "sampleMean"), "sampleMean", eptype, e,
                        InOrder(keys), curveOf)

-----------------------------------------------------------------------------
\* The tables of one kind: for all samples, then for each ensemble, which
\* ordleccalc does not support.
EnsembleIds(opt) ==
    <<0>> \o (IF opt.ord THEN <<>> ELSE SetToSortSeq(DOMAIN opt.ensemble, <))
Repeated(opt, lines(_)) ==
    LET ids == EnsembleIds(opt) IN FlattenSeq([n \in DOMAIN ids |-> lines(ids[n])])

\* OutputOcc... and OutputAgg...: the table if it was asked for.
IfAsked(opt, eptype, curve, lines) ==
    IF <<eptype, curve>> \in opt.outputs THEN lines ELSE <<>>
OutputMean(opt, maps, eptype) ==
    IF MeanFiles(opt, eptype) = {} THEN <<>> ELSE MeanDamageRatio(opt, maps.means, eptype)
OutputFull(opt, maps, eptype) ==
    IfAsked(opt, eptype, "full",
            Repeated(opt, LAMBDA e : FullUncertainty(opt, maps.samples, eptype, e)))
OutputWheatsheafs(opt, maps, summaryids, eptype) ==
    Repeated(opt, LAMBDA e :
        IfAsked(opt, eptype, "wheatsheaf", Wheatsheaf(opt, maps.samples, eptype, e))
          \o IfAsked(opt, eptype, "wheatsheafMean",
                     WheatsheafMean(opt, maps.samples, summaryids, eptype, e)))
OutputSampleMean(opt, maps, eptype) ==
    IfAsked(opt, eptype, "sampleMean",
            Repeated(opt, LAMBDA e : SampleMean(opt, maps.samples, eptype, e)))

\* The header is written once to each file, and not at all when skipped.
WithoutHeaders(lines) == SelectSeq(lines, LAMBDA l : l.kind # "header")
HeadersOnce(lines) ==
    LET first(n) == \A m \in 1 .. n - 1 : ~(lines[m].kind = "header" /\ lines[m].files = lines[n].files)
        kept == SelectSeq([n \in DOMAIN lines |-> n],
                          LAMBDA n : lines[n].kind = "header" => first(n))
    IN  [n \in DOMAIN kept |-> lines[kept[n]]]

\* outputaggreports: the tables of a report in the order they are written.
OutputTable(opt, maps, summaryids, table, eptype) ==
    CASE table = 1 -> OutputMean(opt, maps, eptype)
      [] table = 2 -> OutputFull(opt, maps, eptype)
      [] table = 3 -> OutputWheatsheafs(opt, maps, summaryids, eptype)
      [] table = 4 -> OutputSampleMean(opt, maps, eptype)
AllTablesOf(opt, maps, summaryids) ==
    FlattenSeq([n \in 1 .. 8 |-> OutputTable(opt, maps, summaryids, (n + 1) \div 2,
                                             IF n % 2 = 1 THEN "OEP" ELSE "AEP")])
Headed(lines, skipheader) == IF skipheader THEN WithoutHeaders(lines) ELSE HeadersOnce(lines)
Report(opt, maps, summaryids, skipheader) ==
    Headed(AllTablesOf(opt, maps, summaryids), skipheader)
==============================================================================
