------------------------------- MODULE Results -------------------------------
(***************************************************************************)
(* The tables made from one set of summary streams: eltcalc and pltcalc    *)
(* read the stream of each process as it is made, aalcalc the files of all *)
(* processes in the work folder.                                           *)
(***************************************************************************)
EXTENDS AalCalc, Occurrence

VARIABLES elt_read, plt_read, elt, plt, splt

Tables == INSTANCE EventTables

tables == <<elt_read, plt_read, elt, plt, splt>>
vars == <<params, aalVars, tables>>

Init ==
    /\ input \in Inputs
    /\ opt \in Options
    /\ order \in SetToSeqs(DOMAIN input.files)
    /\ indexed \in SUBSET DOMAIN input.files
    /\ AalInit
    /\ Tables!TablesInit

Finished ==
    /\ pc \in {"done", "refused", "aborted"}
    /\ \A p \in DOMAIN input.files : /\ plt_read[p] = Len(input.files[p])
                                     /\ Tables!CanRead => elt_read[p] = Len(input.files[p])
    /\ UNCHANGED vars

Next ==
    \/ AalNext /\ UNCHANGED tables
    \/ Tables!TablesNext /\ UNCHANGED <<order, indexed, aalVars>>
    \/ Finished

Spec == Init /\ [][Next]_vars

-----------------------------------------------------------------------------
AalDone == pc = "done"
TablesDone == \A p \in DOMAIN input.files : /\ elt_read[p] = Len(input.files[p])
                                            /\ plt_read[p] = Len(input.files[p])

\* What the tables should say, from the blocks alone: the losses of sample x
\* (or -1) of summary i in period p.
AllBlocks == {<<f, n>> : f \in DOMAIN input.files, n \in 1 .. 9}
Blocks == {b \in AllBlocks : b[2] \in DOMAIN input.files[b[1]]}
Block(b) == input.files[b[1]][b[2]]
LossOf(b, x) ==
    LET mine == SelectSeq(Block(b).recs, LAMBDA r : r.sidx = x)
    IN  IF mine = <<>> THEN 0 ELSE mine[1].loss
PeriodLoss(i, p, x) ==
    LET hits == {h \in Blocks \X DOMAIN input.occurrence :
                   /\ Block(h[1]).summary = i
                   /\ input.occurrence[h[2]].event = Block(h[1]).event
                   /\ input.occurrence[h[2]].period = p}
    IN  FoldFunction(+, 0, [h \in hits |-> LossOf(h[1], x)])

Total(f) == FoldFunction(Plus, ZeroFrac, f)
SamplesOf(row) ==
    IF row.type = 1 THEN {-1}
    ELSE IF row.ensemble = 0 THEN 1 .. opt.samples
    ELSE {x \in DOMAIN opt.ensemble : opt.ensemble[x] = row.ensemble}
Rate(p) == IF opt.weight = <<>> THEN <<1, opt.periods>> ELSE opt.weight[p]

\* The summaries with an event that occurs.
Occurring == {Block(b).summary : b \in {c \in Blocks : Occurs(Block(c).event) # <<>>}}
RowsExpected ==
    {<<1, i, 0>> : i \in Occurring}
      \cup {<<2, i, e>> : i \in {j \in Occurring : opt.samples > 0}, e \in {0} \cup Ensembles}

\* Every summary has its rows, and a row the mean of its losses over periods
\* and samples, their variance over all periods and samples (those without a
\* loss included), and the largest exposure with a loss: whatever the order of
\* the directory, the files that have an index and the way the events are
\* divided among the files.
AALIsExact ==
    AalDone =>
      /\ {<<r.type, r.summary, r.ensemble>> : r \in aal} = RowsExpected
      /\ Cardinality(aal) = Cardinality(RowsExpected)
      /\ \A r \in aal :
           LET xs == SamplesOf(r)
               loss == [a \in (1 .. opt.periods) \X xs |-> PeriodLoss(r.summary, a[1], a[2])]
               deviation == [a \in DOMAIN loss |-> Minus(Whole(loss[a]), r.mean)]
               number == Cardinality(DOMAIN loss)
               exposed == {b \in Blocks : /\ Block(b).summary = r.summary
                                          /\ Occurs(Block(b).event) # <<>>
                                          /\ \E x \in xs : LossOf(b, x) > 0}
           IN  /\ r.mean = Total([a \in DOMAIN loss |->
                                    Over(Times(Whole(loss[a]), Rate(a[1])), Whole(Cardinality(xs)))])
               /\ opt.weight = <<>> /\ number > 1 =>
                    r.variance = Over(Total([a \in DOMAIN loss |-> Times(deviation[a], deviation[a])]),
                                      Whole(number - 1))
               /\ r.exposure = Max({0} \cup {Block(b).expval : b \in exposed})

\* The average annual loss is the mean of the event loss table times the rates
\* of the events, the mean of the period loss table times the weights of the
\* periods, and the losses of the sample period loss table times those weights.
AllRows(table) == {<<p, n>> : p \in DOMAIN table, n \in 1 .. Max({Len(table[p]) : p \in DOMAIN table})}
\* Only the ORD output has the weights; without them its reader knows the periods.
WeightOf(row) ==
    IF opt.ord THEN row.weight
    ELSE IF row.period <= opt.periods THEN Rate(row.period) ELSE ZeroFrac
RowsOf(table, Match(_)) ==
    {q \in AllRows(table) : q[2] \in DOMAIN table[q[1]] /\ Match(table[q[1]][q[2]])}
TablesAgree ==
    AalDone /\ TablesDone =>
      \A r \in {s \in aal : s.ensemble = 0} :
        LET Mine(row) == row.summary = r.summary /\ row.type = r.type
            Sampled(row) == row.summary = r.summary /\ (row.sidx = -1 <=> r.type = 1)
            byPeriod == RowsOf(plt, Mine)
            byEvent == RowsOf(elt, Mine)
            bySample == RowsOf(splt, Sampled)
            number == IF r.type = 1 THEN 1 ELSE opt.samples
        IN  /\ r.mean = Total([q \in byPeriod |->
                                 Times(plt[q[1]][q[2]].mean, WeightOf(plt[q[1]][q[2]]))])
            /\ opt.ord => r.mean = Total([q \in bySample |->
                                            Over(Times(Whole(splt[q[1]][q[2]].loss), splt[q[1]][q[2]].weight),
                                                 Whole(number))])
            /\ opt.weight = <<>> /\ Tables!CanRead =>
                 r.mean = Total([q \in byEvent |-> Times(elt[q[1]][q[2]].mean, elt[q[1]][q[2]].rate)])

\* The period loss table has exactly one row of each type for a block and an
\* occurrence of its event (the sample row only when a sample has a loss), with
\* the date the occurrence had in the csv file and the deviation the event loss
\* table gives.
OneRowPerOccurrence ==
    TablesDone => \A b \in Blocks :
      \A k \in {n \in DOMAIN input.csv : input.csv[n].event = Block(b).event} :
        LET occ == input.csv[k]
            At(row) == /\ row.summary = Block(b).summary
                       /\ row.event = occ.event
                       /\ row.period = occ.period
                       /\ row.date = [year |-> occ.year, month |-> occ.month, day |-> occ.day]
            Mine(type) == {n \in DOMAIN plt[b[1]] : At(plt[b[1]][n]) /\ plt[b[1]][n].type = type}
            sampled == \E x \in 1 .. opt.samples : LossOf(b, x) > 0
        IN  /\ Cardinality(Mine(1)) = 1
            /\ Cardinality(Mine(2)) = IF sampled THEN 1 ELSE 0
            /\ opt.samples > 1 =>
                 \A n \in Mine(2) :
                   \E m \in DOMAIN elt[b[1]] :
                     /\ elt[b[1]][m].event = occ.event
                     /\ elt[b[1]][m].summary = Block(b).summary
                     /\ elt[b[1]][m].type = 2
                     /\ elt[b[1]][m].variance = plt[b[1]][n].variance
                     /\ elt[b[1]][m].mean = plt[b[1]][n].mean

==============================================================================
