------------------------------ MODULE GulCalc ------------------------------
(* gulcalc: from the CDFs of getmodel to the losses of items and coverages. *)
(* Mode 0 samples each item as its CDF arrives and sums the coverages on    *)
(* the side; mode 1 keeps the items of an event by coverage and allocates   *)
(* the loss of each coverage back to its items when the event is over.      *)
(* One action is one turn of the read loop.                                 *)
(*                                                                          *)
(* Probabilities, damages and losses are integers: a draw is a step of the  *)
(* cumulative probability (of PROB), a damage a number of parts (of DAMAGE) *)
(* and the loss of a bin that damage of the exposure, without interpolation *)
(* within the bin.  The exposures of the instances are multiples of all the *)
(* divisors that occur.  The standard deviation is a field of the CDF.      *)
EXTENDS Integers, Sequences, SequencesExt, FiniteSetsExt

CONSTANTS Events, Keys,         \* a key is an areaperil and a vulnerability
          Item, Coverage,       \* ids
          KeyOf, CoverageOf, GroupOf,   \* the columns of the items file
          Tiv,                  \* the coverages file
          CdfOf,                \* the CDF of an event and key:
                                \*   [prob_to, bin_mean: sequences, sd]
          PROB, DAMAGE, loss_threshold,
          Options               \* command lines, as gulcalcopts

IsCdf(cdf) ==
    /\ cdf.prob_to \in Seq(Int) \ {<<>>} /\ cdf.sd \in Nat
    /\ cdf.bin_mean \in [DOMAIN cdf.prob_to -> Nat]
ASSUME GulAssumption ==
    /\ Events \subseteq Nat \ {0} /\ Item \subseteq Nat \ {0} /\ Coverage \subseteq Nat \ {0}
    /\ Keys \subseteq Nat /\ IsFiniteSet(Item) /\ IsFiniteSet(Coverage)
    /\ KeyOf \in [Item -> Keys] /\ CoverageOf \in [Item -> Coverage]
    /\ GroupOf \in [Item -> Nat \ {0}] /\ Tiv \in [Coverage -> Nat]
    /\ \A ek \in Events \X Keys : IsCdf(CdfOf[ek])
    /\ PROB \in Nat \ {0} /\ DAMAGE \in Nat \ {0}
    /\ loss_threshold \in Nat \ {0}
    /\ Options \subseteq [allocRule : -1 .. 2, mode : 0 .. 1, samplesize : Nat,
                          coverageLevelOutput : BOOLEAN, correlatedLevelOutput : BOOLEAN]
    /\ \A o \in Options : o.mode = 1 => o.allocRule # -1 /\ ~o.coverageLevelOutput

VARIABLES
    opt_,           \* the options (rigid)
    last_event_id,
    drawn,          \* drawn[e][g]: the numbers of group g in event e, once
                    \* they are fixed; group 0 stands for the event's own
    cov_,           \* cov_[c]: sums by sample, or <<>>
    mode1_stats_,   \* mode1_stats_[c]: the items of the event so far
    mode1UsedCoverageIDs_,
    itemout, corrout, covout,       \* the records of the three streams
    read,           \* history: the CDFs read, <<event, key>>
    done

vars == <<opt_, last_event_id, drawn, cov_, mode1_stats_, mode1UsedCoverageIDs_,
          itemout, corrout, covout, read, done>>

samplesize == opt_.samplesize
allocRule == opt_.allocRule             \* -a, or -1
coverageLevelOutput == opt_.coverageLevelOutput         \* -c
correlatedLevelOutput == opt_.correlatedLevelOutput     \* -j
Sample == 1 .. samplesize
Groups == {GroupOf[i] : i \in Item} \cup (IF correlatedLevelOutput THEN {0} ELSE {})
Numbers == [Groups -> [Sample -> 0 .. PROB - 1]]
\* A set of numbers in ascending order, and the elements of s at the places I.
Sorted(S) == [n \in 1 .. Cardinality(S) |-> CHOOSE x \in S : Cardinality({y \in S : y < x}) = n - 1]
Picked(s, I) == LET at == Sorted(I) IN [n \in DOMAIN at |-> s[at[n]]]
SumOf(f, S) == MapThenSumSet(LAMBDA x : f[x], S)
Least(m, n) == IF m < n THEN m ELSE n
Row(e, id, s, loss) == <<e, id, s, loss>>

-----------------------------------------------------------------------------
\* An allocation rule above 0 asks for mode 1 and -m overrules it; mode 1 is
\* refused without a rule, and coverage output puts it back to 0.
mode == opt_.mode

\* The items a CDF concerns, in the order of the items file.
ItemsOf(k) == Sorted({i \in Item : KeyOf[i] = k})

\* The first bin whose cumulative probability exceeds the number; a number not
\* below the last one is moved just under it.
BinOf(cdf, rval) ==
    LET most == Last(cdf.prob_to)
        r == IF rval >= most THEN most - 1 ELSE rval
    IN Min({b \in DOMAIN cdf.prob_to : r < cdf.prob_to[b]})

getgul(cdf, b, tiv) == (cdf.bin_mean[b] * tiv) \div DAMAGE

gul_mean(cdf, tiv) ==
    SumOf([b \in DOMAIN cdf.prob_to |->
            (cdf.prob_to[b] - (IF b = 1 THEN 0 ELSE cdf.prob_to[b - 1])) * cdf.bin_mean[b] * tiv],
          DOMAIN cdf.prob_to) \div (PROB * DAMAGE)
std_dev(cdf, tiv) == (cdf.sd * tiv) \div DAMAGE

\* The losses of item i by sample, with the numbers of group g.
Sampled(cdf, i, g, numbers) ==
    [s \in Sample |-> getgul(cdf, BinOf(cdf, numbers[g][s]), Tiv[CoverageOf[i]])]
KeptAll(losses) == [s \in Sample |-> s]        \* mutant: no threshold
Kept(losses) == Sorted({s \in Sample : losses[s] >= loss_threshold})

\* Mode 0 ------------------------------------------------------------------
writemode0output(e, i, losses) ==
    LET kept == Kept(losses) IN [n \in 1 .. Len(kept) |-> Row(e, i, kept[n], losses[kept[n]])]
ItemRows(e, k, i, g, numbers) ==
    LET cdf == CdfOf[<<e, k>>]
        tiv == Tiv[CoverageOf[i]]
    IN << Row(e, i, -3, tiv), Row(e, i, -2, std_dev(cdf, tiv)), Row(e, i, -1, gul_mean(cdf, tiv)) >>
       \o writemode0output(e, i, Sampled(cdf, i, g, numbers))

\* What a record adds to the coverage sums; with a correlated output, samples
\* are not summed.
gencovoutput(sums, e, k, numbers) ==
    LET cdf == CdfOf[<<e, k>>]
        Here(c) == {i \in Item : KeyOf[i] = k /\ CoverageOf[i] = c}
        Of(i, s) == IF s = -2 THEN std_dev(cdf, Tiv[CoverageOf[i]])
                    ELSE IF s = -1 THEN gul_mean(cdf, Tiv[CoverageOf[i]])
                    ELSE LET l == Sampled(cdf, i, GroupOf[i], numbers)[s] IN
                         IF l >= loss_threshold /\ ~correlatedLevelOutput THEN l ELSE 0
    IN IF ~coverageLevelOutput THEN sums
       ELSE [c \in Coverage |-> IF Here(c) = {} THEN sums[c]
            ELSE [s \in {-2, -1} \cup Sample |->
                    (IF sums[c] = <<>> THEN 0 ELSE sums[c][s])
                        + SumOf([i \in Here(c) |-> Of(i, s)], Here(c))]]

Uncapped(c, loss) == loss                       \* mutant: the sum is not capped
Capped(c, loss) == Least(loss, Tiv[c])

\* The coverage records of an event, and the sums forgotten.
outputcoveragedata(sums, e) ==
    FlattenSeq([n \in 1 .. Cardinality(Coverage) |->
        LET c == Sorted(Coverage)[n]
            rows == Sorted({s \in {-1} \cup Sample :
                              s = -1 \/ Capped(c, sums[c][s]) >= loss_threshold})
        IN IF sums[c] = <<>> THEN <<>>
           ELSE [m \in 1 .. Len(rows) |-> Row(e, c, rows[m], Capped(c, sums[c][rows[m]]))]])
NoSums == [c \in Coverage |-> <<>>]

\* Mode 1 ------------------------------------------------------------------
\* A sample below the threshold is not recorded.
fillgulitemloss(losses) == Picked(losses, {n \in DOMAIN losses : losses[n].loss >= loss_threshold})

\* gilv: for each sample index the losses of the items of coverage c that have
\* one, as [item, loss], in the order the items were read.
Gilv(stats, c, numbers, correlated) ==
    LET tiv == Tiv[c]
        LossOf(st, s) ==
            IF s = -3 THEN tiv \div Len(stats)
            ELSE IF s = -2 THEN std_dev(st.cdf, tiv)
            ELSE IF s = -1 THEN gul_mean(st.cdf, tiv)
            ELSE Sampled(st.cdf, st.item, IF correlated THEN 0 ELSE GroupOf[st.item], numbers)[s]
        Losses(s) == [n \in 1 .. Len(stats) |-> [item |-> stats[n].item, loss |-> LossOf(stats[n], s)]]
    IN [s \in {-3, -2, -1} \cup Sample |->
          IF s < 0 THEN Losses(s) ELSE fillgulitemloss(Losses(s))]

Total(row) == SumOf([n \in 1 .. Len(row) |-> row[n].loss], 1 .. Len(row))

MaxUndivided(row) ==        \* mutant: every item with the maximum keeps it
    LET max_loss == Max({0} \cup {row[n].loss : n \in 1 .. Len(row)}) IN
    [n \in 1 .. Len(row) |->
        [row[n] EXCEPT !.loss = IF @ = max_loss THEN @ ELSE 0]]
setmaxloss(row) ==
    LET max_loss == Max({0} \cup {row[n].loss : n \in 1 .. Len(row)})
        count == Cardinality({n \in 1 .. Len(row) : row[n].loss = max_loss})
    IN [n \in 1 .. Len(row) |->
            [row[n] EXCEPT !.loss = IF @ = max_loss THEN @ \div count ELSE 0]]

splittiv(row, tiv) ==
    IF tiv > 0 /\ Total(row) > tiv
    THEN [n \in 1 .. Len(row) |-> [row[n] EXCEPT !.loss = (@ * tiv) \div Total(row)]]
    ELSE row

\* The records of coverage c: item by item, each with its samples in order.
writemode1output(e, c, gilv) ==
    LET Allocated(s) ==
            splittiv(IF allocRule = 2 /\ s # -3 THEN setmaxloss(gilv[s]) ELSE gilv[s], Tiv[c])
        rows == FlattenSeq([m \in 1 .. samplesize + 3 |->
            LET s == Sorted(DOMAIN gilv)[m]
                row == Allocated(s)
            IN [n \in 1 .. Len(row) |-> Row(e, row[n].item, s, row[n].loss)]])
        items == Sorted({rows[n][2] : n \in 1 .. Len(rows)})
    IN FlattenSeq([n \in 1 .. Len(items) |-> Picked(rows, {m \in 1 .. Len(rows) : rows[m][2] = items[n]})])

outputmode1data(e, correlated) ==
    FlattenSeq([n \in 1 .. Len(mode1UsedCoverageIDs_) |->
        LET c == mode1UsedCoverageIDs_[n] IN
        writemode1output(e, c, Gilv(mode1_stats_[c], c, drawn[e], correlated))])

NoStats == [c \in Coverage |-> <<>>]
clearmode1_data == [c \in Coverage |-> IF c \in Range(mode1UsedCoverageIDs_) THEN <<>>
                                       ELSE mode1_stats_[c]]

-----------------------------------------------------------------------------
Init ==
    /\ opt_ \in Options
    /\ last_event_id = -1 /\ drawn = [e \in Events |-> <<>>]
    /\ cov_ = NoSums /\ mode1_stats_ = NoStats /\ mode1UsedCoverageIDs_ = <<>>
    /\ itemout = <<>> /\ corrout = <<>> /\ covout = <<>> /\ read = <<>> /\ done = FALSE

\* getmodel sends the CDFs of an event together, in the order of the keys, and
\* only those its footprint has.
Sent(e, k) ==
    /\ e = last_event_id \/ \A n \in 1 .. Len(read) : read[n][1] # e
    /\ \A n \in 1 .. Len(read) : read[n][1] = e => read[n][2] < k

DrawnAnew(e) == Numbers         \* mutant: seeded by nothing that lasts

\* Group and event seed the generator: every item of a group meets the same
\* numbers in an event, whenever it is sampled.
Drawn(e) == IF e = last_event_id THEN {drawn[e]} ELSE Numbers

Ends(e) == e # last_event_id /\ last_event_id > 0

mode0(e, k) ==
    /\ mode = 0
    /\ \E numbers \in Drawn(e) :
        LET Rows(correlated) == FlattenSeq([n \in 1 .. Len(ItemsOf(k)) |->
                LET i == ItemsOf(k)[n] IN
                ItemRows(e, k, i, IF correlated THEN 0 ELSE GroupOf[i], numbers)])
        IN /\ drawn' = [drawn EXCEPT ![e] = numbers]
           /\ itemout' = itemout \o Rows(FALSE)
           /\ corrout' = IF correlatedLevelOutput THEN corrout \o Rows(TRUE) ELSE corrout
           /\ covout' = IF Ends(e) THEN covout \o outputcoveragedata(cov_, last_event_id) ELSE covout
           /\ cov_' = gencovoutput(IF Ends(e) THEN NoSums ELSE cov_, e, k, numbers)
    /\ UNCHANGED <<mode1_stats_, mode1UsedCoverageIDs_>>

mode1(e, k) ==
    /\ mode = 1
    /\ drawn' \in {[drawn EXCEPT ![e] = numbers] : numbers \in Drawn(e)}
    /\ itemout' = IF Ends(e) THEN itemout \o outputmode1data(last_event_id, FALSE) ELSE itemout
    /\ corrout' = IF Ends(e) /\ correlatedLevelOutput
                  THEN corrout \o outputmode1data(last_event_id, TRUE) ELSE corrout
    /\ LET stats == IF Ends(e) THEN clearmode1_data ELSE mode1_stats_
           used == IF Ends(e) THEN <<>> ELSE mode1UsedCoverageIDs_
           Of(c) == Sorted({i \in Item : KeyOf[i] = k /\ CoverageOf[i] = c})
       IN /\ mode1_stats_' = [c \in Coverage |-> stats[c] \o
                [n \in 1 .. Len(Of(c)) |-> [item |-> Of(c)[n], cdf |-> CdfOf[<<e, k>>]]]]
          /\ mode1UsedCoverageIDs_' = FoldLeft(
                LAMBDA ids, i : IF stats[CoverageOf[i]] # <<>> \/ Contains(ids, CoverageOf[i]) THEN ids
                                ELSE Append(ids, CoverageOf[i]),
                used, ItemsOf(k))
    /\ UNCHANGED <<cov_, covout>>

ReadCdf ==
    /\ ~done
    /\ \E e \in Events, k \in Keys :
        /\ Sent(e, k)
        /\ mode0(e, k) \/ mode1(e, k)
        /\ last_event_id' = e
        /\ read' = Append(read, <<e, k>>)
    /\ UNCHANGED <<opt_, done>>

\* The end of the input: what is left of the last event is output.
EndOfInput ==
    /\ ~done /\ done' = TRUE
    /\ IF mode = 0
       THEN /\ covout' = covout \o outputcoveragedata(cov_, last_event_id)
            /\ cov_' = NoSums
            /\ UNCHANGED <<itemout, corrout, mode1_stats_, mode1UsedCoverageIDs_>>
       ELSE /\ itemout' = itemout \o outputmode1data(last_event_id, FALSE)
            /\ corrout' = IF correlatedLevelOutput
                          THEN corrout \o outputmode1data(last_event_id, TRUE) ELSE corrout
            /\ mode1_stats_' = clearmode1_data /\ mode1UsedCoverageIDs_' = <<>>
            /\ UNCHANGED <<cov_, covout>>
    /\ UNCHANGED <<opt_, last_event_id, drawn, read>>

Stopped == done /\ UNCHANGED vars
Next == ReadCdf \/ EndOfInput \/ Stopped
Spec == Init /\ [][Next]_vars

-----------------------------------------------------------------------------
\* What the properties speak of: the events that are over, the items that met
\* a CDF, the rows of a stream.
Finished == {read[n][1] : n \in 1 .. Len(read)} \ (IF done THEN {} ELSE {last_event_id})
Arrived(e) == {i \in Item : \E n \in 1 .. Len(read) : read[n] = <<e, KeyOf[i]>>}
Affected(e) == {CoverageOf[i] : i \in Arrived(e)}
RowsOf(out, e, id, s) == {n \in 1 .. Len(out) : out[n][1] = e /\ out[n][2] = id /\ out[n][3] = s}
Reported(out, e, id, s) ==
    SumOf([n \in 1 .. Len(out) |-> out[n][4]], RowsOf(out, e, id, s))
\* The loss of an item before any allocation, zero below the threshold.
Unallocated(e, i, s, g) ==
    LET cdf == CdfOf[<<e, KeyOf[i]>>]
        tiv == Tiv[CoverageOf[i]]
        l == Sampled(cdf, i, g, drawn[e])[s]
    IN IF s = -2 THEN std_dev(cdf, tiv) ELSE IF s = -1 THEN gul_mean(cdf, tiv)
       ELSE IF l >= loss_threshold THEN l ELSE 0
Streams == {FALSE} \cup (IF correlatedLevelOutput THEN {TRUE} ELSE {})
Out(correlated) == IF correlated THEN corrout ELSE itemout
GroupIn(i, correlated) == IF correlated THEN 0 ELSE GroupOf[i]

(* What an event's items are given depends on that event alone: each item   *)
(* that met a CDF has its exposure, deviation and mean once, and a record   *)
(* for exactly the samples that reach the threshold before allocation; no   *)
(* other item has any, however many events came before.                     *)
EventsIndependent ==
    \A e \in Finished, i \in Item, correlated \in Streams :
        \A s \in {-3, -2, -1} \cup Sample :
            Cardinality(RowsOf(Out(correlated), e, i, s)) =
                IF i \in Arrived(e)
                   /\ (s < 0 \/ Unallocated(e, i, s, GroupIn(i, correlated)) > 0)
                THEN 1 ELSE 0

(* Without allocation the records hold the sampled losses: the groups'      *)
(* numbers in the item stream, the event's own in the correlated stream.    *)
LossesSampled ==
    mode = 0 => \A e \in Finished, correlated \in Streams :
        \A i \in Arrived(e), s \in {-2, -1} \cup Sample :
            Reported(Out(correlated), e, i, s) = Unallocated(e, i, s, GroupIn(i, correlated))

(* Blocks are what the writer and its readers assume: the records of an     *)
(* item in an event stand together, in the order of their samples, and      *)
(* begin with the exposure.                                                 *)
BlocksTogether ==
    \A correlated \in Streams : LET out == Out(correlated) IN
        \A n \in 1 .. Len(out) :
            \/ out[n][3] = -3
            \/ n > 1 /\ out[n - 1][1] = out[n][1] /\ out[n - 1][2] = out[n][2]
                     /\ out[n - 1][3] < out[n][3]

(* An item's block in an event is complete, holds nothing of another event *)
(* and is not interrupted, in the item stream and the correlated stream.    *)
BlocksAreWhole == EventsIndependent /\ BlocksTogether

(* The coverage stream is the item stream summed: the loss of a coverage is *)
(* the sum of its items' in that event and sample, capped at the exposure;  *)
(* the mean is always there, a sample if it reaches the threshold.  (With   *)
(* the correlated stream the samples are not summed.)                       *)
CoverageIsItemSum ==
    coverageLevelOutput /\ ~correlatedLevelOutput =>
      \A e \in Finished, c \in Coverage, s \in {-1} \cup Sample :
        LET items == {i \in Item : CoverageOf[i] = c}
            sum == Least(Tiv[c], SumOf([i \in items |-> Reported(itemout, e, i, s)], items))
            present == c \in Affected(e) /\ (s = -1 \/ sum >= loss_threshold)
        IN /\ Cardinality(RowsOf(covout, e, c, s)) = IF present THEN 1 ELSE 0
           /\ present => Reported(covout, e, c, s) = sum

(* Back allocation neither loses nor invents loss: the items of a coverage  *)
(* together have the coverage's loss, which is the sum (rule 1) or the      *)
(* maximum (rule 2) of theirs, capped at the exposure; and together they    *)
(* have its exposure.                                                       *)
AllocationBounded ==
    mode = 1 => \A e \in Finished, correlated \in Streams : \A c \in Affected(e) :
        LET items == {i \in Arrived(e) : CoverageOf[i] = c}
            Together(s) == SumOf([i \in items |-> Reported(Out(correlated), e, i, s)], items)
            Before(s) == [i \in items |-> Unallocated(e, i, s, GroupIn(i, correlated))]
            Loss(s) == IF allocRule = 2 THEN Max({Before(s)[i] : i \in items})
                       ELSE SumOf(Before(s), items)
        IN /\ Together(-3) = Tiv[c]
           /\ \A s \in {-2, -1} \cup Sample : Together(s) = Least(Tiv[c], Loss(s))

=============================================================================
