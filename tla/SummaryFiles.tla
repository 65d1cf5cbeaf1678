---------------------------- MODULE SummaryFiles -----------------------------
(***************************************************************************)
(* The work folder of the programs that need the losses of all events:     *)
(* summary files, listed in the order the directory gives them, and the    *)
(* indexes over their blocks.  A block is [event, summary, expval, recs];  *)
(* <<f, n>> is the n-th block of file f.  The occurrence file is a sequence*)
(* of [event, period, ...].                                                *)
(***************************************************************************)
EXTENDS Integers, Sequences, FiniteSets, SequencesExt

\* The periods of an event, in the order of the file: an event may occur
\* several times, even in one period.
PeriodsOf(occurrence, e) ==
    LET s == SelectSeq(occurrence, LAMBDA x : x.event = e)
    IN  [n \in DOMAIN s |-> s[n].period]

\* The blocks of a file, and of all files in the order of the directory.
IndexEvents(files, f) == [n \in DOMAIN files[f] |-> <<f, n>>]
Listed(files, order) == FlattenSeq([k \in DOMAIN order |-> IndexEvents(files, order[k])])

\* The entries of a map by key, each key with its entries as they were added.
GroupedBy(s, Key(_), Before(_, _)) ==
    LET keys == SetToSortSeq({Key(s[n]) : n \in DOMAIN s}, Before)
        Of(k) == SelectSeq(s, LAMBDA x : Key(x) = k)
    IN  FlattenSeq([n \in DOMAIN keys |-> Of(keys[n])])

\* summaries.idx: by summary, then by file in the order of the directory.
SummaryIndex(files, order) ==
    LET Key(b) == <<files[b[1]][b[2]].summary, CHOOSE k \in DOMAIN order : order[k] = b[1]>>
        Before(x, y) == x[1] < y[1] \/ (x[1] = y[1] /\ x[2] < y[2])
    IN  GroupedBy(Listed(files, order), Key, Before)
==============================================================================
