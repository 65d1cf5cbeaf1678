--------------------------- MODULE ModelValidation ---------------------------
(***************************************************************************)
(* The programs that check the csv files of a model before they are        *)
(* converted: validatefootprint, validatevulnerability, validatedamagebin, *)
(* crossvalidation, and validateitems, which reads the converted file.     *)
(* Each is the condition under which it reports that all checks pass.      *)
(***************************************************************************)
EXTENDS Vulnerability

CONSTANT One        \* the probability 1

SumProb(rows) == FoldLeft(LAMBDA s, r : s + r.prob, 0, rows)
\* The rows that agree with row n on a key have different bins, and sum to 1.
Complete(rows, Key(_), n) ==
    LET same == SelectSeq(rows, LAMBDA r : Key(r) = Key(rows[n]))
    IN  /\ \A i, j \in DOMAIN same : same[i].bin = same[j].bin => i = j
        /\ SumProb(same) = One

\* validatefootprint: events ascend, areaperils ascend within an event.
ValidateFootprint(rows) ==
    /\ rows # <<>>
    /\ \A n \in 2..Len(rows) :
         \/ rows[n - 1].event < rows[n].event
         \/ rows[n - 1].event = rows[n].event /\ rows[n - 1].areaperil <= rows[n].areaperil
    /\ \A n \in DOMAIN rows : Complete(rows, LAMBDA r : <<r.event, r.areaperil>>, n)
MaxIntensityBin(rows) ==
    CHOOSE b \in {rows[n].bin : n \in DOMAIN rows} : \A n \in DOMAIN rows : rows[n].bin <= b

\* validatevulnerability: vulnerabilities ascend; within one a new intensity bin
\* is the next one, but the first may be any.
ValidateVulnerability(rows) ==
    /\ rows # <<>>
    /\ \A n \in 2..Len(rows) :
         LET p == rows[n - 1]
             q == rows[n]
         IN  \/ p.vulnerability < q.vulnerability
             \/ /\ p.vulnerability = q.vulnerability
                /\ q.intensity \in {p.intensity, p.intensity + 1}
    /\ \A n \in DOMAIN rows : Complete(rows, LAMBDA r : <<r.vulnerability, r.intensity>>, n)
MaxDamageBin(rows) ==
    CHOOSE b \in {rows[n].bin : n \in DOMAIN rows} : \A n \in DOMAIN rows : rows[n].bin <= b

\* The warning of missing intensity bins compares the highest of each
\* vulnerability with the highest of all.
Highest(rows, v) == CHOOSE i \in {r.intensity : r \in ToSet(SelectSeq(rows, LAMBDA r : r.vulnerability = v))} :
                      \A n \in DOMAIN rows : rows[n].vulnerability = v => rows[n].intensity <= i
WarnsOfMissingBins(rows) ==
    \E v, w \in ToSet(IdColumn(rows)) : Highest(rows, v) < Highest(rows, w)

\* validatedamagebin: bins [index, from, to, mean]; the range is not checked on
\* the first line.
ValidateDamageBin(bins) ==
    /\ bins # <<>> /\ bins[1].index = 1
    /\ \A n \in 2..Len(bins) : /\ bins[n].index = bins[n - 1].index + 1
                               /\ bins[n].from <= bins[n].mean /\ bins[n].mean <= bins[n].to

\* crossvalidation: it reads dictionaries of five columns only.
CrossValidation(columns, bins, footprint, vulnerability) ==
    /\ columns = 5
    /\ \A n \in DOMAIN vulnerability : \E m \in DOMAIN bins : vulnerability[n].bin = bins[m].index
    /\ \A n \in DOMAIN footprint : \E m \in DOMAIN vulnerability :
          footprint[n].bin = vulnerability[m].intensity

\* validateitems: the vulnerabilities of the items are in the file, read as one
\* stream of rows; areaperils are not checked.
CheckVulnerability(file, items) ==
    \A n \in DOMAIN items : items[n].vulnerability \in ToSet(IdColumn(file.data))
==============================================================================
