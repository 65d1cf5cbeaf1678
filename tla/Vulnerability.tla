---------------------------- MODULE Vulnerability ----------------------------
(***************************************************************************)
(* The vulnerabilities of a model: rows [vulnerability, intensity, bin,    *)
(* prob] of a csv file, the three forms of binary file vulnerabilitytobin  *)
(* makes of them (one stream of rows, or with an index, plain or           *)
(* compressed), vulnerabilitytocsv, and how getmodel loads them.           *)
(***************************************************************************)
EXTENDS Footprint

Row(r) == [intensity |-> r.intensity, bin |-> r.bin, prob |-> r.prob]
RowsOf(rows, v) == LET mine == SelectSeq(rows, LAMBDA r : r.vulnerability = v)
                   IN  [n \in DOMAIN mine |-> Row(mine[n])]

\* vulnerabilitytobin: with an index a vulnerability that comes back ends the
\* program before the entry of the one before it is written, compressed rows
\* are lost with it; without an index the order of the rows does not matter.
IdColumn(rows) == [n \in DOMAIN rows |-> rows[n].vulnerability]
VConverted(rows) ==
    LET back == {n \in DOMAIN rows : Seen(IdColumn(rows), n)}
    IN  IF back = {} THEN Len(rows) ELSE (CHOOSE n \in back : \A m \in back : n <= m) - 1
\* mutant: the entry of the last vulnerability is never written
VIndexedNotLast(rows) ==
    LET done == SubSeq(rows, 1, VConverted(rows))
    IN  IF rows = <<>> THEN <<>> ELSE Front(Ids(IdColumn(done)))
VIndexed(rows) ==
    LET done == SubSeq(rows, 1, VConverted(rows))
    IN  IF rows = <<>> THEN <<0>> ELSE IF done = rows THEN Ids(IdColumn(rows)) ELSE Front(Ids(IdColumn(done)))
VToBin(rows, damage_bins, form) ==
    LET ids == VIndexed(rows)
        done == SubSeq(rows, 1, VConverted(rows))
        plain == [n \in DOMAIN ids |-> RowsOf(done, ids[n])]
        zipped == [n \in DOMAIN ids |-> Compress(plain[n])]
    IN  [form |-> form, damage_bins |-> damage_bins,
         data |-> CASE form = "stream" -> rows
                    [] form = "index" -> [n \in DOMAIN done |-> Row(done[n])]
                    [] form = "zip" -> Flat(zipped),
         idx |-> CASE form = "stream" -> <<>>
                   [] form = "index" -> IndexOf(ids, plain, [n \in DOMAIN ids |-> 0])
                   [] form = "zip" -> IndexOf(ids, zipped, [n \in DOMAIN ids |-> Len(plain[n])])]

\* The rows of an entry of the index, which records the uncompressed size; no
\* rows when zlib refuses, where the readers exit.
EntryRows(file, entry) ==
    IF file.form = "zip" THEN Flat(Uncompress(Bytes(file, entry.offset, entry.size), entry.original))
    ELSE Bytes(file, entry.offset, entry.size)

\* vulnerabilitytocsv.
VToCsv(file) ==
    IF file.form = "stream" THEN file.data
    ELSE Flat([n \in DOMAIN file.idx |->
                 LET rows == EntryRows(file, file.idx[n])
                 IN  [m \in DOMAIN rows |->
                        [vulnerability |-> file.idx[n].id, intensity |-> rows[m].intensity,
                         bin |-> rows[m].bin, prob |-> rows[m].prob]]])

\* getmodel keeps a vulnerability as one vector of damage bins by intensity bins.
GetVulnerabilityIndex(bins, intensity, bin) == (intensity - 1) + (bin - 1) * bins

\* assignProbabilities: a row of an intensity above the footprint's bins is left
\* out; a vulnerability that follows another one begins with a vector of zeros,
\* also when it has come before.
AssignProbabilities(bins, damage_bins, acc, v, row) ==
    IF row.intensity > bins THEN acc
    ELSE LET zeros == [n \in 0..(bins * damage_bins - 1) |-> 0]
             before == IF v = acc.current THEN acc.vulnerabilities[v] ELSE zeros
             vector == [before EXCEPT ![GetVulnerabilityIndex(bins, row.intensity, row.bin)] = row.prob]
         IN  [current |-> v,
              vulnerabilities |-> [w \in DOMAIN acc.vulnerabilities \cup {v} |->
                                     IF w = v THEN vector ELSE acc.vulnerabilities[w]]]

\* getVulnerabilities: only those of the items file.
GetVulnerabilities(file, bins, wanted) ==
    LET Assign(acc, vr) == IF vr.id \in wanted
                           THEN AssignProbabilities(bins, file.damage_bins, acc, vr.id, vr.row)
                           ELSE acc
        all == IF file.form = "stream"
               THEN [n \in DOMAIN file.data |->
                       [id |-> file.data[n].vulnerability, row |-> Row(file.data[n])]]
               ELSE Flat([n \in DOMAIN file.idx |->
                       LET rows == EntryRows(file, file.idx[n])
                       IN  [m \in DOMAIN rows |-> [id |-> file.idx[n].id, row |-> rows[m]]]])
    IN  FoldLeft(Assign, [current |-> -1, vulnerabilities |-> <<>>], all).vulnerabilities
==============================================================================
