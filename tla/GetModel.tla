------------------------------ MODULE GetModel -------------------------------
(***************************************************************************)
(* getmodel: for every event it reads, the records of the event in the     *)
(* footprint, areaperil by areaperil, combined with the vulnerabilities of *)
(* the items there into cumulative distributions of damage.                *)
(*                                                                         *)
(* A case is what a user has: csv files, items, the form of the binary     *)
(* files and a list of events.  The converters run first, then getmodel,   *)
(* one action per event read and per record of it.                         *)
(***************************************************************************)
EXTENDS ModelValidation, TLC

CONSTANT Cases

VARIABLES
    case,               \* the case
    footprint,          \* footprint.bin and its index
    vulnerability,      \* vulnerability.bin
    pc,                 \* "convert", "init", "event", "record", "done", "failed"
    vulnerabilities,    \* _vulnerabilities: a vector for each one of the items
    stdin,              \* events still to read
    event,              \* the event being processed
    records,            \* its records still to process
    areaperil,          \* current_areaperil_id
    intensity,          \* the probability of each intensity bin of the areaperil
    out                 \* cdfs written

files == <<case, footprint, vulnerability>>
vars == <<case, footprint, vulnerability, pc, vulnerabilities, stdin, event, records, areaperil,
          intensity, out>>

Init ==
    /\ case \in Cases
    /\ footprint = <<>> /\ vulnerability = <<>> /\ pc = "convert"
    /\ vulnerabilities = <<>> /\ stdin = case.events /\ event = -1
    /\ records = <<>> /\ areaperil = -1 /\ intensity = <<>> /\ out = <<>>

\* The user converts with the sizes the validators print.
Convert ==
    /\ pc = "convert" /\ pc' = "init"
    /\ LET bins == MaxIntensityBin(case.footprint)
           plain == ToBin(case.footprint, bins, case.uncertain)
       IN  footprint' = CASE case.form = "plain" -> plain
                          [] case.form = "conv" -> FootprintConv(plain)
                          [] case.form = "zip" -> ToBinZ(case.footprint, bins, case.uncertain, FALSE)
                          [] case.form = "sized" -> ToBinZ(case.footprint, bins, case.uncertain, TRUE)
    /\ vulnerability' = VToBin(case.vulnerability, MaxDamageBin(case.vulnerability), case.vform)
    /\ UNCHANGED <<case, vulnerabilities, stdin, event, records, areaperil, intensity, out>>

\* init.
IntensityUncertainty == IF footprint.header.zip THEN footprint.header.options % 2 = 1
             ELSE footprint.header.options # 0
ItemVulnerabilities(a) == {i.vulnerability : i \in {i \in ToSet(case.items) : i.areaperil = a}}
AreaPerils == {i.areaperil : i \in ToSet(case.items)}
Load ==
    /\ pc = "init" /\ pc' = "event"
    /\ vulnerabilities' = GetVulnerabilities(vulnerability, footprint.header.bins,
                                             {i.vulnerability : i \in ToSet(case.items)})
    /\ UNCHANGED <<files, stdin, event, records, areaperil, intensity, out>>

\* The records of an event; without intensity uncertainty the buffer for a
\* compressed event is 20 times its size even if the index has the size of it.
Entries(e) == {n \in DOMAIN footprint.idx : footprint.idx[n].id = e}
ReadBlock(entry) ==
    LET bytes == Bytes(footprint, entry.offset, entry.size)
        capacity == IF IntensityUncertainty THEN Capacity(footprint, entry, entry.size)
                    ELSE entry.size * MaxRatio
    IN  IF footprint.header.zip THEN Uncompress(bytes, capacity) ELSE <<bytes>>

\* The next event of stdin; one without an index entry has no output.
NextEvent ==
    /\ pc = "event" /\ stdin # <<>>
    /\ stdin' = Tail(stdin) /\ event' = Head(stdin)
    /\ areaperil' = -1 /\ intensity' = <<>>
    /\ IF Entries(Head(stdin)) = {} THEN UNCHANGED <<pc, records>>
       ELSE LET read == ReadBlock(footprint.idx[CHOOSE n \in Entries(Head(stdin)) : TRUE])
            IN  /\ pc' = IF read = <<>> THEN "failed" ELSE "record"
                /\ records' = IF read = <<>> THEN <<>> ELSE read[1]
    /\ UNCHANGED <<files, vulnerabilities, out>>

\* The cdf of a vulnerability for the probabilities of intensity bins: damage bins
\* in order until the sum reaches 1.
MeanDamageBin(d) == case.bins[d].mean
BinProb(v, bins, d) ==
    FoldLeft(LAMBDA s, i : s + vulnerabilities[v][GetVulnerabilityIndex(footprint.header.bins, i, d)] * bins[i],
             0, SetToSeq(DOMAIN bins))
Cdf(v, bins, one) ==
    LET Cumulative(d) == FoldLeft(LAMBDA s, k : s + BinProb(v, bins, k), 0, [k \in 1..d |-> k])
        full == {d \in 1..vulnerability.damage_bins : Cumulative(d) >= one}
        last == IF full = {} THEN vulnerability.damage_bins
                ELSE CHOOSE d \in full : \A k \in full : d <= k
    IN  [d \in 1..last |-> [prob |-> Cumulative(d), of |-> one, mean |-> MeanDamageBin(d)]]

\* doResults and doResultsNoIntensityUncertainty: one cdf per vulnerability of the
\* areaperil, in order.  At a vulnerability that was not loaded the first ends the
\* program, the second reads through the null pointer of an empty vector.
Results(a, bins, one) ==
    LET ids == SetToSortSeq(ItemVulnerabilities(a), <)
        known == DOMAIN vulnerabilities
        unknown == {n \in DOMAIN ids : ids[n] \notin known}
        written == IF unknown = {} THEN Len(ids) ELSE (CHOOSE n \in unknown : \A m \in unknown : n <= m) - 1
    IN  [n \in 1..written |-> [event |-> event, areaperil |-> a, vulnerability |-> ids[n],
                               cdf |-> Cdf(ids[n], bins, one)]]
Fails(a) == ~(ItemVulnerabilities(a) \subseteq DOMAIN vulnerabilities)

\* A record, with intensity uncertainty: one of another areaperil writes those of
\* the areaperil before it; a probability above 0 is kept by its intensity bin.
DoCdf == areaperil \in AreaPerils
Kept(bins, r) ==
    IF r.areaperil \in AreaPerils /\ r.prob > 0
    THEN [i \in DOMAIN bins \cup {r.bin} |-> IF i = r.bin THEN r.prob ELSE bins[i]]
    ELSE bins
SameAreaPeril ==
    /\ pc = "record" /\ IntensityUncertainty /\ records # <<>>
    /\ Head(records).areaperil = areaperil
    /\ intensity' = Kept(intensity, Head(records))
    /\ records' = Tail(records)
    /\ UNCHANGED <<files, pc, vulnerabilities, stdin, event, areaperil, out>>
\* mutant: the intensities of the areaperil before are kept
OtherAreaPerilNotCleared ==
    /\ pc = "record" /\ IntensityUncertainty /\ records # <<>>
    /\ Head(records).areaperil # areaperil
    /\ out' = IF DoCdf THEN out \o Results(areaperil, intensity, One * One) ELSE out
    /\ pc' = IF DoCdf /\ Fails(areaperil) THEN "failed" ELSE pc
    /\ intensity' = Kept(intensity, Head(records))
    /\ areaperil' = Head(records).areaperil
    /\ records' = Tail(records)
    /\ UNCHANGED <<files, vulnerabilities, stdin, event>>
OtherAreaPeril ==
    /\ pc = "record" /\ IntensityUncertainty /\ records # <<>>
    /\ Head(records).areaperil # areaperil
    /\ out' = IF DoCdf THEN out \o Results(areaperil, intensity, One * One) ELSE out
    /\ pc' = IF DoCdf /\ Fails(areaperil) THEN "failed" ELSE pc
    /\ intensity' = Kept(IF DoCdf THEN <<>> ELSE intensity, Head(records))
    /\ areaperil' = Head(records).areaperil
    /\ records' = Tail(records)
    /\ UNCHANGED <<files, vulnerabilities, stdin, event>>
EndOfEvent ==
    /\ pc = "record" /\ IntensityUncertainty /\ records = <<>>
    /\ out' = IF DoCdf THEN out \o Results(areaperil, intensity, One * One) ELSE out
    /\ pc' = IF DoCdf /\ Fails(areaperil) THEN "failed" ELSE "event"
    /\ UNCHANGED <<files, vulnerabilities, stdin, event, records, areaperil, intensity>>

\* Without intensity uncertainty every record is a distribution of its own.
NoUncertainty ==
    /\ pc = "record" /\ ~IntensityUncertainty
    /\ IF records = <<>> THEN pc' = "event" /\ UNCHANGED <<records, out>>
       ELSE LET r == Head(records)
            IN  /\ records' = Tail(records)
                /\ IF r.areaperil \in AreaPerils
                   THEN /\ out' = out \o Results(r.areaperil, r.bin :> 1, One)
                        /\ pc' = IF Fails(r.areaperil) THEN "failed" ELSE pc
                   ELSE UNCHANGED <<pc, out>>
    /\ UNCHANGED <<files, vulnerabilities, stdin, event, areaperil, intensity>>

Finish ==
    /\ pc = "event" /\ stdin = <<>> /\ pc' = "done"
    /\ UNCHANGED <<files, vulnerabilities, stdin, event, records, areaperil, intensity, out>>

\* cdftocsv: a row for each bin of each cdf.  The buffer it reads a cdf into has
\* room for as many bins as the dictionary, and nothing bounds the count read.
CdfRow(cdf, d) == [event |-> cdf.event, areaperil |-> cdf.areaperil, vulnerability |-> cdf.vulnerability,
                   bin_index |-> d, prob_to |-> cdf.cdf[d].prob, bin_mean |-> cdf.cdf[d].mean]
CdfToCsv(cdfs) == Flat([n \in DOMAIN cdfs |-> [d \in DOMAIN cdfs[n].cdf |-> CdfRow(cdfs[n], d)]])
TotalBins == IF case.bins = <<>> THEN 10000 ELSE Len(case.bins)
FitsRecord(cdf) == Len(cdf.cdf) <= TotalBins

Next == \/ Convert \/ Load \/ NextEvent \/ SameAreaPeril \/ OtherAreaPeril \/ EndOfEvent
        \/ NoUncertainty \/ Finish
Spec == Init /\ [][Next]_vars

-----------------------------------------------------------------------------
\* What the files say, row by row, without any of the steps above.

Accepted == /\ ValidateFootprint(case.footprint) /\ ValidateVulnerability(case.vulnerability)
            /\ ValidateDamageBin(case.bins)
Sum(set, value(_)) == FoldLeft(LAMBDA s, x : s + value(x), 0, SetToSeq(set))
\* The probability of damage bin d for the items at areaperil a, as a share of One * One.
Damage(e, a, v, d) ==
    LET F == {r \in ToSet(case.footprint) : r.event = e /\ r.areaperil = a}
        V == {r \in ToSet(case.vulnerability) : r.vulnerability = v /\ r.bin = d}
    IN  Sum({fv \in F \X V : fv[1].bin = fv[2].intensity}, LAMBDA fv : fv[1].prob * fv[2].prob)
Effective(e, a, v) ==
    LET Up(d) == Sum(1..d, LAMBDA k : Damage(e, a, v, k))
        shown == {d \in 1..MaxDamageBin(case.vulnerability) :
                    \A k \in 1..(d - 1) : Up(k) < One * One}
    IN  [d \in shown |-> [prob |-> Up(d), mean |-> case.bins[d].mean]]
\* The cdfs of an event: areaperils ascending, then vulnerabilities.
EventCdfs(e) ==
    LET places == SetToSortSeq({r.areaperil : r \in {r \in ToSet(case.footprint) : r.event = e}}
                               \cap AreaPerils, <)
        cells == Flat([n \in DOMAIN places |->
                    LET ids == SetToSortSeq(ItemVulnerabilities(places[n]), <)
                    IN  [m \in DOMAIN ids |-> <<places[n], ids[m]>>]])
    IN  [n \in DOMAIN cells |-> [event |-> e, areaperil |-> cells[n][1], vulnerability |-> cells[n][2],
                                 cdf |-> Effective(e, cells[n][1], cells[n][2])]]
\* A cdf as a share of One * One.
Scaled(block) ==
    [block EXCEPT !.cdf = [d \in DOMAIN block.cdf |->
        [prob |-> block.cdf[d].prob * ((One * One) \div block.cdf[d].of), mean |-> block.cdf[d].mean]]]

StartsAtOne(v) == \E r \in ToSet(case.vulnerability) : r.vulnerability = v /\ r.intensity = 1

\* For files the validators accept, getmodel writes for every event of its input,
\* whatever the form of the binary files, exactly the distributions that follow
\* from the rows of the csv files: none is missing, repeated or mixed with
\* another areaperil's, and each stops at the bin where it reaches 1.  Each does
\* reach it when the validators accept the files together, without a warning of
\* missing intensity bins, and no vulnerability begins above the first bin (which
\* the warning does not look at).
CdfsAreOfTheModel ==
    (pc = "done" /\ Accepted) =>
       /\ [n \in DOMAIN out |-> Scaled(out[n])] =
             Flat([n \in DOMAIN case.events |-> EventCdfs(case.events[n])])
       /\ /\ ~WarnsOfMissingBins(case.vulnerability)
          /\ CrossValidation(5, case.bins, case.footprint, case.vulnerability)
          /\ \A n \in DOMAIN out : StartsAtOne(out[n].vulnerability)
          => \A n \in DOMAIN out : Last(out[n].cdf).prob = Last(out[n].cdf).of

\* A footprint the validator accepts comes back row by row from any binary form,
\* and a vulnerability file likewise.  The text of getmodel's output has the cdfs
\* one after the other, each from bin 1 on, so that they can be told apart; none
\* is larger than the buffers cdftocsv and gulcalc size from the dictionary, if
\* the files were validated together.
FilesComeBack ==
    /\ (pc = "done" /\ Accepted) =>
       /\ LET text == CdfToCsv(out)
              first == SelectSeq([n \in DOMAIN text |-> n], LAMBDA n : text[n].bin_index = 1)
          IN  /\ Len(first) = Len(out)
              /\ \A k \in DOMAIN first : text[first[k]] = CdfRow(out[k], 1)
       /\ CrossValidation(5, case.bins, case.footprint, case.vulnerability)
          => \A n \in DOMAIN out : FitsRecord(out[n])
    /\ (pc = "init" /\ Accepted) =>
       /\ VToCsv(vulnerability) = case.vulnerability
       /\ LET text == FootprintToCsv(footprint, 1, 999999999)
          IN  \/ text = case.footprint
              \* a compressed event larger than the buffer ends footprinttocsv
              \/ ~Sized(footprint.header) /\ footprint.header.zip /\ IsPrefix(text, case.footprint)

\* getmodel gives up only at a compressed event too large for its buffer, at a
\* vulnerability that validateitems would have reported, or at one all of whose
\* intensity bins are above those of the footprint.
FailsForAReason ==
    (pc = "failed" /\ Accepted) =>
       \/ footprint.header.zip /\ \E n \in DOMAIN footprint.idx : ReadBlock(footprint.idx[n]) = <<>>
       \/ LET asStream == VToBin(case.vulnerability, MaxDamageBin(case.vulnerability), "stream")
          IN  ~CheckVulnerability(asStream, case.items)
       \/ \E i \in ToSet(case.items) : \A v \in ToSet(case.vulnerability) :
            v.vulnerability = i.vulnerability => v.intensity > footprint.header.bins
==============================================================================
