------------------------------- MODULE Inputs --------------------------------
(***************************************************************************)
(* From the csv files of a directory to the tables fmcalc calculates with: *)
(* validateoasisfiles checks them, the converters make binary files, which *)
(* can be printed again, fmcalc loads them, one init function a step, or   *)
(* gulcalc starts with them and is piped into fmcalc or summarycalc.       *)
(***************************************************************************)
EXTENDS Converters, OasisValidation, FmInput, FmRules

Gul == INSTANCE GulStart
Sum == INSTANCE SummaryStart

CONSTANTS Directories,  \* functions from the names of csv files to lines
          Options,      \* [g, header, samples, t] and the options of fmcalc
          Losses,       \* loss records the rules are compared on
          GulLines, SummaryLines \* command lines of gulcalc and summarycalc

VARIABLES csv, opt,
          verdict,      \* of validateoasisfiles: "none", "accepted", "rejected"
          pc,
          bin,          \* file name -> what the converter wrote
          text,         \* file name -> lines printed from it
          fm,           \* what fmcalc has loaded so far
          gul, sum      \* gulcalc and summarycalc when they have started

vars == <<csv, opt, verdict, pc, bin, text, fm, gul, sum>>

------------------------------------------------------------------------------
tobin(name, lines) ==
    CASE name = "items" -> itemtobin(lines)
      [] name = "coverages" -> coveragetobin(lines)
      [] name = "fm_programme" -> fmprogrammetobin(lines)
      [] name = "fm_policytc" -> fmpolicytctobin(lines)
      [] name \in {"fm_xref", "fm_xref_a0"} -> fmxreftobin(lines)
      [] name = "fm_profile" -> fmprofiletobin(lines, FALSE)
      [] name = "fm_profile_step" -> fmprofiletobin(lines, TRUE)
      [] name = "gulsummaryxref" -> gulsummaryxreftobin(lines)
      [] name = "fmsummaryxref" -> fmsummaryxreftobin(lines)
      [] name = "events" -> evetobin(lines, opt.header)
      [] name = "random" -> randtobin(lines)
      [] name = "returnperiods" -> returnperiodtobin(lines)
      [] name = "periods" -> periodstobin(lines)
      [] name = "ensemble" -> ensembletobin(lines)
      [] name = "damage_bin_dict" -> damagebintobin(lines)
      [] name = "gul" -> Text!gultobin(Tail(lines), opt.samples, opt.t)
      [] name = "losses" -> Text!gultobin(Tail(lines), opt.samples, 2)
      [] name = "summary" -> Text!summarycalctobin(Tail(lines))

tocsv(name, file) ==
    LET skip == ~opt.header
    IN  CASE name = "items" -> itemtocsv(file, skip)
          [] name = "coverages" -> coveragetocsv(file, skip)
          [] name = "fm_programme" -> fmprogrammetocsv(file, skip)
          [] name = "fm_policytc" -> fmpolicytctocsv(file, skip)
          [] name \in {"fm_xref", "fm_xref_a0"} -> fmxreftocsv(file, skip)
          [] name = "fm_profile" -> fmprofiletocsv(file, FALSE, skip)
          [] name = "fm_profile_step" -> fmprofiletocsv(file, TRUE, skip)
          [] name = "gulsummaryxref" -> gulsummaryxreftocsv(file)
          [] name = "fmsummaryxref" -> fmsummaryxreftocsv(file, skip)
          [] name = "events" -> evetocsv(file, skip)
          [] name = "random" -> randtocsv(file, skip)
          [] name = "returnperiods" -> returnperiodtocsv(file, skip)
          [] name = "periods" -> periodstocsv(file)
          [] name = "ensemble" -> ensembletocsv(file)
          [] name = "damage_bin_dict" -> damagebintocsv(file, FALSE)
          [] name = "gul" -> Text!gultocsv(file, skip)
          [] name = "losses" -> Text!fmtocsv(file, skip)
          [] name = "summary" -> Text!summarycalctocsv(file, FALSE, FALSE, TRUE, skip)

\* The converters that end with an error, and those that do it before they
\* have written anything.
Unwritten ==
    {name \in DOMAIN csv : \/ name = "gul" /\ Text!Refused(opt.samples, opt.t)
                           \/ name = "losses" /\ Text!Refused(opt.samples, 2)}
ConverterExits ==
    \/ "items" \in DOMAIN csv /\ Exits(Tail(csv["items"]), 5)
    \/ "coverages" \in DOMAIN csv /\ Exits(Tail(csv["coverages"]), 2)
    \/ Unwritten # {}

------------------------------------------------------------------------------
Init ==
    /\ csv \in Directories /\ opt \in Options
    /\ verdict = "none" /\ pc = "csv"
    /\ bin = <<>> /\ text = <<>> /\ fm = <<>> /\ gul = <<>> /\ sum = <<>>

\* The user may convert files without validating them, and does not go on with
\* files that were rejected.
Validate ==
    /\ pc = "csv" /\ verdict = "none" /\ "items" \in DOMAIN csv
    /\ verdict' = IF validateoasisfiles(csv, opt.g) THEN "accepted" ELSE "rejected"
    /\ UNCHANGED <<csv, opt, pc, bin, text, fm, gul, sum>>

Convert ==
    /\ pc = "csv" /\ verdict # "rejected"
    /\ bin' = [name \in DOMAIN csv \ Unwritten |-> tobin(name, csv[name])]
    /\ pc' = IF ConverterExits THEN "failed" ELSE "bin"
    /\ UNCHANGED <<csv, opt, verdict, text, fm, gul, sum>>

PrintBack ==
    /\ pc \in {"bin", "failed"} /\ text = <<>>
    /\ text' = [name \in DOMAIN bin |-> tocsv(name, bin[name])]
    /\ UNCHANGED <<csv, opt, verdict, pc, bin, fm, gul, sum>>

\* fmcalc is run on files that were validated together.
CanLoad == verdict = "accepted" /\ ~GulOnly(csv, opt.g)

InitProgramme ==
    /\ pc = "bin" /\ CanLoad
    /\ IF fmcalcRefused(opt) THEN fm' = fm /\ pc' = "failed"
       ELSE fm' = init_programme(bin["fm_programme"], opt.maxRunLevel) /\ pc' = "programme"
    /\ UNCHANGED <<csv, opt, verdict, bin, text, gul, sum>>

ProfileFile == IF opt.step THEN "fm_profile_step" ELSE "fm_profile"
InitProfile ==
    /\ pc = "programme"
    /\ IF /\ ProfileFile \in DOMAIN bin
          /\ opt.step => \A r \in ToSet(bin[ProfileFile]) : r.calcrule \in SteppedRules
       THEN /\ fm' = fm @@ [profile |-> IF opt.step THEN init_profile_step(bin[ProfileFile])
                                        ELSE init_profile(bin[ProfileFile]),
                            noop |-> noop_profile_id(bin[ProfileFile])]
            /\ pc' = "profile"
       ELSE pc' = "failed" /\ fm' = fm
    /\ UNCHANGED <<csv, opt, verdict, bin, text, gul, sum>>

InitPolicytc ==
    /\ pc = "profile"
    /\ fm' = fm @@ init_policytc(bin["fm_policytc"], fm.noop, fm.maxagg[0], opt.maxRunLevel)
    /\ pc' = "policytc"
    /\ UNCHANGED <<csv, opt, verdict, bin, text, gul, sum>>

XrefFile == IF opt.allocrule = 0 /\ "fm_xref_a0" \in DOMAIN bin THEN "fm_xref_a0" ELSE "fm_xref"
InitFmxref ==
    /\ pc = "policytc"
    /\ IF XrefFile \in DOMAIN bin
       THEN fm' = fm @@ [xref |-> init_fmxref(bin[XrefFile])] /\ pc' = "xref"
       ELSE fm' = fm /\ pc' = "failed"
    /\ UNCHANGED <<csv, opt, verdict, bin, text, gul, sum>>

InitItemtotiv ==
    /\ pc = "xref"
    /\ IF Contiguous(bin["items"])
       THEN fm' = fm @@ init_itemtotiv(fm, bin["items"], bin["coverages"]) /\ pc' = "ready"
       ELSE fm' = fm /\ pc' = "failed"
    /\ UNCHANGED <<csv, opt, verdict, bin, text, gul, sum>>

------------------------------------------------------------------------------
(* gulcalc is started in the directory, and its streams are piped on *)

StartGulcalc ==
    /\ pc = "bin" /\ text = <<>> /\ {"items", "coverages", "gulsummaryxref"} \subseteq DOMAIN bin
    /\ \E args \in GulLines : gul' = Gul!Start(args, bin)
    /\ pc' = "gulcalc"
    /\ UNCHANGED <<csv, opt, verdict, bin, text, fm, sum>>

GulStreams == IF gul.pc = "started" THEN {gul.streams[k] : k \in DOMAIN gul.streams} ELSE {}
\* fmcalc passes losses on when it accepts what gulcalc writes.
FmStream == Gul!Stream(2, 1)
Streams ==
    GulStreams \cup (IF \E s \in GulStreams : fmcalcAccepts(s) THEN {FmStream} ELSE {})

StartSummarycalc ==
    /\ pc = "gulcalc"
    /\ \E args \in SummaryLines, stream \in Streams : sum' = Sum!Start(args, bin, stream)
    /\ pc' = "summarycalc"
    /\ UNCHANGED <<csv, opt, verdict, bin, text, fm, gul>>

Next ==
    \/ StartGulcalc \/ StartSummarycalc
    \/ Validate \/ Convert \/ PrintBack
    \/ InitProgramme \/ InitProfile \/ InitPolicytc \/ InitFmxref \/ InitItemtotiv

Spec == Init /\ [][Next]_vars

------------------------------------------------------------------------------
(* What the csv files say *)

Columns(name) ==
    CASE name \in {"events", "random", "returnperiods"} -> 1
      [] name \in {"coverages", "periods", "ensemble"} -> 2
      [] name \in {"fm_programme", "fm_xref", "fm_xref_a0", "gulsummaryxref", "fmsummaryxref"} -> 3
      [] name \in {"fm_policytc", "damage_bin_dict", "gul", "losses"} -> 4
      [] name \in {"items", "summary"} -> 5
      [] name = "fm_profile" -> 10
      [] name = "fm_profile_step" -> 18

ItemLines == Body(csv, "items")
TivOf(c) == (CHOOSE l \in ToSet(Body(csv, "coverages")) : l[1] = c)[2]
Parents(level, a) == {l[3] : l \in {k \in ToSet(Programme(csv)) : k[2] = level /\ k[1] = a}}

\* Every node has one parent, and the levels follow each other.
IsTree ==
    LET above == {l[2] : l \in ToSet(Programme(csv))}
    IN  \A l \in ToSet(Programme(csv)) :
          /\ Cardinality(Parents(l[2], l[1])) = 1
          /\ l[2] + 1 \in above => Cardinality(Parents(l[2] + 1, l[3])) = 1

\* The node an item belongs to on a level, by the csv file.
NodeOf(item, level) ==
    LET node[l \in 0 .. level] ==
            IF l = 0 THEN item ELSE CHOOSE p \in Parents(l, node[l - 1]) : TRUE
    IN  node[level]

Ready == pc = "ready"

(* The check of files against each other: exactly the directories pass in   *)
(* which the items and the from_agg_ids of the first level correspond one   *)
(* to one, the coverages of the items exist, every other from_agg_id is a   *)
(* to_agg_id of the level below, and the policies are for nodes and         *)
(* profiles that exist.  The code crosses items off a list and looks pairs  *)
(* up in sets.                                                              *)
ValidatorIsExact ==
    LET Times(id) == Cardinality({n \in DOMAIN ItemLines : ItemLines[n][1] = id})
        Uses(id) == Cardinality({n \in DOMAIN Programme(csv) :
                                    Programme(csv)[n][2] = 1 /\ Programme(csv)[n][1] = id})
        ids == {l[1] : l \in ToSet(ItemLines)} \cup {l[1] : l \in ToSet(Programme(csv))}
        fmConsistent ==
            /\ \A id \in ids : Times(id) = Uses(id)
            /\ \A l \in ToSet(Programme(csv)) :
                  l[2] # 1 => \E k \in ToSet(Programme(csv)) : k[2] = l[2] - 1 /\ k[3] = l[1]
            /\ \A l \in ToSet(Body(csv, "fm_policytc")) :
                  /\ \E k \in ToSet(Programme(csv)) : k[2] = l[2] /\ k[3] = l[3]
                  /\ \E k \in ToSet(Body(csv, "fm_profile")) : k[1] = l[4]
        Whole(names) == \A f \in names : f \in DOMAIN csv
                            /\ \A n \in DOMAIN Body(csv, f) : Len(Body(csv, f)[n]) >= Columns(f)
        names == {"items", "coverages"} \cup
                 IF GulOnly(csv, opt.g) THEN {} ELSE {"fm_programme", "fm_profile", "fm_policytc"}
    IN  verdict # "none" =>
          (verdict = "accepted" <=>
             /\ Whole(names)
             /\ \A l \in ToSet(ItemLines) : \E c \in ToSet(Body(csv, "coverages")) : c[1] = l[2]
             /\ GulOnly(csv, opt.g) \/ fmConsistent)

(* When files that were accepted have been loaded, every item leads to the  *)
(* node of each level that the csv files put it under, a node has exactly   *)
(* the sub nodes that lead to it, and its accumulated insured value counts  *)
(* every coverage below it once, however many of its items are there.       *)
LoadedIsTheProgramme ==
    Ready /\ IsTree =>
      LET items == {l[1] : l \in ToSet(ItemLines)}
          climb[k \in (0 .. fm.levels) \X items] ==
              IF k[1] = 0 THEN k[2] ELSE fm.pfm[<<k[1], climb[<<k[1] - 1, k[2]>>]>>]
          CoverageOf(i) == (CHOOSE l \in ToSet(ItemLines) : l[1] = i)[2]
          Below(l, a) == {CoverageOf(i) : i \in {j \in items : NodeOf(j, l) = a}}
      IN  /\ fm.levels = Min({opt.maxRunLevel, Max({l[2] : l \in ToSet(Programme(csv))})})
          /\ \A k \in DOMAIN climb : climb[k] = NodeOf(k[2], k[1])
          /\ \A k \in DOMAIN fm.subs :
                /\ ToSet(fm.subs[k]) = {a \in items \cup {l[3] : l \in ToSet(Programme(csv))} :
                                           <<k[1], a>> \in DOMAIN fm.pfm /\ fm.pfm[<<k[1], a>>] = k[2]}
                /\ fm.accumulated[k] = SumFunction([c \in Below(k[1], k[2]) |-> TivOf(c)])
          /\ \A i \in items : fm.tiv[i] = TivOf(CoverageOf(i)) /\ fm.cov[i] = CoverageOf(i)

(* The terms a node applies are those of its policy: for every policy line  *)
(* of a level that is run the rules give the same result with the terms     *)
(* that were loaded as with all the terms of the profile line (one of -1 or *)
(* less says that there is none); and a layer that a node of the last level *)
(* lacks changes no loss.                                                   *)
TermsAreThePolicies ==
    Ready =>
      LET profiles == IF opt.step THEN fmprofiletobin(csv["fm_profile_step"], TRUE)
                      ELSE fmprofiletobin(csv["fm_profile"], FALSE)
          None(r, t) == t \notin DOMAIN r \/ r[t] <= -PARTS
          Full(r) == [t \in Terms \cup {"step_id"} |-> IF None(r, t) THEN 0 ELSE r[t]]
                     @@ [calcrule |-> r.calcrule]
          StepsOf(id) == LET mine == SelectSeq(profiles, LAMBDA r : r.profile_id = id)
                         IN  [n \in DOMAIN mine |-> Full(mine[n])]
          Result(steps, x, layer) == IF opt.step THEN StepByStep(steps, x, layer)
                                     ELSE applycalcrule(Last(steps), x, layer)
          lines == {l \in ToSet(Body(csv, "fm_policytc")) : l[2] <= opt.maxRunLevel}
          top == {l \in lines : \A k \in ToSet(Body(csv, "fm_policytc")) : k[2] <= l[2]}
          Filled(a, layer) == \E l \in top : l[1] = layer /\ l[3] = a
      IN  /\ \A l \in lines : \A x \in Losses :
                Result(fm.profile[fm.policy_tc[<<l[2], l[3], l[1]>>]], x, l[1])
                  = Result(StepsOf(l[4]), x, l[1])
          /\ \A l \in top : \A layer \in 1 .. fm.max_layer[l[2]] : \A x \in Losses :
                ~Filled(l[3], layer) =>
                   Result(fm.profile[fm.policy_tc[<<l[2], l[3], layer>>]], x, layer) = x

(* What fmcalc has loaded from files that were accepted is what they state. *)
LoadedAsStated == LoadedIsTheProgramme /\ TermsAreThePolicies

(* The streams that fit, by the table of docs/md/Specification.md.          *)
PipesFit ==
    LET Takes(reader, s) ==
            CASE reader = "fmcalc" -> s \in {Gul!Stream(1, 1), Gul!Stream(2, 1)}
              [] reader = "GUL_COVERAGE_STREAM" -> s = Gul!Stream(1, 2)
              [] reader \in {"GUL_ITEM_STREAM", "FM_STREAM"} -> s = Gul!Stream(2, 1)
              [] reader = "GUL_ITEMX_STREAM" -> s = Gul!Stream(1, 1)
    IN  \A s \in GulStreams :
          /\ fmcalcAccepts(s) <=> Takes("fmcalc", s)
          /\ sum # <<>> /\ sum.pc = "started" /\ sum.stream = s => Takes(sum.opt.inputtype, s)

(* The random numbers of an item are numbers of the file, or of the vector, *)
(* when there are as many as samples; the two factors that spread events    *)
(* over the file are primes.                                                *)
NumbersAreThere ==
    LET Prime(n) == n > 1 /\ \A d \in 2 .. n - 1 : n % d # 0
        size == IF gul.opt.rndopt = "userandomnumberfile" THEN gul.count ELSE gul.opt.rand_vector_size
        p1 == Gul!getp1(gul.count)
    IN  gul.pc = "started" =>
          /\ Prime(p1) /\ Prime(Gul!getp2(p1)) /\ gul.count < 2 * p1 /\ p1 < Gul!getp2(p1)
          /\ gul.opt.rndopt # "usehashedseed" /\ gul.opt.samplesize <= size =>
                \A k \in DOMAIN gul.items : \A n \in DOMAIN gul.items[k] :
                   \A event \in 1 .. 4, ridx \in 0 .. gul.opt.samplesize - 1 :
                      Gul!Place(gul.opt, gul.count,
                                Gul!Position(gul.opt, gul.count, gul.items[k][n].group_id, event) + ridx)
                         \in 0 .. size - 1

(* summarycalc starts exactly when it is asked for one kind of input and    *)
(* some output, the stream is of that kind, and the summaries of every set  *)
(* that is written begin with 1; a coverage or an output then belongs to    *)
(* the summary of its last row in the xref file, or to 0.                   *)
XrefsAreStated ==
    LET type == sum.opt.inputtype
        rows == bin[Sum!XrefFile(type)]
        sets == DOMAIN sum.opt.fout
        Of(set) == {n \in DOMAIN rows : rows[n].summaryset_id = set}
        Id(r) == IF type = "FM_STREAM" THEN r.output_id ELSE r.coverage_id
        Mine(set, id) == {n \in Of(set) : Id(rows[n]) = id}
        usable ==
            /\ sum.opt.truecount = 1 /\ sets # {}
            /\ \A r \in ToSet(rows) : r.summaryset_id <= 9
            /\ \A set \in sets : Of(set) # {} /\ Min({rows[n].summary_id : n \in Of(set)}) = 1
            /\ sum.stream = CASE type = "GUL_COVERAGE_STREAM" -> Gul!Stream(1, 2)
                              [] type = "GUL_ITEMX_STREAM" -> Gul!Stream(1, 1)
                              [] OTHER -> Gul!Stream(2, 1)
    IN  sum # <<>> =>
          /\ sum.pc = "started" <=> usable
          /\ sum.pc = "started" /\ type # "GUL_ITEMX_STREAM" =>
                \A set \in sets : \A id \in DOMAIN sum.xref.co_to_s[set] :
                   /\ Sum!SummaryOf(sum, set, Sum!IdPassed(sum, id))
                         = IF Mine(set, id) = {} THEN 0 ELSE rows[Max(Mine(set, id))].summary_id
                   /\ sum.xref.max[set] >= Sum!SummaryOf(sum, set, Sum!IdPassed(sum, id))

(* Started on the command lines of a workflow, gulcalc and summarycalc fit  *)
(* together and with fmcalc, and do what the files and options state.       *)
StartedAsAsked == gul # <<>> => PipesFit /\ NumbersAreThere /\ XrefsAreStated

(* What the converters write is read back as the lines that were scanned:   *)
(* all of them, or those before the first that does not parse or is out of  *)
(* turn, with the changes that are intended (return periods sorted and      *)
(* without repetitions, samples above the sample size left out).            *)
TextComesBack ==
    LET Lines(name) == IF name = "events" /\ ~opt.header THEN csv[name] ELSE Body(csv, name)
        Whole(name) == \A l \in ToSet(Lines(name)) : Len(l) >= Columns(name)
        Good(name, n) ==        \* the n-th line is scanned
            \A m \in 1 .. n :
               /\ Len(Lines(name)[m]) >= Columns(name)
               /\ name \in {"items", "coverages"} => Lines(name)[m][1] = m
               /\ name = "returnperiods" => Whole(name)
        Kept(name, n) ==
            name \in {"gul", "losses"} =>
                            \/ Lines(name)[n][3] <= opt.samples
                            \/ n = 1
                            \/ SubSeq(Lines(name)[n], 1, 2) # SubSeq(Lines(name)[n - 1], 1, 2)
        good(name) == {n \in DOMAIN Lines(name) : Good(name, n) /\ Kept(name, n)}
        Cut(name, n) == SubSeq(Lines(name)[n], 1, Columns(name))
        kept(name) == SelectSeq([n \in DOMAIN Lines(name) |-> n], LAMBDA n : n \in good(name))
        Scan(name) == [k \in DOMAIN kept(name) |-> Cut(name, kept(name)[k])]
        Expected(name) == IF name = "returnperiods"
                          THEN SetToSortSeq(ToSet(Scan(name)), LAMBDA a, b : a[1] > b[1])
                          ELSE Scan(name)
        NoOption == {"gulsummaryxref", "periods", "ensemble", "damage_bin_dict"}
    IN  \A name \in DOMAIN text :
          text[name] = (IF opt.header \/ name \in NoOption THEN <<Headings>> ELSE <<>>)
                          \o Expected(name)
==============================================================================
