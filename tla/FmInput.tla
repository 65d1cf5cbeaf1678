------------------------------- MODULE FmInput -------------------------------
(***************************************************************************)
(* How fmcalc loads its input: the programme, the profiles, the policies   *)
(* and the exposures, from the records of the binary files.  A vector of   *)
(* vectors is a function of the indices that were assigned; the code fills *)
(* the others with zeros.                                                  *)
(***************************************************************************)
EXTENDS FmRules, SequencesExt, FiniteSets, FiniteSetsExt, TLC

\* What a loop that assigns Value at Key for every row leaves behind: the last
\* row with a key counts.
Assigned(rows, Key(_), Value(_)) ==
    [k \in {Key(rows[n]) : n \in DOMAIN rows} |->
        Value(rows[Max({n \in DOMAIN rows : Key(rows[n]) = k})])]
Collected(rows, Key(_), Value(_)) ==
    [k \in {Key(rows[n]) : n \in DOMAIN rows} |->
        LET mine == SelectSeq(rows, LAMBDA r : Key(r) = k)
        IN  [n \in DOMAIN mine |-> Value(mine[n])]]

Text == INSTANCE StreamText

------------------------------------------------------------------------------
(* The command line and the input stream *)

fmcalcopts ==
    [maxRunLevel |-> 10000, allocrule |-> 0, netvalue |-> FALSE, step |-> FALSE]
Option(opt, a) ==
    CASE a.o = "M" -> IF a.n = -1 THEN opt ELSE [opt EXCEPT !.maxRunLevel = a.n]
      [] a.o = "a" -> [opt EXCEPT !.allocrule = a.n]
      [] a.o = "n" -> [opt EXCEPT !.netvalue = TRUE]
      [] a.o = "S" -> [opt EXCEPT !.step = TRUE]
fmcalcOptions(args) == FoldLeft(Option, fmcalcopts, args)
fmcalcRefused(opt) == opt.allocrule \notin 0 .. 3

\* For a loss stream the number looked at is the one of fmcalc's own output.
StreamNumber(stream) == IF Text!Has(stream, Text!loss_stream_id) THEN 1 ELSE stream.number
fmcalcAccepts(stream) ==
    /\ Text!Has(stream, Text!gulstream_id) \/ Text!Has(stream, Text!loss_stream_id)
    /\ StreamNumber(stream) = 1

------------------------------------------------------------------------------
(* init_programme *)

\* -M leaves the levels above maxRunLevel out.
Run(rows, maxRunLevel) == SelectSeq(rows, LAMBDA r : r.level_id <= maxRunLevel)
maxLevel(rows) == Max({0} \cup {r.level_id : r \in ToSet(rows)})
\* The parent of a node: on level 0, of items, the item.
pfm_vec_vec(rows) ==
    LET items == {r.from_agg_id : r \in {q \in ToSet(rows) : q.level_id = 1}}
    IN  [k \in {0} \X items |-> k[2]]
        @@ Assigned(rows, LAMBDA r : <<r.level_id, r.from_agg_id>>, LAMBDA r : r.to_agg_id)
node_to_direct_sub_nodes(rows) ==
    Collected(rows, LAMBDA r : <<r.level_id, r.to_agg_id>>, LAMBDA r : r.from_agg_id)
level_to_maxagg_id(rows) ==
    [l \in 0 .. maxLevel(rows) |->
        Max({-1} \cup {IF l = 0 THEN r.from_agg_id ELSE r.to_agg_id :
                          r \in {q \in ToSet(rows) : q.level_id = (IF l = 0 THEN 1 ELSE l)}})]

init_programme(rows, maxRunLevel) ==
    LET run == Run(rows, maxRunLevel)
    IN  [levels |-> maxLevel(run), pfm |-> pfm_vec_vec(run),
         subs |-> node_to_direct_sub_nodes(run), maxagg |-> level_to_maxagg_id(run)]

------------------------------------------------------------------------------
(* init_profile and init_profile_step: the terms a rule has *)

Terms == {"d1", "d2", "d3", "a1", "l1", "l2", "sh1", "sh2", "sh3", "ts", "te", "ps", "sc1", "sc2"}
Plain == {"d1", "d2", "d3", "a1", "l1", "sh1", "sh2", "sh3"}

\* mutant: a limit is no term of rule 8
TermsOfNoLimit(calcrule) ==
    CASE calcrule \in {1, 3, 4, 5, 9, 15, 33} -> {"d1", "l1"}
      [] calcrule \in {2, 17, 18} -> {"d1", "l1", "sh1", "a1"}
      [] calcrule \in {6, 12, 16, 20} -> {"d1"}
      [] calcrule \in {7, 26, 35, 36} -> {"d1", "d2", "d3", "l1"}
      [] calcrule = 8 -> {"d1", "d2"}
      [] OTHER -> Plain

TermsOf(calcrule) ==
    CASE calcrule \in {1, 3, 4, 5, 9, 15, 33} -> {"d1", "l1"}
      [] calcrule \in {2, 17, 18} -> {"d1", "l1", "sh1", "a1"}
      [] calcrule \in {6, 12, 16, 20} -> {"d1"}
      [] calcrule \in {7, 26, 35, 36} -> {"d1", "d2", "d3", "l1"}
      [] calcrule = 8 -> {"d1", "d2", "l1"}
      [] calcrule = 10 -> {"d1", "d3"}
      [] calcrule = 11 -> {"d1", "d2"}
      [] calcrule \in {13, 19, 21} -> {"d1", "d2", "d3"}
      [] calcrule = 14 -> {"l1"}
      [] calcrule = 23 -> {"sh2", "sh3", "l1"}
      [] calcrule = 24 -> {"a1", "sh1", "sh2", "sh3", "l1"}
      [] calcrule = 25 -> {"sh1", "sh2", "sh3"}
      [] calcrule = 34 -> {"d1", "sh1", "a1"}
      [] OTHER -> Plain

SteppedTermsOf(calcrule) ==
    CASE calcrule = 2 -> {"d1", "l1", "sh1", "a1"}
      [] calcrule = 12 -> {"d1"}
      [] calcrule = 14 -> {"l1"}
      [] calcrule \in {27, 30} -> {"d1", "l1", "l2", "ps", "sc1", "sc2", "ts", "te"}
      [] calcrule \in {28, 29, 31} -> {"d1", "l2", "ps", "sc1", "sc2", "ts", "te"}
      [] calcrule = 32 -> {"l1", "l2", "ps", "sc1", "sc2", "ts"}
      [] calcrule = 34 -> {"d1", "sh1", "a1"}
      [] OTHER -> {}
\* Any other rule in a stepped profile ends the program.
SteppedRules == {2, 12, 14, 27, 28, 29, 30, 31, 32, 34, 100}

\* add_tc: the terms a rule has not, and those that are -1 or less, are zero when
\* it is applied.
Loaded(p, terms) ==
    [t \in Terms |-> IF t \in terms /\ p[t] > -PARTS THEN p[t] ELSE 0]
        @@ [calcrule |-> p.calcrule]
init_profile_rec(p) == Loaded(p, TermsOf(p.calcrule))
init_profile__stepped_rec(p) ==
    Loaded(p, SteppedTermsOf(p.calcrule)) @@ [step_id |-> p.step_id]

noop_profile_id(rows) == Max({0} \cup {r.profile_id : r \in ToSet(rows)}) + 1
Noop == [t \in Terms |-> 0] @@ [calcrule |-> 100, step_id |-> 0]

\* A profile is its steps, in the order of the file; without steps the last
\* row of a profile counts.
init_profile(rows) ==
    (noop_profile_id(rows) :> <<Noop>>)
      @@ Assigned(rows, LAMBDA r : r.profile_id, LAMBDA r : <<init_profile_rec(r)>>)
init_profile_step(rows) ==
    (noop_profile_id(rows) :> <<Noop>>)
      @@ Collected(rows, LAMBDA r : r.profile_id, init_profile__stepped_rec)

------------------------------------------------------------------------------
(* init_policytc *)

Row(level, agg, layer, profile) ==
    [level_id |-> level, agg_id |-> agg, layer_id |-> layer, profile_id |-> profile]

\* The gaps of the last level of the file get the profile that does nothing.
parse_policytc(rows, noop) ==
    LET top == Max({0} \cup {r.level_id : r \in ToSet(rows)})
        last == {r \in ToSet(rows) : r.level_id = top}
        aggs == 1 .. Max({0} \cup {r.agg_id : r \in last})
        layers == 1 .. Max({0} \cup {r.layer_id : r \in last})
        gaps == {k \in aggs \X layers : \A r \in last : <<r.agg_id, r.layer_id>> # k}
    IN  ToSet(rows) \cup {Row(top, k[1], k[2], noop) : k \in gaps}

addtcrow(tc, maxRunLevel) ==
    LET run == {r \in tc : r.level_id <= maxRunLevel}
    IN  [policy_tc |-> [k \in {<<r.level_id, r.agg_id, r.layer_id>> : r \in run} |->
                          (CHOOSE r \in run : <<r.level_id, r.agg_id, r.layer_id>> = k).profile_id],
         max_level |-> Max({0} \cup {r.level_id : r \in run}),
         max_layer |-> [l \in {r.level_id : r \in run} |->
                          Max({r.layer_id : r \in {q \in run : q.level_id = l}})]]
init_policytc(rows, noop, items, maxRunLevel) ==
    addtcrow({Row(0, i, 1, -1) : i \in 1 .. items} \cup parse_policytc(rows, noop), maxRunLevel)

------------------------------------------------------------------------------
(* init_fmxref and init_itemtotiv *)

init_fmxref(rows) == Assigned(rows, LAMBDA r : <<r.agg_id, r.layer_id>>, LAMBDA r : r.output_id)

Contiguous(items) == \A n \in DOMAIN items : items[n].id = n
\* The file holds the values alone, from coverage 1.
loadcoverages(tivs) == [c \in 0 .. Len(tivs) |-> IF c = 0 THEN 0 ELSE tivs[c]]
item_to_tiv(items, coverages) == [n \in DOMAIN items |-> coverages[items[n].coverage_id]]
item_to_cov_id(items) == [n \in DOMAIN items |-> items[n].coverage_id]

\* mutant: the coverages of the first sub node only
assign_coverage_idsFirst(programme, cov) ==
    LET ids[l \in 0 .. programme.levels] ==
            IF l = 0 THEN [a \in DOMAIN cov |-> {cov[a]}]
            ELSE [a \in {k[2] : k \in {j \in DOMAIN programme.subs : j[1] = l}} |->
                    ids[l - 1][programme.subs[<<l, a>>][1]]]
    IN  ids

\* The coverages below the nodes of a level, as far as the nodes of the last
\* level lead to them.
assign_coverage_ids(programme, cov) ==
    LET ids[l \in 0 .. programme.levels] ==
            IF l = 0 THEN [a \in DOMAIN cov |-> {cov[a]}]
            ELSE [a \in {k[2] : k \in {j \in DOMAIN programme.subs : j[1] = l}} |->
                    UNION {ids[l - 1][b] : b \in ToSet(programme.subs[<<l, a>>])}]
    IN  ids
Reached(programme) ==
    LET top == programme.levels
        at[n \in 0 .. top] ==           \* n levels below the last one
            IF n = 0 THEN {k[2] : k \in {j \in DOMAIN programme.subs : j[1] = top}}
            ELSE UNION {ToSet(programme.subs[<<top - n + 1, a>>]) : a \in at[n - 1]}
    IN  [l \in 0 .. top |-> at[top - l]]
accumulated_tivs(programme, cov, coverages) ==
    LET ids == assign_coverage_ids(programme, cov)
        reached == Reached(programme)
    IN  [k \in DOMAIN programme.subs |->
            IF k[2] \in reached[k[1]]
            THEN SumFunction([c \in ids[k[1]][k[2]] |-> coverages[c]]) ELSE 0]

init_itemtotiv(programme, items, tivs) ==
    LET cov == item_to_cov_id(items)
        coverages == loadcoverages(tivs)
    IN  [tiv |-> item_to_tiv(items, coverages), cov |-> cov,
         accumulated |-> accumulated_tivs(programme, cov, coverages)]
==============================================================================
