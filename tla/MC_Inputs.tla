------------------------------ MODULE MC_Inputs ------------------------------
(***************************************************************************)
(* Directories of csv files for Inputs: a programme of two levels with two *)
(* layers, with single changes that a check should find, a loader should   *)
(* live with or a converter should stop at, and files of the other kinds.  *)
(***************************************************************************)
EXTENDS Inputs

H == <<Headings>>
Item(i, c) == <<i, c, 10 + i, 20 + i, i>>
Items3 == H \o <<Item(1, 1), Item(2, 1), Item(3, 2)>>
Coverages == H \o <<<<1, 6>>, <<2, 8>>>>
Prog(top) == H \o <<<<1, 1, 1>>, <<2, 1, 1>>, <<3, 1, 2>>>> \o top
OneTop == <<<<1, 2, 1>>, <<2, 2, 1>>>>
TwoTops == <<<<1, 2, 2>>, <<2, 2, 1>>>>
Twisted == <<<<2, 2, 1>>, <<1, 2, 1>>, <<1, 3, 3>>>>

\* <<layer, level, agg, profile>>: layer 2 of the second node is left out.
Policies(tops) == H \o <<<<1, 1, 1, 4>>, <<1, 1, 2, 2>>, <<2, 2, 1, 3>>, <<1, 2, 1, 1>>>> \o tops
Profile(id, rule, t) == <<id, rule>> \o t
Generic == <<1, 2, 3, 1, 4, 1, 2, 1>>
Others == <<Profile(1, 2, Generic), Profile(2, 1, Generic), Profile(3, 14, Generic)>>
Profiles(rule, t) == H \o Others \o <<Profile(4, rule, t)>>

Base == ("items" :> Items3) @@ ("coverages" :> Coverages) @@ ("fm_programme" :> Prog(OneTop))
     @@ ("fm_policytc" :> Policies(<<>>)) @@ ("fm_profile" :> Profiles(12, Generic))
     @@ ("fm_xref" :> H \o <<<<1, 1, 1>>, <<2, 2, 1>>, <<3, 1, 2>>>>)

Rules == {1, 2, 3, 4, 5, 6, 7, 8, 9, 10, 11, 12, 13, 14, 15, 16, 17, 18, 19, 20, 21, 22, 23, 24,
          25, 26, 33, 34, 35, 36, 100}
ByRule == {[Base EXCEPT !["fm_profile"] = Profiles(r, t)] :
              r \in Rules, t \in {Generic, <<2, 5, 6, 0, 3, 2, 1, 2>>}}
          \cup {[Base EXCEPT !["fm_profile"] = Profiles(r, <<-2, 5, -1, -3, -2, 2, -2, 2>>)] :
                   r \in {1, 2, 7, 12, 24}}

\* <<step_id, ts, te, ps, pe, l2, sc1, sc2>>
Step(id, rule, n, ts, te) == <<id, rule>> \o Generic \o <<n, ts, te, 1, 2, 1, 1, 2>>
Steps(rule) == H \o <<Step(1, 12, 1, 0, 0), Step(2, 100, 1, 0, 0), Step(4, rule, 1, 0, 1),
                      Step(3, 34, 1, 0, 0), Step(4, rule, 2, 1, 2)>>
ByStep == {("fm_profile_step" :> Steps(r)) @@ Base : r \in SteppedRules \cup {1}}

Changed ==
    {[Base EXCEPT !["items"] = @ \o <<Item(3, 2)>>],
     [Base EXCEPT !["items"] = H \o <<Item(2, 1), Item(1, 1), Item(3, 2)>>],
     [Base EXCEPT !["items"] = H \o <<Item(1, 1), Item(2, 3), Item(3, 2)>>],
     [Base EXCEPT !["items"] = SubSeq(@, 1, 3)],
     [Base EXCEPT !["items"] = H \o <<Item(1, 1), <<2, 1>>, Item(3, 2)>>],
     [Base EXCEPT !["items"] = H \o <<Item(1, 2), Item(2, 1), Item(3, 2)>>],
     [Base EXCEPT !["coverages"] = H \o <<<<2, 8>>, <<1, 6>>>>],
     [Base EXCEPT !["coverages"] = H \o <<<<1, 6>>, <<2>>>>],
     [Base EXCEPT !["fm_programme"] = Prog(TwoTops), !["fm_policytc"] = Policies(<<<<1, 2, 2, 2>>>>)],
     [Base EXCEPT !["fm_programme"] = Prog(TwoTops)],
     [Base EXCEPT !["fm_programme"] = Prog(Twisted)],
     [Base EXCEPT !["fm_programme"] = Prog(<<<<1, 2, 1>>, <<2, 2, 1>>, <<1, 3, 1>>>>)],
     [Base EXCEPT !["fm_programme"] = Prog(<<<<1, 2, 1>>, <<3, 2, 1>>>>)],
     [Base EXCEPT !["fm_programme"] = Prog(<<<<1, 2, 1>>, <<2, 2, 1>>, <<2, 3, 1>>>>)],
     [Base EXCEPT !["fm_programme"] = Prog(<<<<1, 2, 1>>, <<2, 2, 1>>, <<2, 2, 2>>>>)],
     [Base EXCEPT !["fm_programme"] = @ \o <<<<3, 1, 2>>>>],
     [Base EXCEPT !["fm_programme"] = @ \o <<<<3, 1>>>>],
     [Base EXCEPT !["fm_policytc"] = Policies(<<<<1, 2, 3, 1>>>>)],
     [Base EXCEPT !["fm_policytc"] = Policies(<<<<1, 1, 2, 9>>>>)],
     [Base EXCEPT !["fm_policytc"] = Policies(<<<<2, 1, 1>>>>)],
     ("fm_xref_a0" :> H \o <<<<1, 1, 1>>, <<2, 1, 2>>>>) @@ Base,
     [n \in DOMAIN Base \ {"fm_xref"} |-> Base[n]],
     [n \in DOMAIN Base \ {"fm_profile"} |-> Base[n]],
     [n \in {"items", "coverages"} |-> Base[n]]}

GulText(s) == <<<<1, 1, -1, 4>>, <<1, 1, s, 6>>, <<1, 2, s, 6>>, <<1, 2, 1, 2>>, <<2, 1, 1, 5>>>>
SummaryText(x) == <<<<1, 0, 1, -1, 0>>, <<1, 0, 1, 1, 0>>, <<1, 6, 2, 1, 3>>, <<2, x, 2, 1, 3>>, <<3, x, 2, 2, 1>>>>
Plainly ==
    {("gulsummaryxref" :> H \o <<<<1, 2, 3>>, <<2, 1, 3>>>>)
       @@ ("fmsummaryxref" :> H \o <<<<4, 2, 3>>, <<2>>, <<1, 1, 3>>>>)
       @@ ("random" :> H \o <<<<3>>, <<1>>, <<2>>>>) @@ ("returnperiods" :> H \o periods)
       @@ ("periods" :> H \o <<<<1, 3>>, <<2, 4>>>>) @@ ("ensemble" :> H \o <<<<1, 2>>, <<2, 1>>>>)
       @@ ("damage_bin_dict" :> H \o <<<<1, 0, 5, 2, 7>>, <<2, 5, 9, 7, 8>>>>)
       @@ ("gul" :> H \o GulText(s)) @@ ("losses" :> H \o GulText(2)) @@ ("summary" :> H \o SummaryText(x))
        : periods \in {<<<<5>>, <<9>>, <<5>>, <<20>>>>, <<<<5>>, <<>>, <<9>>>>}, s \in 1 .. 3, x \in {0, 6}}
Events == {("events" :> e) : e \in {H \o <<<<7>>, <<0>>, <<5>>>>, <<<<3>>, <<>>, <<4>>>>}}

\* Directories gulcalc and summarycalc are started in: sound, a set above 9, a
\* first summary that is not 1, items that are not contiguous.
Gulxref(rows) == H \o <<<<1, 1, 1>>, <<2, 2, 1>>>> \o rows
Pipelines ==
    {[n \in {"items", "coverages"} |-> Base[n]] @@ ("random" :> H \o [k \in 1 .. r |-> <<k>>])
       @@ ("gulsummaryxref" :> Gulxref(g)) @@ ("fmsummaryxref" :> H \o <<<<3, 1, 1>>, <<1, 2, 1>>, <<2, 1, 2>>>>)
        : r \in {3, 10}, g \in {<<<<1, 1, 2>>, <<2, 1, 1>>>>, <<<<1, 3, 2>>, <<2, 2, 2>>>>, <<<<1, 1, 10>>>>}}

MCDirectories == Pipelines \cup ByRule \cup ByStep \cup Changed \cup Plainly \cup Events

O(o, n) == [o |-> o, n |-> n]
Opt(args) == fmcalcOptions(args) @@ [g |-> FALSE, header |-> TRUE, samples |-> 2, t |-> 1]
MCOptions == {Opt(<<>>), [Opt(<<O("S", 0), O("n", 0), O("M", -1)>>) EXCEPT !.header = FALSE, !.t = 2],
              [Opt(<<O("M", 1), O("a", 1)>>) EXCEPT !.samples = -1],
              [Opt(<<O("a", 4)>>) EXCEPT !.g = TRUE, !.t = 3], Opt(<<O("a", 4)>>)}

MCGulLines ==
    {<<O("S", 2)>> \o a \o <<O("r", 0)>> \o out :
        a \in {<<>>, <<O("a", 0)>>, <<O("a", 1)>>, <<O("a", 3)>>, <<O("a", 2), O("m", 0)>>, <<O("m", 2)>>},
        out \in {<<O("i", 0)>>, <<O("c", 0)>>, <<O("i", 0), O("c", 0), O("j", 0)>>, <<O("j", 0)>>}}
    \cup {<<O("S", 4), O("s", 5), O("i", 0)>>, <<O("S", 3), O("R", 5), O("l", 0), O("i", 0)>>,
          <<O("r", 0), O("A", 0), O("i", 0)>>, <<O("i", 0), O("r", 0), O("S", 7)>>}

S(o) == [o |-> o]
Set(n, pipe) == [o |-> "set", set |-> n, pipe |-> pipe]
MCSummaryLines ==
    {<<S(o), S("m"), Set(1, "a")>> \o set : o \in {"g", "c", "i", "x", "f"}, set \in {<<>>, <<Set(2, "-"), S("z")>>}}
    \cup {<<S("i"), S("f"), Set(1, "-")>>, <<S("i")>>, <<Set(1, "-")>>}

X(loss, ded, over, under) ==
    [loss |-> loss, retained_loss |-> 1, previous_layer_retained_loss |-> 5,
     effective_deductible |-> ded, accumulated_tiv |-> 6, over_limit |-> over,
     under_limit |-> under, step_loss |-> 2]
MCLosses == {X(loss, ded, over, under) : loss \in {0, 2, 5, 9}, ded \in {0, 4}, over \in {0, 3}, under \in {0, 3}}
==============================================================================
