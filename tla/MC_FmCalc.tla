------------------------------ MODULE MC_FmCalc ------------------------------
(***************************************************************************)
(* Programmes, losses and options for model checking FmCalc.  A proportion *)
(* is counted in halves.                                                   *)
(***************************************************************************)
EXTENDS FmCalc

Half == 1
One == 2

Terms == [calcrule |-> 100, d1 |-> 0, d2 |-> 0, d3 |-> 0, a1 |-> 0, l1 |-> 0,
          l2 |-> 0, sh1 |-> One, sh2 |-> One, sh3 |-> One, ts |-> 0, te |-> One,
          ps |-> Half, sc1 |-> 0, sc2 |-> Half, step_id |-> 1]

Rule(r, d1, d2, d3, l1) ==
    <<[Terms EXCEPT !.calcrule = r, !.d1 = d1, !.d2 = d2, !.d3 = d3, !.l1 = l1]>>
Share(r, a1, l1, sh1) ==
    <<[Terms EXCEPT !.calcrule = r, !.a1 = a1, !.l1 = l1, !.sh1 = sh1]>>
Step(r, n, ts, te, ps) ==
    [Terms EXCEPT !.calcrule = r, !.step_id = n, !.ts = ts, !.te = te, !.ps = ps,
                  !.l1 = 4, !.l2 = 1, !.d1 = n - 1, !.sc1 = n - 1]

Ded(d) == Rule(12, d, 0, 0, 0)
Capped(d, l) == Rule(1, d, 0, 0, l)
Excess(a, l, s) == Share(2, a, l, s)
LimitOf(l) == Rule(14, 0, 0, 0, l)
Ceded(s) == Share(25, 0, 0, s)
MaxDed(d, m) == Rule(10, d, 0, m, 0)
MinMax(least, most) == Rule(13, 0, least, most, 0)
Pass == <<Terms>>

Term(l, a, k, p) == [level |-> l, agg |-> a, layer |-> k, profile |-> p]

------------------------------------------------------------------------------
(* Programmes *)

\* Three items of two coverages in two locations of one account.
Account(loc1, loc2, top) ==
    [levels |-> 2, stepped |-> FALSE, isGULStreamType_ |-> TRUE,
     parent |-> << <<1, 1, 2>>, <<1, 1>> >>,
     coverage |-> <<1, 1, 2>>, tiv |-> <<6, 8>>,
     policytc |-> {Term(1, 1, 1, loc1), Term(1, 2, 1, loc2)}
                  \cup {Term(2, 1, k, top[k]) : k \in DOMAIN top},
     xref |-> (1..3) \X DOMAIN top]

\* The same items with terms of their own, two policies (the second item, and
\* the others), each with its layers on the last level.
Policies(item, pol, top) ==
    [levels |-> 3, stepped |-> FALSE, isGULStreamType_ |-> TRUE,
     parent |-> << <<1, 2, 3>>, <<2, 1, 2>>, <<1, 2>> >>,
     coverage |-> <<1, 1, 2>>, tiv |-> <<6, 8>>,
     policytc |-> {Term(1, i, 1, item[i]) : i \in 1..3}
                  \cup {Term(2, 1, 1, Pass), Term(2, 2, 1, pol)}
                  \cup {Term(3, a, k, top[k]) : a \in 1..2, k \in DOMAIN top},
     xref |-> (1..3) \X DOMAIN top]

\* Reinsurance on one level.
Treaty(top) ==
    [levels |-> 1, stepped |-> FALSE, isGULStreamType_ |-> TRUE,
     parent |-> << <<1, 1, 2>> >>, coverage |-> <<1, 1, 2>>, tiv |-> <<6, 8>>,
     policytc |-> {Term(1, a, k, top[k]) : a \in 1..2, k \in DOMAIN top},
     xref |-> (1..3) \X DOMAIN top]

\* One policy has two layers, the other one: the second is filled up.
Uneven ==
    [Policies(<<Pass, Ded(1), Pass>>, LimitOf(6), << Ceded(Half), LimitOf(2) >>)
        EXCEPT !.policytc = {r \in @ : r.level < 3 \/ r.agg = 2 \/ r.layer = 1}]

\* Stepped terms for the locations.
Steps(loc1, loc2) ==
    [Account(loc1, loc2, << LimitOf(5), Excess(1, 4, Half) >>) EXCEPT !.stepped = TRUE]

\* Losses from a directory that has no coverages: their exposure counts as zero.
Lossy(f) == [f EXCEPT !.isGULStreamType_ = FALSE, !.coverage = <<>>, !.tiv = <<>>]

\* One item, and one rule after the other.
Chain(r1, r2, r3) ==
    [levels |-> 3, stepped |-> FALSE, isGULStreamType_ |-> TRUE,
     parent |-> << <<1>>, <<1>>, <<1>> >>, coverage |-> <<1>>, tiv |-> <<20>>,
     policytc |-> {Term(1, 1, 1, r1), Term(2, 1, 1, r2), Term(3, 1, 1, r3)},
     xref |-> {<<1, 1>>}]

AllRules ==
    {Rule(r, 3, 0, 0, 6) : r \in {1, 3, 8, 12, 14, 20}}
    \cup {Rule(r, Half, 0, 0, 6) : r \in {4, 6, 9, 16, 33}}
    \cup {Rule(r, Half, 0, 0, Half) : r \in {5, 15}}
    \cup {Rule(r, 2, 4, 5, 6) : r \in {7, 10, 11, 13}} \cup {Rule(8, 1, 4, 0, 6)}
    \cup {Rule(r, Half, 4, 6, 6) : r \in {19, 21, 26}} \cup {Rule(35, Half, 4, 6, Half)}
    \cup {Rule(36, 1, 4, d3, Half) : d3 \in {0, 6}}
    \cup {Share(r, 1, 4, Half) : r \in {2, 17, 18, 22, 23, 24, 25, 34}}

Below == {Pass, Rule(1, 3, 0, 0, 4), Rule(1, 2, 0, 0, 12), Rule(8, 1, 4, 0, 6),
          Ded(3), Rule(5, Half, 0, 0, Half)}
Above == {Pass, Rule(10, 0, 0, 1, 0), Rule(7, 1, 5, 7, 8), Rule(13, 2, 6, 9, 0),
          Share(24, 1, 4, Half)}

------------------------------------------------------------------------------
(* Losses: tiv, mean and two samples, the second sometimes without any *)

LossRows ==
    { << <<6, 6, 8>>, <<2, 1, 3>>, s, t >> :
        s \in {<<0, 2, 0>>, <<5, 0, 2>>, <<2, 5, 5>>, <<0, 0, 5>>, <<2, 0, 0>>},
        t \in {<<0, 0, 0>>, <<1, 4, 0>>} }

Of(fms, rows, allocs, net) ==
    [fm : fms, items : {<<1, 2, 3>>, <<3, 1, 2>>}, event_guls : rows,
     allocrule : allocs, netvalue : {net}, generalOptimization : {TRUE}]

Trees ==
    { Account(Ded(1), Capped(1, 3), << LimitOf(6) >>),
      Account(Capped(2, 2), Ded(2), << MinMax(1, 3), Pass >>),
      Policies(<<Ded(2), Ded(0), Capped(1, 2)>>, MaxDed(0, 1),
               << LimitOf(4), Excess(2, 3, Half) >>),
      Policies(<<LimitOf(2), Pass, Pass>>, Capped(0, 1), << Ceded(Half) >>),
      Uneven,
      Steps(<<Step(27, 1, 0, Half, Half), Step(28, 2, Half, One, 0)>>,
            <<Step(32, 1, 3, One, Half), Step(31, 2, Half, Half + Half, 2)>>),
      Steps(<<Step(29, 1, 0, Half, Half), Step(30, 2, 0, One, Half)>>, Ded(1)),
      Lossy(Account(Rule(6, Half, 0, 0, 0), Rule(4, Half, 0, 0, 4), << MinMax(1, 3), LimitOf(2) >>)),
      Lossy(Steps(<<Step(27, 1, 0, Half, Half), Step(28, 2, Half, One, 0)>>, Ded(1))) }

Reinsurance ==
    { Policies(<<Pass, Pass, Pass>>, Pass, << Ceded(Half), Share(24, 1, 4, One) >>),
      Policies(<<Pass, LimitOf(3), Pass>>, LimitOf(6), << Share(22, 0, 3, One) >>),
      Account(Pass, LimitOf(4), << Ceded(One), Share(23, 0, 2, One) >>),
      Treaty(<< Ceded(Half), Share(23, 0, 3, Half) >>) }

Chains ==
    [fm : {Chain(r1, r2, r3) : r1 \in Below, r2 \in AllRules, r3 \in Above},
     items : {<<1>>}, event_guls : { << <<20>>, <<5>>, <<9>> >> },
     allocrule : {0}, netvalue : {FALSE}, generalOptimization : {TRUE}]

MCCases ==
    Of(Trees, LossRows, 0..3, FALSE) \cup Of(Reinsurance, LossRows, {0, 2, 3}, TRUE)
    \cup Chains

\* An account whose first layer is the excess layer.
MCLayers ==
    Of({Account(Pass, Pass, << Excess(4, 8, One), LimitOf(4) >>)}, LossRows, {2, 3}, FALSE)
==============================================================================
