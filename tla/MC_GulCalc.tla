----------------------------- MODULE MC_GulCalc -----------------------------
(* Bounds for TLC: three items with two keys; items 1 and 2 are two perils  *)
(* of coverage 1, items 1 and 3 share a group and item 3 is all of          *)
(* coverage 2.  Two events with different CDFs, one that ends below the     *)
(* largest number.  An exposure is a multiple of all sums of up to three    *)
(* losses in quarters of it, so that every split is exact.                  *)
EXTENDS GulCalc
Opt(a, c, j, S) == [allocRule |-> a, mode |-> IF a > 0 THEN 1 ELSE 0, samplesize |-> S,
                    coverageLevelOutput |-> c, correlatedLevelOutput |-> j]
\* The combinations whose outputs are documented, and two in which -m overrules
\* the mode of the rule; one sample with the correlated stream, whose numbers
\* add to the group's.
Overruled(o, m) == [o EXCEPT !.mode = m]
Documented == {Opt(-1, TRUE, FALSE, 2), Opt(0, FALSE, TRUE, 1), Opt(1, FALSE, FALSE, 2),
               Opt(2, FALSE, FALSE, 2), Opt(1, FALSE, TRUE, 1), Opt(2, FALSE, TRUE, 1),
               Overruled(Opt(0, FALSE, FALSE, 1), 1), Overruled(Opt(2, FALSE, FALSE, 1), 0)}
MCEvents == 1 .. 2
MCKeys == 1 .. 2
MCItem == 1 .. 3
MCCoverage == 1 .. 2
MCKeyOf == <<1, 2, 1>>
MCCoverageOf == <<1, 1, 2>>
MCGroupOf == <<1, 2, 1>>
MCTiv == <<27720, 27720>>
Even == [prob_to |-> <<1, 2>>, bin_mean |-> <<0, 2>>, sd |-> 1]
High == [prob_to |-> <<1, 2>>, bin_mean |-> <<1, 2>>, sd |-> 1]
Short == [prob_to |-> <<1>>, bin_mean |-> <<2>>, sd |-> 0]
MCCdfOf == [ek \in MCEvents \X MCKeys |->
    IF ek = <<1, 1>> THEN High ELSE IF ek = <<1, 2>> THEN Short ELSE
    IF ek = <<2, 1>> THEN Even ELSE High]
=============================================================================
