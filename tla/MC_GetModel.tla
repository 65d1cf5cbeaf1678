----------------------------- MODULE MC_GetModel -----------------------------
(***************************************************************************)
(* Small models for GetModel: footprints of two to four events with up to  *)
(* four areaperils, three vulnerabilities over three damage bins, in every *)
(* form of the files.  The probability 1 is counted as 2.                  *)
(***************************************************************************)
EXTENDS GetModel

\* A block of like rows compresses to one record, one of different rows not at all.
MCZLen(rows) == IF rows = <<>> THEN 1 ELSE Cardinality({<<rows[n].bin, rows[n].prob>> : n \in DOMAIN rows})

F(e, a, b, p) == [event |-> e, areaperil |-> a, bin |-> b, prob |-> p]
V(v, i, d, p) == [vulnerability |-> v, intensity |-> i, bin |-> d, prob |-> p]
I(a, v) == [areaperil |-> a, vulnerability |-> v]
D(d) == [index |-> d, from |-> 10 * (d - 1), to |-> 10 * d, mean |-> 10 * d - 5]

Uncertain == {<<F(1, 1, 1, 1), F(1, 1, 2, 1), F(1, 2, 2, 2), F(3, 1, 2, 2), F(3, 3, 1, 1), F(3, 3, 2, 1),
                F(4, 2, 1, 2), F(4, 2, 2, 0)>>,
              <<F(2, 1, 2, 1), F(2, 1, 1, 1), F(2, 2, 1, 2), F(2, 3, 2, 1), F(2, 3, 1, 1)>>}
\* An event of five like records is too large for a buffer of twice its bytes.
Certain == {<<F(1, 1, 2, 2), F(1, 2, 1, 2), F(1, 3, 1, 2), F(2, 2, 2, 2), F(3, 3, 1, 2)>>,
            <<F(1, 1, 1, 2), F(1, 2, 1, 2), F(1, 3, 1, 2), F(1, 4, 1, 2), F(1, 5, 1, 2)>>}
\* Files the validators refuse: an event and an areaperil that come back.
Disordered == {<<F(2, 1, 1, 2), F(1, 1, 1, 2), F(1, 2, 2, 2)>>,
               <<F(1, 1, 1, 2), F(2, 1, 1, 2), F(1, 2, 1, 2)>>,
               <<F(1, 1, 1, 1), F(1, 2, 1, 2), F(1, 1, 2, 1), F(2, 1, 1, 2)>>}

Vulnerabilities ==
    {<<V(1, 1, 1, 1), V(1, 1, 2, 1), V(1, 2, 2, 2), V(2, 1, 1, 2), V(2, 2, 1, 1), V(2, 2, 3, 1),
       V(3, 1, 3, 2), V(3, 2, 1, 1), V(3, 2, 3, 1), V(3, 3, 3, 2)>>,
     <<V(1, 2, 1, 1), V(1, 2, 2, 1), V(2, 1, 3, 2), V(2, 2, 1, 2), V(3, 3, 3, 2)>>,
     <<V(1, 2, 1, 1), V(1, 2, 2, 1), V(2, 1, 1, 2), V(2, 2, 3, 2), V(3, 1, 2, 2), V(3, 2, 1, 2)>>}
Shuffled == {<<V(1, 1, 1, 2), V(2, 1, 3, 2), V(2, 2, 1, 2), V(1, 2, 2, 2)>>}

ItemLists == {<<I(1, 1), I(2, 2), I(2, 1), I(2, 2)>>, <<I(3, 2), I(1, 3)>>, <<I(2, 1), I(3, 4)>>}
Case(f, u, form, v, vform, items, events) ==
    [footprint |-> f, uncertain |-> u, form |-> form, vulnerability |-> v, vform |-> vform,
     items |-> items, events |-> events, bins |-> [d \in 1..3 |-> D(d)]]
MCCases ==
    {Case(f, TRUE, form, v, vform, items, <<3, 1, 2, 4>>) :
        f \in Uncertain, form \in {"plain", "zip", "sized", "conv"}, v \in Vulnerabilities,
        vform \in {"stream", "index", "zip"}, items \in ItemLists}
    \cup {Case(f, FALSE, form, v, "index", items, <<1, 2, 1>>) :
        f \in Certain, form \in {"plain", "zip", "sized", "conv"}, v \in Vulnerabilities, items \in ItemLists}
    \cup {Case(f, TRUE, form, v, vform, <<I(1, 1), I(2, 2)>>, <<1, 2>>) :
        f \in Disordered, form \in {"plain", "zip"}, v \in Shuffled, vform \in {"stream", "index", "zip"}}
==============================================================================
