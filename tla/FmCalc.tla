------------------------------- MODULE FmCalc --------------------------------
(***************************************************************************)
(* fmcalc: the financial terms of one event.                               *)
(*                                                                         *)
(* dofm receives the ground up losses of an event, one row per sample, and *)
(* for each row climbs the programme: a call of dofmcalc_r calculates one  *)
(* layer of one level.  It adds the losses of the level below up into the  *)
(* nodes of its own, applies the rule of every node, and on the last level *)
(* writes the losses out, allocated back to the items as allocrule says.   *)
(* The vectors of loss records are shared by all the calls of an event:    *)
(* what a call leaves in them is there for the next layer, the next level  *)
(* and the next sample.                                                    *)
(*                                                                         *)
(* CalcLevel and CalcLast are one call of dofmcalc_r, NextSample one turn  *)
(* of the loop of dofm.  Not modelled: the options -M (fewer levels), -d   *)
(* (rows for zero losses) and -O (the same proportions computed again), and *)
(* the branch of compute_item_proportions for a level below the last one   *)
(* with layers, which the input format excludes.                           *)
(***************************************************************************)
EXTENDS FmRules, Fractions, FiniteSets, FiniteSetsExt, SequencesExt

CONSTANT Cases
\* The inputs of a call of dofm: records with
\*   fm           the programme: levels, parent (programme), policytc (rows of
\*                level, agg_id, layer_id and profile), coverage and tiv,
\*                xref (pairs of agg_id and layer_id), stepped,
\*                isGULStreamType_ (false for losses without coverages.bin)
\*   items        the items of the event in the order they arrived
\*   event_guls   the rows of losses: tiv, mean, sample 1, ...
\*   allocrule, netvalue, generalOptimization      the options

PolicyTerms ==
    [calcrule : Nat, step_id : Nat, d1 : Int, d2 : Int, d3 : Int, a1 : Int,
     l1 : Int, l2 : Int, sh1 : Int, sh2 : Int, sh3 : Int, ts : Int, te : Int,
     ps : Int, sc1 : Int, sc2 : Int]

\* Every item has its parents up to the last level and its coverage, every
\* node its policies; a level below the last one has one layer.
IsTree(f) ==
    /\ f.levels \in Nat \ {0} /\ DOMAIN f.parent = 1..f.levels
    /\ \A l \in 1..f.levels :
          /\ IsFiniteSet(DOMAIN f.parent[l]) /\ DOMAIN f.parent[l] \subseteq Nat \ {0}
          /\ f.parent[l] \in [DOMAIN f.parent[l] -> Nat \ {0}]
          /\ \A a \in DOMAIN f.parent[l] :
                l < f.levels => f.parent[l][a] \in DOMAIN f.parent[l + 1]
ArePolicies(f) ==
    /\ IsFiniteSet(f.policytc)
    /\ \A r \in f.policytc :
          /\ r.level \in 1..f.levels /\ r.agg \in Nat \ {0} /\ r.layer \in Nat \ {0}
          /\ r.profile \in Seq(PolicyTerms) \ {<<>>}
          /\ r.level < f.levels => r.layer = 1
    /\ \A l \in 1..f.levels : \A a \in DOMAIN f.parent[l] :
          \E r \in f.policytc : r.level = l /\ r.agg = f.parent[l][a]
AreCoverages(f) ==
    /\ IsFiniteSet(DOMAIN f.coverage) /\ DOMAIN f.parent[1] \subseteq DOMAIN f.coverage
    /\ f.tiv \in [DOMAIN f.tiv -> Nat]
    /\ \A i \in DOMAIN f.coverage : f.coverage[i] \in DOMAIN f.tiv
IsProgramme(f) ==
    /\ IsTree(f) /\ ArePolicies(f)
    /\ f.stepped \in BOOLEAN /\ f.isGULStreamType_ \in BOOLEAN
    /\ f.isGULStreamType_ => AreCoverages(f)

ASSUME CasesAssumption ==
    \A c \in Cases :
        /\ c.allocrule \in 0..3
        /\ c.netvalue \in BOOLEAN
        /\ IsProgramme(c.fm)
        /\ c.items \in Seq(DOMAIN c.fm.parent[1]) \ {<<>>}
        /\ \A i, j \in DOMAIN c.items : c.items[i] = c.items[j] => i = j
        /\ c.event_guls \in Seq([DOMAIN c.items -> Nat])

VARIABLES
    input,          \* the case
    avxs,           \* level -> the nodes of the event, with their items
    gul_idx,        \* the row the loop of dofm is at
    level, layer,   \* of the next call of dofmcalc_r; level 0 between samples
    agg_vecs,       \* level -> layer -> the loss records of the nodes
    outmap          \* output -> the rows written for it

vars == <<input, avxs, gul_idx, level, layer, agg_vecs, outmap>>

fm == input.fm
guls == input.event_guls[gul_idx]

tiv_idx == -3
mean_idx == -1

------------------------------------------------------------------------------
(* The programme *)

Noop == <<[calcrule |-> 100]>>      \* the profile noop_profile_id
NoProfile == <<>>                   \* policytc_id 0

\* parse_policytc: on the last level a layer a node lacks does nothing.
Policytc(f) ==
    LET last == {r \in f.policytc : r.level = f.levels}
        aggs == 1..Max({r.agg : r \in last})
        layers == 1..Max({r.layer : r \in last})
    IN  f.policytc \cup
        {[level |-> f.levels, agg |-> k[1], layer |-> k[2], profile |-> Noop] :
            k \in {j \in aggs \X layers :
                     \A r \in last : <<r.agg, r.layer>> # j}}

\* level_to_max_layer_ and max_layer_
MaxLayer(f, lev) ==
    IF lev = 0 THEN 1 ELSE Max({r.layer : r \in {q \in Policytc(f) : q.level = lev}})
max_layer(f) == Max({r.layer : r \in f.policytc})

HasLayer(f, lev, agg, lay) ==
    \E r \in Policytc(f) : r.level = lev /\ r.agg = agg /\ r.layer >= lay

ProfileOf(f, lev, agg, lay) ==
    LET rows == {r \in Policytc(f) : r.level = lev /\ r.agg = agg /\ r.layer = lay}
    IN  (CHOOSE r \in rows : TRUE).profile

\* level_to_maxagg_id_, the size of a vector of loss records
MaxAgg(f, lev) == Max({f.parent[lev][a] : a \in DOMAIN f.parent[lev]})

\* assign_coverage_ids: the coverages of the items below a node
CoveragesBelow(f, lev, agg) ==
    LET node[l \in 0..lev] ==       \* the node of level l above each item
            [i \in DOMAIN f.coverage |->
                IF l = 0 THEN i ELSE f.parent[l][node[l - 1][i]]]
    IN  {f.coverage[i] : i \in {j \in DOMAIN f.coverage : node[lev][j] = agg}}

SumOf(amount, S) == FoldSet(LAMBDA x, t : t + amount[x], 0, S)

\* accumulated_tivs_: a coverage counts once; none is known when the input is a
\* loss stream and there is no coverages file
AccumulatedTiv(f, lev, agg) ==
    IF f.isGULStreamType_ THEN SumOf(f.tiv, CoveragesBelow(f, lev, agg)) ELSE 0

\* The nodes of the next level, in the order their first child is met.
Grouped(nodes, parent) ==
    FoldLeft(LAMBDA acc, n :
                LET a == parent[n.agg_id]
                IN  IF \E k \in DOMAIN acc : acc[k].agg_id = a
                    THEN [k \in DOMAIN acc |->
                            IF acc[k].agg_id = a
                            THEN [acc[k] EXCEPT !.item_idx = @ \o n.item_idx]
                            ELSE acc[k]]
                    ELSE Append(acc, [agg_id |-> a, item_idx |-> n.item_idx]),
             <<>>, nodes)

Avxs(f, items) ==
    LET avx[l \in 0..f.levels] ==
            IF l = 0
            THEN [i \in DOMAIN items |-> [agg_id |-> items[i], item_idx |-> <<i>>]]
            ELSE Grouped(avx[l - 1], f.parent[l])
    IN  avx

\* aggid_to_vectorlookup of a level
VecIdx(nodes, agg) == CHOOSE k \in DOMAIN nodes : nodes[k].agg_id = agg

------------------------------------------------------------------------------
(* Loss records *)

LossRec ==
    [loss |-> 0, retained_loss |-> 0, previous_layer_retained_loss |-> 0,
     effective_deductible |-> 0, accumulated_tiv |-> 0, over_limit |-> 0,
     under_limit |-> 0, step_loss |-> 0, proportion |-> ZeroFrac, agg_id |-> 0,
     policytc_id |-> NoProfile, item_idx |-> <<>>, item_prop |-> <<>>,
     item_net |-> <<>>]

Null == <<>>                        \* an item_prop that does not exist

\* mutant: the records of the previous sample are kept
ResetNot(vec) == vec

\* The records up to the first without a profile start again.
Reset(vec) ==
    LET used == {k \in DOMAIN vec : \A j \in 1..k : vec[j].policytc_id # NoProfile}
    IN  [k \in DOMAIN vec |-> IF k \in used THEN LossRec ELSE vec[k]]

Resized(vec, size) ==
    [k \in 1..size |-> IF k <= Len(vec) THEN vec[k] ELSE LossRec]

\* A record of the level below, added to the record x of its node n.
WithChild(f, lev, lay, x, n, y) ==
    [x EXCEPT !.policytc_id = ProfileOf(f, lev, n.agg_id, lay),
              !.agg_id = n.agg_id,
              !.item_idx = n.item_idx,
              !.loss = @ + y.loss,
              !.retained_loss = @ + y.retained_loss,
              !.accumulated_tiv = AccumulatedTiv(f, lev, n.agg_id),
              !.effective_deductible = @ + y.effective_deductible,
              !.over_limit = @ + y.over_limit,
              !.under_limit = @ + y.under_limit]
AddedUp(f, nodes, lev, lay, acc, y) ==
    LET k == VecIdx(nodes, f.parent[lev][y.agg_id])
    IN  IF y.agg_id = 0 \/ ~HasLayer(f, lev, f.parent[lev][y.agg_id], lay) THEN acc
        ELSE [acc EXCEPT ![k] = WithChild(f, lev, lay, @, nodes[k], y)]

\* The records of the level below, added up into their nodes.
Aggregated(f, nodes, vec, previous, lev, lay) ==
    LET sum[n \in 0..Len(previous)] ==
            IF n = 0 THEN vec
            ELSE AddedUp(f, nodes, lev, lay, sum[n - 1], previous[n])
    IN  sum[Len(previous)]

\* dofmcalc_normal and dofmcalc_stepped, on one record
Ruled(stepped, x, lay) ==
    IF x.agg_id = 0 \/ x.policytc_id \in {NoProfile, Noop}
       \/ (x.loss <= 0 /\ x.retained_loss <= 0)
    THEN x
    ELSE IF stepped THEN StepByStep(x.policytc_id, x, lay)
    ELSE applycalcrule(x.policytc_id[1], x, lay)

\* dofmcalc stops at the first record that is not in use.
dofmcalc(vec, lay) ==
    [k \in DOMAIN vec |->
        IF \E j \in 1..k : vec[j].agg_id = 0 THEN vec[k]
        ELSE Ruled(fm.stepped, vec[k], lay)]

\* The records of this level and layer before their proportions are known.
Calculated(lev, lay) ==
    LET below == agg_vecs[lev - 1][IF lay <= MaxLayer(fm, lev - 1) THEN lay ELSE 1]
        clear == Resized(Reset(agg_vecs[lev][lay]), MaxAgg(fm, lev))
        summed == Aggregated(fm, avxs[lev], clear, below, lev, lay)
        carried == IF lay = 1 THEN summed
                   ELSE [k \in DOMAIN summed |->
                           [summed[k] EXCEPT !.previous_layer_retained_loss =
                               agg_vecs[lev][lay - 1][k].retained_loss]]
    IN  dofmcalc(carried, lay)

------------------------------------------------------------------------------
(* compute_item_proportions *)

Gul(idx) == Whole(guls[idx])
GulTotal(x) == FracSum([i \in DOMAIN x.item_idx |-> Gul(x.item_idx[i])])

\* One level: the loss of a node is shared by its items as the level below
\* shared them.  props is items_prop, the share of each item so far.
LevelProportions(raw, previous, props, first, allowzeros) ==
    LET counts(x) == x.loss > 0 \/ x.retained_loss > 0 \/ allowzeros
        vec == [k \in DOMAIN raw |->
                  IF counts(raw[k])
                  THEN [raw[k] EXCEPT !.item_prop =
                            [i \in DOMAIN raw[k].item_idx |-> ZeroFrac]]
                  ELSE raw[k]]
        loss_total == FoldLeft(LAMBDA sum, x : IF counts(x) THEN sum + x.loss ELSE sum,
                               0, vec)
        earlier == FracSum([k \in DOMAIN previous |-> previous[k].proportion])
        of(x) == FracSum([i \in DOMAIN x.item_idx |-> props[x.item_idx[i]]])
        share(x) == IF x.loss > 0 /\ loss_total > 0 THEN Frac(x.loss, loss_total)
                    ELSE ZeroFrac
        weight(i) == IF first THEN Gul(i) ELSE props[i]
        total(x) == IF first THEN GulTotal(x) ELSE of(x)
        within(x) == [i \in DOMAIN x.item_idx |-> Over(weight(x.item_idx[i]), total(x))]
        kept(k) ==
            LET x == vec[k]
            IN  CASE IsPositive(total(x)) ->
                        IF x.item_prop = Null THEN Null ELSE within(x)
                  [] ~IsPositive(total(x)) /\ ~first /\ x.item_idx # <<>> ->
                        previous[k].item_prop
                  [] OTHER -> x.item_prop
        owner(i) == {k \in DOMAIN vec : \E j \in DOMAIN vec[k].item_idx :
                                            vec[k].item_idx[j] = i}
    IN  IF loss_total <= 0 /\ earlier[1] * 100 > earlier[2]
        THEN [vec |-> [k \in DOMAIN vec |->
                          [vec[k] EXCEPT !.proportion = Plus(@, of(vec[k]))]],
              props |-> props]
        ELSE [vec |-> [k \in DOMAIN vec |->
                          [vec[k] EXCEPT !.proportion = share(vec[k]),
                                         !.item_prop = kept(k)]],
              props |-> [i \in DOMAIN props |->
                  LET x == vec[CHOOSE k \in owner(i) : TRUE]
                  IN  IF IsPositive(total(x))
                      THEN Times(Over(weight(i), total(x)), share(x))
                      ELSE props[i]]]

\* All levels up to lev, on the first layer.
FirstLayerProportions(vecs, lev, allowzeros) ==
    LET upto[l \in 0..lev] ==
            IF l = 0 THEN [vecs |-> vecs, props |-> [i \in DOMAIN guls |-> ZeroFrac]]
            ELSE LET below == upto[l - 1]
                     new == LevelProportions(below.vecs[l][1], below.vecs[l - 1][1],
                                             below.props, l = 1, allowzeros)
                 IN  [vecs |-> [below.vecs EXCEPT ![l][1] = new.vec],
                      props |-> new.props]
    IN  upto[lev].vecs

\* mutant: the other layers do not
FirstLayerOnly(vecs, lev, lay, allowzeros) ==
    IF lay = 1 THEN FirstLayerProportions(vecs, lev, allowzeros) ELSE vecs

\* The other layers take over the proportions of the first.
compute_item_proportions(vecs, lev, lay, allowzeros) ==
    IF lay = 1 THEN FirstLayerProportions(vecs, lev, allowzeros)
    ELSE [vecs EXCEPT ![lev][lay] =
            [k \in DOMAIN @ |->
                [@[k] EXCEPT !.proportion = vecs[lev][1][k].proportion,
                             !.item_prop = vecs[lev][1][k].item_prop]]]

------------------------------------------------------------------------------
(* What the last level writes *)

sidx == CASE gul_idx = 1 -> tiv_idx [] gul_idx = 2 -> mean_idx [] OTHER -> gul_idx - 2

\* at level 1 allocrule 2 or 3 and 1 are the same
AllocRule == IF input.allocrule > 1 /\ fm.levels = 1 THEN 1 ELSE input.allocrule

Considered(x) == x.agg_id > 0 /\ (x.loss > 0 \/ sidx < 0 \/ input.netvalue)

\* The share the items of x have in its loss; an item beyond the end of a
\* shorter vector of proportions has none.
Shares(x) ==
    [i \in DOMAIN x.item_idx |->
        CASE AllocRule = 1 -> IF IsPositive(GulTotal(x))
                              THEN Over(Gul(x.item_idx[i]), GulTotal(x)) ELSE ZeroFrac
          [] AllocRule # 1 -> IF i <= Len(x.item_prop) THEN x.item_prop[i]
                              ELSE ZeroFrac]

ItemLosses(x) ==
    [i \in DOMAIN x.item_idx |-> Times(Whole(x.loss), Shares(x)[i])]

\* mutant: every layer starts from the ground up loss
NetOfLayer(x, lay, previous) ==
    [i \in DOMAIN x.item_idx |->
        LET left == Minus(Gul(x.item_idx[i]), ItemLosses(x)[i])
        IN  IF AllocRule <= 1 \/ ~Considered(x) THEN Gul(x.item_idx[i])
            ELSE IF IsNegative(left) THEN ZeroFrac ELSE left]

\* item_net starts as the ground up loss and loses what each layer takes.
NetOf(x, lay, previous) ==
    LET from == IF lay = 1 THEN [i \in DOMAIN x.item_idx |-> Gul(x.item_idx[i])]
                ELSE previous.item_net
        left == [i \in DOMAIN x.item_idx |-> Minus(from[i], ItemLosses(x)[i])]
    IN  IF AllocRule > 1 /\ Considered(x)
        THEN [i \in DOMAIN left |-> IF IsNegative(left[i]) THEN ZeroFrac ELSE left[i]]
        ELSE from

Row(x, i, lay) ==
    CASE ~input.netvalue -> ItemLosses(x)[i]
      [] input.netvalue /\ AllocRule > 1 -> x.item_net[i]
      [] input.netvalue /\ AllocRule = 1 ->
            IF fm.levels = 1 /\ lay = 1
            THEN Minus(Gul(x.item_idx[i]), ItemLosses(x)[i])
            ELSE Times(Whole(x.retained_loss), Shares(x)[i])

\* The rows of the record x: pairs of an agg_id or item and a loss.
Rows(x, lay) ==
    IF ~Considered(x) THEN <<>>
    ELSE IF AllocRule = 0
    THEN << <<x.agg_id, Whole(IF input.netvalue THEN x.retained_loss ELSE x.loss)>> >>
    ELSE [i \in DOMAIN x.item_idx |->
            <<input.items[x.item_idx[i]], Row(x, i, lay)>>]

\* A row needs an output, and the net loss comes with the last layer.
Written(out, rows, lay) ==
    FoldLeft(LAMBDA acc, r :
                LET output == <<r[1], lay>>
                IN  IF /\ IsPositive(r[2]) \/ sidx < 0
                       /\ output \in fm.xref
                       /\ input.netvalue => lay = max_layer(fm)
                    THEN [acc EXCEPT ![output] =
                            Append(@, [sidx |-> sidx, loss |-> r[2]])]
                    ELSE acc,
             out, rows)

------------------------------------------------------------------------------
(* The calls *)

\* The record of an item before the first level.
ItemRec(k) ==
    LET n == avxs[0][k]
    IN  [LossRec EXCEPT !.loss = guls[k], !.agg_id = n.agg_id,
                        !.item_idx = n.item_idx,
                        !.accumulated_tiv = IF fm.isGULStreamType_
                                            THEN fm.tiv[fm.coverage[n.agg_id]] ELSE 0]

gulhasvalue(row) == \E i \in DOMAIN row : row[i] > 0

Init ==
    /\ input \in Cases
    /\ avxs = Avxs(input.fm, input.items)
    /\ gul_idx = 1
    /\ level = 0 /\ layer = 1
    /\ agg_vecs = [l \in 0..input.fm.levels |->
                     [k \in 1..max_layer(input.fm) |-> <<>>]]
    /\ outmap = [o \in input.fm.xref |-> <<>>]

\* The loop of dofm: a sample without any loss is passed over.
NextSample ==
    /\ level = 0 /\ gul_idx <= Len(input.event_guls)
    /\ IF gul_idx <= 2 \/ gulhasvalue(guls)
       THEN /\ agg_vecs' = [agg_vecs EXCEPT ![0][1] = [k \in DOMAIN avxs[0] |-> ItemRec(k)]]
            /\ level' = 1 /\ layer' = 1
            /\ UNCHANGED gul_idx
       ELSE /\ gul_idx' = gul_idx + 1
            /\ UNCHANGED <<level, layer, agg_vecs>>
    /\ UNCHANGED <<input, avxs, outmap>>

\* allocrule 3 computes the proportions on every level, allocrule 2 on the
\* last one, if some record is written.
Proportioned(vecs) ==
    IF input.allocrule = 3 THEN compute_item_proportions(vecs, level, layer, TRUE)
    ELSE IF /\ AllocRule = 2 /\ level = fm.levels
            /\ \E k \in DOMAIN vecs[level][layer] : Considered(vecs[level][layer][k])
    THEN compute_item_proportions(vecs, level, layer,
                                  ~input.generalOptimization \/ sidx = mean_idx)
    ELSE vecs

\* The net losses of the last level, kept in its records.
Netted(vecs) ==
    IF ~input.netvalue THEN vecs
    ELSE LET vec == vecs[level][layer]
             before == vecs[level][IF layer = 1 THEN 1 ELSE layer - 1]
         IN  [vecs EXCEPT ![level][layer] =
                [k \in DOMAIN vec |->
                    [vec[k] EXCEPT !.item_net = NetOf(vec[k], layer, before[k])]]]

\* The next call: the next layer of the level, or the next level.
NextLayer ==
    IF layer < MaxLayer(fm, level)
    THEN layer' = layer + 1 /\ UNCHANGED level
    ELSE layer' = 1 /\ level' = level + 1

\* Below the last level.
CalcLevel ==
    /\ level \in 1..(fm.levels - 1)
    /\ agg_vecs' = Proportioned([agg_vecs EXCEPT ![level][layer] = Calculated(level, layer)])
    /\ NextLayer
    /\ UNCHANGED <<input, avxs, gul_idx, outmap>>

\* The last level: the next layer, or the next sample.
CalcLast ==
    /\ level = fm.levels
    /\ LET vecs == Netted(Proportioned([agg_vecs EXCEPT ![level][layer] =
                                            Calculated(level, layer)]))
           vec == vecs[level][layer]
       IN  /\ outmap' = FoldLeft(LAMBDA out, x : Written(out, Rows(x, layer), layer),
                                 outmap, vec)
           /\ IF layer < max_layer(fm)
              THEN /\ layer' = layer + 1
                   /\ agg_vecs' = vecs
                   /\ UNCHANGED <<level, gul_idx>>
              ELSE /\ level' = 0 /\ layer' = 1
                   /\ gul_idx' = gul_idx + 1
                   /\ agg_vecs' = [vecs EXCEPT ![0][1] = <<>>]
    /\ UNCHANGED <<input, avxs>>

Next == NextSample \/ CalcLevel \/ CalcLast

Spec == Init /\ [][Next]_vars

------------------------------------------------------------------------------
(* What the losses of one sample are, without the vectors *)

\* The rows the loop has passed.
Passed == 1..(gul_idx - 1)

\* The nodes of the event on a level.
AggIds(nodes) == {nodes[k].agg_id : k \in DOMAIN nodes}
Nodes(lev) == AggIds(avxs[lev])

\* The record of the node a of level l on layer k, from those of its children.
Added(recs, kids, field) == SumOf([b \in DOMAIN recs |-> recs[b][field]], kids)
Kids(f, nodes, l, a) == {b \in AggIds(nodes[l - 1]) : f.parent[l][b] = a}
Gathered(f, recs, kids, l, k, a) ==
    [LossRec EXCEPT
        !.agg_id = a,
        !.policytc_id = ProfileOf(f, l, a, k),
        !.accumulated_tiv = AccumulatedTiv(f, l, a),
        !.loss = Added(recs, kids, "loss"),
        !.retained_loss = Added(recs, kids, "retained_loss"),
        !.effective_deductible = Added(recs, kids, "effective_deductible"),
        !.over_limit = Added(recs, kids, "over_limit"),
        !.under_limit = Added(recs, kids, "under_limit")]
FoldedNode(f, nodes, recs, l, k, a, before) ==
    Ruled(f.stepped,
          [Gathered(f, recs, Kids(f, nodes, l, a), l, k, a)
                EXCEPT !.previous_layer_retained_loss = before], k)

\* The records of every node on the first layer, up to level lev, for the
\* losses row: the tree is folded from the items up, each node from its
\* children alone.
FoldedItems(nodes, row) ==
    [a \in AggIds(nodes[0]) |-> [LossRec EXCEPT !.loss = row[VecIdx(nodes[0], a)]]]
FoldedFirst(f, nodes, row, lev) ==
    LET level1[l \in 0..lev] ==
            IF l = 0 THEN FoldedItems(nodes, row)
            ELSE [a \in AggIds(nodes[l]) |-> FoldedNode(f, nodes, level1[l - 1], l, 1, a, 0)]
    IN  level1[lev]

\* The same on layer lay.
Folded(f, nodes, row, lev, lay) ==
    LET layers[k \in 1..lay] ==
            IF k = 1 THEN FoldedFirst(f, nodes, row, lev)
            ELSE [a \in AggIds(nodes[lev]) |->
                    FoldedNode(f, nodes, FoldedFirst(f, nodes, row, lev - 1), lev, k, a,
                               layers[k - 1][a].retained_loss)]
    IN  layers[lay]

\* The row the vectors were last filled from.
LastRow ==
    IF level > 0 THEN gul_idx
    ELSE Max({0} \cup {g \in Passed : g <= 2 \/ gulhasvalue(input.event_guls[g])})

\* A call has calculated this level and layer for that row.
IsDone(l, k) == IF level = 0 THEN LastRow > 0
                ELSE l < level \/ (l = level /\ k < layer)

Children(l, a) == Kids(fm, avxs, l, a)

GroundUp(idx) == FoldLeft(LAMBDA t, i : t + input.event_guls[LastRow][i], 0, idx)

\* What a record says about the loss of its node.
Figures(x) == <<x.loss, x.retained_loss, x.effective_deductible, x.over_limit,
                x.under_limit>>

\* The sample identifier of a row.
SidxOf(g) == CASE g = 1 -> tiv_idx [] g = 2 -> mean_idx [] OTHER -> g - 2

\* The losses written for an output in the row g.
WrittenFor(o, g) ==
    LET of == SelectSeq(outmap[o], LAMBDA r : r.sidx = SidxOf(g))
    IN  FracSum([k \in DOMAIN of |-> of[k].loss])

\* The same over the items of a policy, or for the policy itself.
WrittenUnder(a, lay, g) ==
    IF AllocRule = 0 THEN WrittenFor(<<a, lay>>, g)
    ELSE LET at == avxs[fm.levels][VecIdx(avxs[fm.levels], a)].item_idx
         IN  FracSum([i \in DOMAIN at |-> WrittenFor(<<input.items[at[i]], lay>>, g)])

Gross(a, lay, g) == Folded(fm, avxs, input.event_guls[g], fm.levels, lay)[a].loss

ItemsOf(a) ==
    {input.items[i] : i \in Range(avxs[fm.levels][VecIdx(avxs[fm.levels], a)].item_idx)}

InputOf(a, g) ==
    LET at == avxs[fm.levels][VecIdx(avxs[fm.levels], a)].item_idx
    IN  FoldLeft(LAMBDA t, i : t + input.event_guls[g][i], 0, at)

\* A node of the first level below the policy a has a loss in the row g.
HasPriorLoss(a, g) ==
    \E b \in Nodes(1) :
        /\ \E i \in DOMAIN avxs[1][VecIdx(avxs[1], b)].item_idx :
              \E j \in DOMAIN avxs[fm.levels][VecIdx(avxs[fm.levels], a)].item_idx :
                 avxs[1][VecIdx(avxs[1], b)].item_idx[i]
                    = avxs[fm.levels][VecIdx(avxs[fm.levels], a)].item_idx[j]
        /\ Folded(fm, avxs, input.event_guls[g], 1, 1)[b].loss > 0

\* The first level left the policy a some loss to allocate by, and there are
\* proportions of the last level: they are those of its first layer, which has
\* none if no policy has a loss there.
HasProportions(a, k, g) ==
    AllocRule > 1 =>
        /\ HasPriorLoss(a, g)
        /\ k > 1 => \E b \in Nodes(fm.levels) : Gross(b, 1, g) > 0

------------------------------------------------------------------------------
(* Properties *)

\* The vectors are shared by the layers and by the samples of an event, and
\* yet a node that has been calculated for the row the loop is at holds what
\* the losses of that row alone, and the terms of the nodes below it, give:
\* nothing of an earlier sample, of another layer or of another node.
VectorsHoldTheSample ==
    \A l \in 1..fm.levels : \A k \in 1..MaxLayer(fm, l) :
        IsDone(l, k) =>
            LET vec == agg_vecs[l][k]
                folded == Folded(fm, avxs, input.event_guls[LastRow], l, k)
            IN  /\ {vec[n].agg_id : n \in DOMAIN vec} \ {0} = Nodes(l)
                /\ \A n \in DOMAIN vec : vec[n].agg_id # 0 =>
                      Figures(vec[n]) = Figures(folded[vec[n].agg_id])

\* What is written for a policy is its loss, whether it is written as one row
\* or allocated back to its items by their ground up losses (allocrule 1) or
\* by the losses of the level before (2 and 3): where there are proportions to
\* allocate by, the allocation neither loses nor makes money.
AllocationConserves ==
    ~input.netvalue =>
        \A g \in Passed, a \in Nodes(fm.levels), k \in 1..max_layer(fm) :
            LET gross == Gross(a, k, g)
            IN  gross >= 0 /\ HasProportions(a, k, g)
                => WrittenUnder(a, k, g) = Whole(gross)

\* FinancialModule.md:205: "-a2 # Losses are back-allocated to items on the
\* basis of the prior level losses": all of the losses.
AllLossesAllocated ==
    ~input.netvalue =>
        \A g \in Passed, a \in Nodes(fm.levels), k \in 1..max_layer(fm) :
            Gross(a, k, g) > 0 => WrittenUnder(a, k, g) = Whole(Gross(a, k, g))

\* "net loss = max(0, input loss - layer1 loss - layer2 loss - ...)", item by
\* item: together the items of a policy keep what its layers leave of the
\* input, exactly that as long as every item has something left, and more
\* than that only where a layer takes more from an item than it has.
NetIsRemainder ==
    input.netvalue /\ AllocRule > 1 =>
        \A g \in Passed, a \in Nodes(fm.levels) :
            LET top == max_layer(fm)
                paid == FoldSet(LAMBDA k, t : t + Gross(a, k, g), 0, 1..top)
                excess == Minus(WrittenUnder(a, top, g),
                                Whole(Clamped(InputOf(a, g) - paid)))
            IN  /\ ~IsNegative(excess)
                /\ (\A i \in ItemsOf(a) : IsPositive(WrittenFor(<<i, top>>, g)))
                        => excess = ZeroFrac

\* The terms return to the insured at most what the deductibles and limits
\* below took: a node never pays more than the ground up loss of its items,
\* whatever rules follow each other on the way up.
LossWithinGroundUp ==
    ~fm.stepped =>
        \A l \in 1..fm.levels : \A k \in 1..MaxLayer(fm, l) : \A n \in DOMAIN avxs[l] :
            IsDone(l, k) =>
                agg_vecs[l][k][n].loss <= GroundUp(avxs[l][n].item_idx)

\* The rules that keep account of what is retained; a stepped policy passes
\* over those it does not have.
Retaining == IF fm.stepped THEN {2, 14, 34} ELSE {2, 3, 14, 20, 22, 23, 24, 25, 34}
KeepsAccount(l, a, k) ==
    \A s \in Range(ProfileOf(fm, l, a, k)) :
        s.calcrule \in Retaining \/ (l < fm.levels /\ s.calcrule \in {12, 100})

\* What the account of a policy says it retains after a layer is what is left
\* of the ground up losses of its items once this layer and those before have
\* taken their share, when every rule on the way keeps the account.
RetainedIsRest ==
    \A k \in 1..max_layer(fm) : \A n \in DOMAIN avxs[fm.levels] :
        LET a == avxs[fm.levels][n].agg_id
            ground == GroundUp(avxs[fm.levels][n].item_idx)
            taken == SumOf([j \in 1..k |-> agg_vecs[fm.levels][j][n].loss], 1..k)
        IN  /\ IsDone(fm.levels, k)
            /\ ground > 0
            /\ \A l \in 1..(fm.levels - 1) : \A b \in Nodes(l) : KeepsAccount(l, b, 1)
            /\ \A j \in 1..k : KeepsAccount(fm.levels, a, j)
            => agg_vecs[fm.levels][k][n].retained_loss = ground - taken

\* The children of node a of level l all have a limit, and their limits.
AllLimited(l, a) ==
    \A b \in Children(l, a) : ProfileOf(fm, l - 1, b, 1)[1].calcrule \in {1, 3, 4, 9, 14, 33}
LimitsBelow(l, a) ==
    FoldSet(LAMBDA b, t : t + ProfileOf(fm, l - 1, b, 1)[1].l1, 0, Children(l, a))

\* A maximum deductible that gives back some of the deductibles does not take
\* the loss over the limits of the level below, if that level left an account
\* of them.
LimitsReapplied ==
    \A l \in 2..fm.levels : \A n \in DOMAIN avxs[l] :
        LET a == avxs[l][n].agg_id
        IN  /\ IsDone(l, 1) /\ AllLimited(l, a)
            /\ \E b \in Children(l, a) :
                  LET x == agg_vecs[l - 1][1][VecIdx(avxs[l - 1], b)]
                  IN  HasPriorLimits(x)
            => agg_vecs[l][1][n].loss <= LimitsBelow(l, a)

\* A node pays no more than its items lost, and no more than the limits below
\* it allow, whichever deductibles are given back on the way up.
PaymentsBounded == LossWithinGroundUp /\ LimitsReapplied
==============================================================================
